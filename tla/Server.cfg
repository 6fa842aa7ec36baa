CONSTANTS
  Tasks = {t1}
  Temps = {f1, f2, f3}
  Versions = {1, 2, 3}
  None = None
  MaxFaults = 1
  LimitKeys = {"a", "b"}
  maxRequestNum <- RequestLimits
  duration <- LimitTimes
  expiration = 3
  MaxPassed = 4
  MaxSeconds = 6
  Callers = {1, 2}
  Fingerprints = {"f", "g"}
  FirstNodes = {"f"}
  ProfileRows <- CatalogueRows
  Folded <- LowerNames
  Unfolded = {"foreign"}
  NodeSets = {{1}, {1, 2}}
  MaxNodeId = 2
  MaxProfileId = 2
  MaxCalls = 3
  Programs = {1, 2, 3}
  MaxStarts = 4
  TestedNodes = 3
  Parallel = 2
  LocalPorts = {1, 2}
  Installers = {1, 2}
  InstallPaths = {"p"}
  KernelVersions = {"a", "b"}
  Bad = "bad"
  Nothing = "none"
  MaxInstalls = 3
  MaxInstallFaults = 1
SPECIFICATION ServerSpec
INVARIANTS
  ServerTypeOK Recoverable LimitKept SchemaSound CatalogueSound PoolSound InstallSound
CHECK_DEADLOCK FALSE
