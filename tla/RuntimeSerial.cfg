CONSTANTS
  Callers = {c1}
  Pids = {p1, p2}
  Configs = {f1, f2}
  None = None
  MaxMishaps = 0
SPECIFICATION FairSpec
INVARIANTS NoStrayKernel StatusReportsKernel RunningConfigKnown
PROPERTIES ImplementsKernelService RequestsReturn ExitNoticed
