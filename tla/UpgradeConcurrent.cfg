CONSTANTS
  Tasks = {t1, t2}
  Temps = {f1, f2}
  Versions = {1, 2, 3}
  None = None
  MaxFaults = 1
SPECIFICATION FairSpec
INVARIANTS TypeOK CandidateReady OneOwner
PROPERTIES NeverDowngrade TempsAccounted UpgradeEnds
CHECK_DEADLOCK FALSE
