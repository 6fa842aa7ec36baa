CONSTANTS
  Callers = {c1}
  Pids = {p1, p2}
  Configs = {f1}
  None = None
  MaxMishaps = 0
SPECIFICATION Spec
INVARIANT StatusAccurate
