CONSTANTS
  Callers = {c1, c2}
  Pids = {p1}
  Configs = {f1, f2}
  None = None
  MaxMishaps = 1
SPECIFICATION Spec
INVARIANTS TypeOK PidWatched
SYMMETRY Symmetry
CONSTRAINTS RendersAlways OneAfterMishap
