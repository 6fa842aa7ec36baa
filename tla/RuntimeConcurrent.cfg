CONSTANTS
  Callers = {c1, c2}
  Pids = {p1, p2}
  Configs = {f1}
  None = None
  MaxMishaps = 1
SPECIFICATION Spec
INVARIANTS RegistryWatched StopMeansDead
SYMMETRY Symmetry
CONSTRAINTS RendersAlways OneAfterMishap
