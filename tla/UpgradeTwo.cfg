CONSTANTS
  Tasks = {t1, t2}
  Temps = {f1, f2}
  Versions = {1, 2, 3}
  None = None
  MaxFaults = 0
SPECIFICATION Spec
INVARIANT SingleUpgrade
SYMMETRY Symmetry
