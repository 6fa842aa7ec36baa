CONSTANTS
  Tasks = {t1}
  Temps = {f1, f2}
  Versions = {1, 2, 3}
  None = None
  MaxFaults = 0
SPECIFICATION Spec
PROPERTY PreviewAllowed
