SPECIFICATION Spec
CONSTANTS
  Trainers = {t1}
  Starters = {c1}
  OnDisk <- MCOnDisk
  Aged = {1}
  Physics = TRUE
  MaxModels = 2
  MaxRestarts = 0
  MaxReloads = 0
INVARIANTS Corrected
