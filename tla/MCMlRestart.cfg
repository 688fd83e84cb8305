SPECIFICATION FairSpec
CONSTANTS
  Trainers = {t1}
  Starters = {c1}
  OnDisk <- MCOnDisk
  Aged = {1}
  Physics = TRUE
  MaxModels = 2
  MaxRestarts = 1
  MaxReloads = 0
PROPERTIES ServedAfterRestart
