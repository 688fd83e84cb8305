SPECIFICATION FairSpec
CONSTANTS
  Trainers = {t1, t2}
  Starters = {c1}
  OnDisk <- MCOnDisk
  Aged = {1}
  Physics = TRUE
  MaxModels = 2
  MaxRestarts = 1
  MaxReloads = 1
INVARIANTS TypeOK TrainingExclusive ServedIsSaved ReadyHasModel
PROPERTIES StoresModels NoModelLost RegressionOnlyByMigration TrainingEnds
