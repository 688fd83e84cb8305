SPECIFICATION FairSpec
CONSTANTS
  SlotLen = 2
  ForceLen = 2
  Lossy = FALSE
  Windows <- MCWindows
  FreshLimit = 1
  StaleLimit = 2
  AxlePolled = TRUE
  FailSafeClosed = TRUE
  Tasks = {t1}
  Update = Update
  LastSlot = 3
  Schedules <- MCSchedules
  RateEnds = {4}
  ExpiryMargin = 2
  SimulateOnly = FALSE
  MlEnabled = TRUE
  MaxTime = 2
  MaxRestarts = 0
PROPERTIES CycleEnds PlanCatchesUp
