SPECIFICATION Spec
CONSTANTS
  SlotLen = 2
  ForceLen = 2
  Lossy = FALSE
  Windows <- MCWindows
  FreshLimit = 1
  StaleLimit = 2
  AxlePolled = TRUE
  FailSafeClosed = TRUE
  Tasks = {t1}
  Update = Update
  LastSlot = 3
  Schedules <- MCSchedules
  RateEnds = {4}
  ExpiryMargin = 2
  SimulateOnly = FALSE
  MlEnabled = FALSE
  MaxTime = 4
  MaxRestarts = 0
PROPERTY SuppressedDispatch
