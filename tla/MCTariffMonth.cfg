SPECIFICATION Spec
CONSTANTS
  Tariffs = {agile}
  Fixed = {}
  Cycles = {timer}
  OnDisk <- NoFile
  HasExport = FALSE
  OwnListed = TRUE
  MaxMonth = 1
  MaxReloads = 0
  MaxEvents = 1
INVARIANT StaleNotShown
