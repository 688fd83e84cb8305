SPECIFICATION FairSpec
CONSTANTS
  Tariffs = {go}
  Fixed = {go}
  Cycles = {timer}
  OnDisk <- File
  HasExport = TRUE
  OwnListed = TRUE
  MaxMonth = 1
  MaxReloads = 1
  MaxEvents = 2
INVARIANTS TypeOK ForcedIsNew
PROPERTIES UpToDate SimulatedAgain
