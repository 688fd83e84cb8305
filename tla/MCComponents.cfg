SPECIFICATION ComponentsSpec
CONSTANTS
  Codes = {t1, t2}
  MaxRetries = 2
  Timeout = 4
  BaseDelay = 2
  Jitter = 1
  Capacity = 6
  MaxPerSlot = 2
  MaxDemand = 3
  MaxSurplus = 3
  MaxStart = 10
  NumSlots = 3
  Actions <- MCActions
  Free = {}
  Favoured = {2}
  ForcedTo <- MCForcedTo
  SearchCost <- MCCost
  PopulationSize = 4
  Generations = 1
  Planners = {p1, p2}
  Agreements <- MCAgreements
  Ttl = 2
  MaxTick = 5
  Window = 4
  SlotsPerDay = 2
  Prices <- MCPrices
  NoPrice = NoPrice
  HistoryDays = 2
  DaySlots = 3
  PageSlots = 1
  Usages <- MCUsages
  MaxSlotEnergy = 3
  LoadFloor = 1
  RunSlots = 2
  FlatSlots = 3
  CleanSlots = 2
  MaxSetups = 4
  DayLen = 4
  DaysAhead = 2
  UnitRates <- MCUnitRates
  DayTicks = 2
  MonthDays = 3
INVARIANT ComponentsTypeOK
INVARIANT ComparedIffEnabled
INVARIANT FetchBounded
INVARIANT LevelInReach
INVARIANT SoldIsThere
INVARIANT OnlyDemandUnpaid
INVARIANT PlanIsShown
INVARIANT TariffInForce
INVARIANT PricedInForce
INVARIANT DailyRatesRepeat
INVARIANT EnergyKept
INVARIANT OwnEnergyTrained
INVARIANT DaysChargedOnce
INVARIANT OneCoordinator
INVARIANT OnlyHalfwayLeft
PROPERTY AxleKept
PROPERTY AsShownKeeps
