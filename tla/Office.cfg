SPECIFICATION OfficeSpec
CONSTANTS
  office_names = {"config", "probes", "streaks", "store", "ledger", "schema", "carry"}
  Admins = {p1, p2}
  p1 = p1
  Wizard = Wizard
  MaxOrders = 2
  MaxFaults = 1
  MaxBoots = 1
  pa1 = pa1
  pa2 = pa2
  Fresh = 1
  Base = 1
  Cap = 3
  MaxPerTick = 1
  Midnight = 3
  MaxProbeClock = 3
  MaxProbeActs = 2
  Day = 5
  Window = 4
  Gate = 2
  Buffer = 1
  Throttle = 2
  Backoff = 1
  MaxTicks = 4
  MaxNights = 8
  MaxStreakActs = 1
  MaxNightActs = 1
  StoreAgents = {"g1", "g2"}
  MaxStoreCalls = 3
  MaxStoreFaults = 1
  MaxStoreBoots = 2
  UsageWindow = 1
  MaxLedgerClock = 3
  MaxSpends = 3
  MaxEdits = 1
  MaxLedgerBoots = 1
  schemaVersion = 5
  Alters = {3, 5}
  MaxCuts = 2
  MaxOpens = 3
  MaxCarryFaults = 1
  MaxCarryBoots = 2
  MaxCarryWrites = 2
CHECK_DEADLOCK FALSE
INVARIANTS ConfigAgrees ResumesWhatWasSaved CountersHold 
PROPERTIES TendingMeasured 
