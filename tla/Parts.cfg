SPECIFICATION PSpec
CONSTANTS
  part_names = {"bridge", "entries"}
  Requests = {r1, r2}
  Maint = Maint
  Tokens = {t1, t2}
  Models = {m1, m2}
  Bridges = {b1, b2}
  MaxBridge = 1
  Cap = 1
  MaxAdmit = 2
  MaxCalls = 3
  MaxEvents = 1
  BridgeOps = {"auth", "other", "probe", "idle", "lost", "stop"}
  NoBridge = NoBridge
  NoToken = NoToken
  NoModel = NoModel
  NoProc = NoProc
  Clients = {c1, c2}
  Operator = Operator
  Maintainer = Maintainer
  Entries = {e1, e2}
  e1 = e1
  MaxTurns = 2
  MaxEdits = 2
  EntryOps = {"add", "last", "at", "all", "swap", "move", "reload", "finish", "stop"}
  NoEntry = NoEntry
  Nobody = Nobody
SYMMETRY Symmetry
CHECK_DEADLOCK FALSE
INVARIANTS LeasedIsCached SlippedServed
