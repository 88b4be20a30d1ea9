SPECIFICATION Spec
CONSTANTS
  Callers = {c1, c2}
  Seatless = {}
  ReAdmit = ReAdmit
  Poller = Poller
  Ender = Ender
  Models = {m1, m2}
  Fallback = m2
  Insts = {i1, i2}
  MaxOuter = 2
  MaxRefresh = 2
  MaxEvents = 2
  MaxCalls = 2
  EnvOps = {"age", "kill", "cancel", "expire", "poll", "end", "clear", "restart", "crash", "err"}
  NoInst = NoInst
  NoModel = NoModel
  NoProc = NoProc
SYMMETRY Symmetry
INVARIANTS SingleFlight StoreMirrors
PROPERTIES SeatGate
CHECK_DEADLOCK FALSE
