SPECIFICATION Spec
CONSTANTS
  Runs = {u1, u2}
  Agents = {a1}
  Callers = {c1, c2}
  Maint = Maint
  Drainer = Drainer
  Worker = Worker
  Stopper = Stopper
  NoRun = NoRun
  NoAgent = NoAgent
  NoProc = NoProc
  QueueSize = 1
  DrainCap = 1
  Persist = FALSE
  EnvOps = {"age", "err", "drain", "gone"}
SYMMETRY Symmetry
INVARIANTS LeaseCount DrainSound NoOrphan FinishedOnce FlightSound
PROPERTIES RunsLiveOnce
