SPECIFICATION Spec
CONSTANTS
  Runs = {u1, u2}
  Agents = {a1}
  Callers = {c1, c2}
  Maint = Maint
  Drainer = Drainer
  Worker = Worker
  Stopper = Stopper
  NoRun = NoRun
  NoAgent = NoAgent
  NoProc = NoProc
  QueueSize = 1
  DrainCap = 2
  Persist = TRUE
  EnvOps = {"ttl", "age", "maintain", "cancel", "cool", "shutdown", "crash"}
SYMMETRY Symmetry
INVARIANTS OneObjectLeased
