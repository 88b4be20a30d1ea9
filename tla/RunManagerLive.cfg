SPECIFICATION FairSpec
CONSTANTS
  Runs = {u1, u2}
  Agents = {a1}
  Callers = {c1}
  Maint = Maint
  Drainer = Drainer
  Worker = Worker
  Stopper = Stopper
  NoRun = NoRun
  NoAgent = NoAgent
  NoProc = NoProc
  QueueSize = 1
  DrainCap = 2
  Persist = FALSE
  EnvOps = {"precreate", "age", "drain", "shutdown", "deadline"}
INVARIANTS ClosedStays
  
