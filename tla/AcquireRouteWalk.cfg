SPECIFICATION Spec
CONSTANTS
  Requests = {r1, r2, r3}
  Entries = {e1, e2}
  Models = {m1}
  e1 = e1
  e2 = e2
  e3 = e3
  m1 = m1
  m2 = m2
  NoEntry = NoEntry
  NoModel = NoModel
  FirstRoster <- TwoEntries
  Cap = 1
  Depth = 1
  MaxSpill = 1
  Refusals = {"long429", "ipCapped", "other"}
  EnvOps = {"cancel", "expire"}
SYMMETRY RequestSymmetry
INVARIANT QueueSound
PROPERTIES  SlotsAreSemaphore
