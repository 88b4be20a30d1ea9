SPECIFICATION Spec
CONSTANTS
  Requests = {r1, r2, r3}
  Entries = {e1}
  Models = {m1, m2}
  e1 = e1
  e2 = e2
  e3 = e3
  m1 = m1
  m2 = m2
  NoEntry = NoEntry
  NoModel = NoModel
  FirstRoster <- OneEntry
  Cap = 2
  Depth = 1
  MaxSpill = 0
  Refusals = {"banned", "country"}
  EnvOps = {"lock", "expire", "coldSession"}
SYMMETRY RequestSymmetry
INVARIANTS SlotCap
