SPECIFICATION ESpec
CONSTANTS
  Clients = {c1}
  Operator = Operator
  Maintainer = Maintainer
  e1 = e1
  e2 = e2
  Entries = {e1, e2, e3}
  Boot <- TwoTokens
  MaxTurns = 1
  MaxEdits = 1
  EntryOps = {"reorder"}
  NoEntry = NoEntry
  Nobody = Nobody
CHECK_DEADLOCK FALSE
INVARIANTS RosterIsOpen
