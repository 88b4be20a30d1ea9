------------------------------ MODULE SpendLedger ------------------------------
(***************************************************************************)
(* pool/pool_ledger.go, spend.go and pool_persist.go: the counters kept    *)
(* for one account over a rolling window and over the Pacific periods, and *)
(* how a background flush and the next boot carry them, while chats end,   *)
(* the account leaves the roster and comes back, and the process dies.     *)
(***************************************************************************)
EXTENDS Naturals, Sequences, SequencesExt, FiniteSets, FiniteSetsExt

CONSTANTS
  Periods, Starts,       \* Starts[p]: when the periods of kind p begin, the first at 1
  Window,                \* usageWindow, 24 hours
  Amounts,               \* tokens of a spend
  MaxClock, MaxSpends, MaxEdits, MaxBoots   \* bounds

VARIABLES
  clock,
  ledger,    \* the AccountLedger; without an entry on the roster, Blank
  listed,    \* the account is on the roster
  row,       \* its row of pool_state
  dirty,     \* persistDirty
  flush,     \* the flush: what it staged
  log,       \* history: the chats and spends of this ledger, those of the row
  count

ledgerVars == <<clock, ledger, listed, row, dirty, flush, log, count>>

\* bucketStart, needsRollover; 0 is no start.
StartOf(p, t) == Max({s \in Starts[p] : s <= t})
RolledOver(p, start, t) == start = 0 \/ \E s \in Starts[p] : start < s /\ s <= t
Blank == [usage |-> << >>, dayStart |-> 0, dayCount |-> 0, rolling |-> << >>, total |-> 0,
          used |-> [p \in Periods |-> [sum |-> 0, start |-> 0]], limited |-> 0]
NoRow == [has |-> FALSE, is |-> Blank]
NoFlush == [pc |-> "idle", is |-> NoRow, log |-> << >>]
SumOf(entries) == FoldSeq(LAMBDA e, n : e.tokens + n, 0, entries)
Recent(t) == t + Window >= clock     \* not before the cutoff

-----------------------------------------------------------------------------
(* The ledger.                                                             *)
PrunedUsage(l) == [l EXCEPT !.usage = SelectSeq(@, Recent)]
Pruned(l) ==
  LET kept == SelectSeq(l.rolling, LAMBDA e : Recent(e.at))
      lost == SelectSeq(l.rolling, LAMBDA e : ~Recent(e.at))
  IN [l EXCEPT !.rolling = kept, !.total = @ - SumOf(lost)]
DayRolled(l) ==
  IF StartOf("day", clock) = l.dayStart THEN l
  ELSE [l EXCEPT !.dayStart = StartOf("day", clock), !.dayCount = 0]
RollBucketLate(p, b, tokens) == [sum |-> b.sum + tokens, start |-> IF b.start = 0 THEN StartOf(p, clock) ELSE b.start]
RollBucket(p, b, tokens) ==
  IF RolledOver(p, b.start, clock) THEN [sum |-> tokens, start |-> StartOf(p, clock)]
  ELSE [b EXCEPT !.sum = @ + tokens]
Chatted(l) ==
  LET d == DayRolled(PrunedUsage(l)) IN [d EXCEPT !.usage = Append(@, clock), !.dayCount = @ + 1]
Added(l, n) ==
  LET d == Pruned(l)
  IN [d EXCEPT !.rolling = Append(@, [at |-> clock, tokens |-> n]), !.total = @ + n,
               !.used = [p \in Periods |-> RollBucket(p, @[p], n)]]
\* installLedger: what a boot makes of a row.
Installed(l) ==
  LET kept == SelectSeq(l.rolling, LAMBDA e : Recent(e.at) /\ e.tokens > 0)
  IN DayRolled(PrunedUsage(
       [l EXCEPT !.rolling = kept, !.total = SumOf(kept),
                 !.used = [p \in Periods |-> IF RolledOver(p, @[p].start, clock)
                                             THEN [sum |-> 0, start |-> StartOf(p, clock)] ELSE @[p]]]))

LedgerInit ==
  /\ clock = 1 /\ ledger = Blank /\ listed = TRUE /\ row = NoRow /\ dirty = FALSE /\ flush = NoFlush
  /\ log = [now |-> << >>, saved |-> << >>, reborn |-> FALSE] /\ count = [spends |-> 0, edits |-> 0, boots |-> 0]

\* recordChatEntry, recordSpendEntry, recordSpendLimited
Record(l, what, n, marks) ==
  /\ listed /\ count.spends < MaxSpends /\ count' = [count EXCEPT !.spends = @ + 1]
  /\ ledger' = l /\ dirty' = (dirty \/ marks)
  /\ log' = [log EXCEPT !.now = Append(@, [what |-> what, at |-> clock, tokens |-> n])]
  /\ UNCHANGED <<clock, listed, row, flush>>
Chat == Record(Chatted(ledger), "chat", 0, TRUE)
Spend(n) == Record(Added(ledger, n), "spend", n, TRUE)
\* On a lease's own account nobody marks it.
Limited(marks) == Record([ledger EXCEPT !.limited = @ + 1], "limited", 0, marks)
\* A snapshot prunes what it reads.
View ==
  /\ listed /\ ledger' = DayRolled(Pruned(PrunedUsage(ledger)))
  /\ UNCHANGED <<clock, listed, row, dirty, flush, log, count>>
Later == clock < MaxClock /\ clock' = clock + 1 /\ UNCHANGED <<ledger, listed, row, dirty, flush, log, count>>
\* RemoveTokenAt and AddToken, which makes a new entry.
Edit ==
  /\ count.edits < MaxEdits /\ count' = [count EXCEPT !.edits = @ + 1]
  /\ listed' = ~listed /\ ledger' = Blank
  /\ log' = [log EXCEPT !.now = << >>, !.reborn = TRUE]
  /\ UNCHANGED <<clock, row, dirty, flush>>

-----------------------------------------------------------------------------
(* FlushPoolPersist: the swap, the capture, the save, the prune.           *)
FlushBegins ==
  /\ flush.pc = "idle" /\ dirty /\ dirty' = FALSE
  /\ flush' = [NoFlush EXCEPT !.pc = "capture"]
  /\ UNCHANGED <<clock, ledger, listed, row, log, count>>
Capture ==
  /\ flush.pc = "capture"
  /\ flush' = [flush EXCEPT !.pc = "save", !.is = [has |-> listed, is |-> ledger], !.log = log.now]
  /\ UNCHANGED <<clock, ledger, listed, row, dirty, log, count>>
Save(ok) ==
  /\ flush.pc = "save"
  /\ IF ok THEN /\ row' = IF flush.is.has THEN flush.is ELSE row
                /\ log' = IF flush.is.has THEN [log EXCEPT !.saved = flush.log] ELSE log
                /\ flush' = [flush EXCEPT !.pc = "prune"] /\ UNCHANGED dirty
     ELSE dirty' = TRUE /\ flush' = NoFlush /\ UNCHANGED <<row, log>>
  /\ UNCHANGED <<clock, ledger, listed, count>>
Prune ==
  /\ flush.pc = "prune" /\ flush' = NoFlush
  /\ row' = IF flush.is.has THEN row ELSE NoRow
  /\ log' = IF flush.is.has THEN log ELSE [log EXCEPT !.saved = << >>]
  /\ UNCHANGED <<clock, ledger, listed, dirty, count>>
\* The process ends, orderly or not, and the next one restores the account when the
\* list still has it.
Boot ==
  /\ count.boots < MaxBoots /\ count' = [count EXCEPT !.boots = @ + 1]
  /\ ledger' = IF listed /\ row.has THEN Installed(row.is) ELSE Blank
  /\ dirty' = FALSE /\ flush' = NoFlush
  /\ log' = [log EXCEPT !.now = IF listed /\ row.has THEN log.saved ELSE << >>, !.reborn = ~(listed /\ row.has)]
  /\ UNCHANGED <<clock, listed, row>>

LedgerNext ==
  \/ Chat \/ View \/ Later \/ Edit \/ Capture \/ Prune \/ Boot
  \/ \E n \in Amounts : Spend(n)
  \/ \E marks \in BOOLEAN : Limited(marks)
  \/ FlushBegins \/ \E ok \in BOOLEAN : Save(ok)
LedgerSpec == LedgerInit /\ [][LedgerNext]_ledgerVars

-----------------------------------------------------------------------------
\* The counters are what the chats and spends since the ledger began add up to, over
\* the window and over each period, across restarts what the row had of them; and
\* with no flush owed or under way the row has them all.  (A ledger made new for an
\* account that came back leaves the old row until it is written.)
Of(what) == SelectSeq(log.now, LAMBDA r : r.what = what)
InPeriod(p, start, t) == start # 0 /\ StartOf(p, t) = start
SumIn(ok(_)) == SumOf(SelectSeq(Of("spend"), ok))
LedgerAddsUp ==
  LET v == Pruned(PrunedUsage(ledger))
      chats == Of("chat")
  IN /\ Len(v.usage) = Len(SelectSeq(chats, LAMBDA r : Recent(r.at)))
     /\ DayRolled(v).dayCount = Len(SelectSeq(chats, LAMBDA r : StartOf("day", r.at) = StartOf("day", clock)))
     /\ v.total = SumIn(LAMBDA r : Recent(r.at))
     /\ \A p \in Periods :
          LET b == v.used[p]
              t == IF RolledOver(p, b.start, clock) THEN [sum |-> 0, start |-> StartOf(p, clock)] ELSE b
          IN t.sum = SumIn(LAMBDA r : InPeriod(p, t.start, r.at))
     /\ v.limited = Len(Of("limited"))
Counted(l) == SelectSeq(l, LAMBDA r : r.what # "limited")
RowKeepsUp == listed /\ ~dirty /\ flush.pc = "idle" /\ ~(log.reborn /\ log.now = << >>) => Counted(log.saved) = Counted(log.now)
CountersHold == LedgerAddsUp /\ RowKeepsUp
=============================================================================
