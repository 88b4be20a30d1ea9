-------------------------------- MODULE LogSpill --------------------------------
(***************************************************************************)
(* logring/logring.go and dashboard/dashboard_history.go: log records go   *)
(* into a ring the console reads, and from there through a bounded channel *)
(* to one goroutine that writes them to the database in batches, purges    *)
(* what is old, and drains the channel when the dashboard closes.          *)
(***************************************************************************)
EXTENDS Naturals, Sequences, SequencesExt, FiniteSets

CONSTANTS
  Loggers,            \* goroutines that log
  capacity, spillBufSize, spillFlushSize,
  Retention,          \* ticks a row is kept
  MaxRecords, MaxTicks, MaxFaults

VARIABLES
  clock,
  ring,      \* the Ring: buf, next, filled, whether the tap is installed
  held,      \* held[g]: the record g retained and has not offered to the tap yet
  ch,        \* spillCh
  spiller,   \* the consumer: pc, batch
  closing,   \* Close: pc
  table,     \* log_entries: how many rows each record has
  past       \* history: all records in order of the ring; what was dropped, lost, purged; faults

\* NewHandler makes the ring of at least one place.
SpillAssumption == capacity \in Nat \ {0} /\ MaxRecords \in Nat

spillVars == <<clock, ring, held, ch, spiller, closing, table, past>>

NoRecord == 0

SpillInit ==
  /\ clock = 0 /\ held = [g \in Loggers |-> NoRecord] /\ ch = << >> /\ table = [r \in 1 .. MaxRecords |-> 0]
  /\ ring = [buf |-> [i \in 0 .. capacity - 1 |-> NoRecord], next |-> 0, filled |-> 0, tap |-> TRUE]
  /\ spiller = [pc |-> "run", batch |-> << >>] /\ closing = "open"
  /\ past = [all |-> << >>, at |-> << >>, dropped |-> {}, lost |-> {}, purged |-> {}, late |-> {}, untapped |-> {}, faults |-> 0]

-----------------------------------------------------------------------------
(* Ring.push retains the record under the lock and taps it after.          *)
Push(g) ==
  LET r == Len(past.all) + 1 IN
  /\ held[g] = NoRecord /\ r <= MaxRecords
  /\ ring' = [ring EXCEPT !.buf[ring.next] = r, !.next = (@ + 1) % capacity,
                          !.filled = IF @ < capacity THEN @ + 1 ELSE @]
  /\ held' = IF ring.tap THEN [held EXCEPT ![g] = r] ELSE held
  /\ past' = [past EXCEPT !.all = Append(@, r), !.at = Append(@, clock),
                          !.untapped = IF ring.tap THEN @ ELSE @ \cup {r}]
  /\ UNCHANGED <<clock, ch, spiller, closing, table>>
\* enqueueSpill: a full buffer drops.
Offer(g) ==
  /\ held[g] # NoRecord /\ held' = [held EXCEPT ![g] = NoRecord]
  /\ IF Len(ch) < spillBufSize
     THEN /\ ch' = Append(ch, held[g])
          /\ past' = [past EXCEPT !.late = IF closing = "open" THEN @ ELSE @ \cup {held[g]}]
     ELSE past' = [past EXCEPT !.dropped = @ \cup {held[g]}] /\ UNCHANGED ch
  /\ UNCHANGED <<clock, ring, spiller, closing, table>>
\* Ring.recent, newest first.
RecentUnwrapped(n) == [i \in 1 .. (IF n < ring.filled THEN n ELSE ring.filled) |-> ring.buf[(capacity - i) % capacity]]
Recent(n) ==
  [i \in 1 .. (IF n < ring.filled THEN n ELSE ring.filled) |-> ring.buf[(ring.next - i + capacity) % capacity]]

-----------------------------------------------------------------------------
(* spillLoop.  A batch the database refuses is gone.                       *)
Flush(batch, ok, t, p) ==
  /\ ok \/ past.faults < MaxFaults \/ closing = "closed"
  /\ closing = "closed" => ~ok
  /\ table' = IF ok THEN [r \in DOMAIN t |-> IF r \in ToSet(batch) THEN t[r] + 1 ELSE t[r]] ELSE t
  /\ past' = IF ok \/ batch = << >> THEN p
             ELSE [p EXCEPT !.lost = @ \cup ToSet(batch), !.faults = IF closing = "closed" THEN @ ELSE @ + 1]
Take(ok) ==
  LET full == Append(spiller.batch, Head(ch)) IN
  /\ spiller.pc \in {"run", "drain"} /\ ch # << >> /\ ch' = Tail(ch)
  /\ IF Len(full) >= spillFlushSize
     THEN Flush(full, ok, table, past) /\ spiller' = [spiller EXCEPT !.batch = << >>]
     ELSE ok /\ spiller' = [spiller EXCEPT !.batch = full] /\ UNCHANGED <<table, past>>
  /\ UNCHANGED <<clock, ring, held, closing>>
Tick(ok) ==
  /\ spiller.pc = "run" /\ spiller.batch # << >>
  /\ Flush(spiller.batch, ok, table, past) /\ spiller' = [spiller EXCEPT !.batch = << >>]
  /\ UNCHANGED <<clock, ring, held, ch, closing>>
\* purgeHistory, after a flush.
Stored == {r \in DOMAIN table : table[r] > 0}
Old == {r \in Stored : past.at[r] + Retention < clock}
Purge(ok) ==
  /\ spiller.pc = "run" /\ closing # "closed" /\ Old # {}
  /\ Flush(spiller.batch, ok, [r \in DOMAIN table |-> IF r \in Old THEN 0 ELSE table[r]], [past EXCEPT !.purged = @ \cup Old])
  /\ spiller' = [spiller EXCEPT !.batch = << >>]
  /\ UNCHANGED <<clock, ring, held, ch, closing>>
\* spillDone is closed: the rest is drained.
DrainBegins ==
  /\ spiller.pc = "run" /\ closing # "open" /\ spiller' = [spiller EXCEPT !.pc = "drain"]
  /\ UNCHANGED <<clock, ring, held, ch, closing, table, past>>
DrainEndsUnflushed(ok) ==
  /\ spiller.pc = "drain" /\ ch = << >> /\ ok /\ spiller' = [spiller EXCEPT !.pc = "done"]
  /\ UNCHANGED <<clock, ring, held, ch, closing, table, past>>
DrainEnds(ok) ==
  /\ spiller.pc = "drain" /\ ch = << >>
  /\ Flush(spiller.batch, ok, table, past) /\ spiller' = [pc |-> "done", batch |-> << >>]
  /\ UNCHANGED <<clock, ring, held, ch, closing>>

-----------------------------------------------------------------------------
(* Dashboard.Close waits for the consumer, but not for ever; then the tap  *)
(* is taken out and the database closed.                                   *)
CloseBegins == closing = "open" /\ closing' = "waiting" /\ UNCHANGED <<clock, ring, held, ch, spiller, table, past>>
CloseWaited(done) ==
  /\ closing = "waiting" /\ (done <=> spiller.pc = "done") /\ (done \/ past.faults < MaxFaults)
  /\ closing' = "untapped" /\ ring' = [ring EXCEPT !.tap = FALSE]
  /\ past' = IF done THEN past ELSE [past EXCEPT !.faults = @ + 1]
  /\ UNCHANGED <<clock, held, ch, spiller, table>>
CloseStore == closing = "untapped" /\ closing' = "closed" /\ UNCHANGED <<clock, ring, held, ch, spiller, table, past>>
Later == clock < MaxTicks /\ clock' = clock + 1 /\ UNCHANGED <<ring, held, ch, spiller, closing, table, past>>

SpillNext ==
  \/ \E g \in Loggers : Push(g) \/ Offer(g)
  \/ \E ok \in BOOLEAN : Take(ok) \/ Tick(ok) \/ Purge(ok) \/ DrainEnds(ok) \/ CloseWaited(ok)
  \/ DrainBegins \/ CloseBegins \/ CloseStore \/ Later
SpillSpec == SpillInit /\ [][SpillNext]_spillVars

-----------------------------------------------------------------------------
\* The console reads the latest records, newest first, across the wrap of the ring.
Latest(n) == Reverse(SubSeq(past.all, IF Len(past.all) < n THEN 1 ELSE Len(past.all) - n + 1, Len(past.all)))
RingReads == \A n \in 0 .. capacity + 1 : Recent(n) = Latest(IF n < capacity THEN n ELSE capacity)
\* Every record is in exactly one place: held, queued, batched, stored, or known to be
\* dropped, lost, purged or too late for the tap; none is stored twice; and once the
\* consumer is done nothing offered before Close is left behind, and without a fault
\* nothing is lost.
Places == <<{held[g] : g \in Loggers} \ {NoRecord}, ToSet(ch), ToSet(spiller.batch), Stored,
            past.dropped, past.lost, past.purged, past.untapped>>
SpillAddsUp ==
  /\ \A i, j \in DOMAIN Places : i # j => Places[i] \cap Places[j] = {}
  /\ IsInjective(spiller.batch \o ch) /\ \A r \in Stored : table[r] = 1
  /\ ToSet(past.all) = UNION {Places[i] : i \in DOMAIN Places}
  /\ spiller.pc = "done" => spiller.batch = << >> /\ ToSet(ch) \subseteq past.late
  /\ past.faults = 0 => past.lost = {}
LogsKept == RingReads /\ SpillAddsUp
=============================================================================
