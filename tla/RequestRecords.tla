----------------------------- MODULE RequestRecords -----------------------------
(***************************************************************************)
(* store/history.go and history_rollup.go with dashboard_rollup.go: the    *)
(* table of request outcomes.  Chats record, the retention purges, an      *)
(* operator exports a window, imports it again and asks for a rollup, each *)
(* of whose groups is a query of its own.                                  *)
(***************************************************************************)
EXTENDS Naturals, Sequences, SequencesExt, FiniteSets, FiniteSetsExt

CONSTANTS
  Requests,               \* request ids
  Outcomes,               \* how a request ends: model, status, time until the first byte, 0 when upstream was not reached
  RollupMaxWindowMillis,  \* also the retention
  Skew,                   \* rollupFutureSkewMillis
  BucketMs, Docs,         \* Docs: documents somebody may import
  Windows,                \* the windows somebody asks for: since, until
  MaxClock, MaxCalls

VARIABLES
  clock,
  rows,      \* request_records, one row per id
  export,    \* the rows of the last exported document
  rollup,    \* the rollup under way: pc, window, the groups read so far
  past       \* history: whether the table changed under the rollup, the last import

recordVars == <<clock, rows, export, rollup, past>>

Idle == [pc |-> "idle", since |-> 0, until |-> 0, total |-> 0, ok |-> 0, errors |-> 0, byModel |-> << >>,
         count |-> 0, ranks |-> << >>, buckets |-> << >>]
NoImport == [doc |-> {}, imported |-> 0, duplicate |-> 0, rejected |-> 0]

RecordInit ==
  /\ clock = 1 /\ rows = {} /\ export = {} /\ rollup = Idle
  /\ past = [moved |-> FALSE, import |-> NoImport, calls |-> 0]

Called(p) == past.calls < MaxCalls /\ past' = [p EXCEPT !.calls = @ + 1, !.moved = rollup.pc # "idle" \/ @]

-----------------------------------------------------------------------------
\* RecordRequest replaces: a retry records the same request again.
RecordRequest(r) ==
  /\ rows' = {x \in rows : x.id # r.id} \cup {r} /\ Called(past) /\ UNCHANGED <<clock, export, rollup>>
Purge ==
  /\ \E r \in rows : r.ts + RollupMaxWindowMillis < clock
  /\ rows' = {r \in rows : r.ts + RollupMaxWindowMillis >= clock} /\ Called(past)
  /\ UNCHANGED <<clock, export, rollup>>
Later == clock < MaxClock /\ clock' = clock + 1 /\ UNCHANGED <<rows, export, rollup, past>>

\* clampRollupWindow
Since(since, until) == IF until - since > RollupMaxWindowMillis THEN until - RollupMaxWindowMillis ELSE since
Within(since, until) == {r \in rows : since <= r.ts /\ r.ts < until}

ExportRequests(since, until) ==
  /\ since < until /\ export' = Within(Since(since, until), until)
  /\ UNCHANGED <<clock, rows, rollup, past>>
\* ImportRequests: rows in the order of the document, the first of an id wins, a live row stays.
Valid(r) == r.ts > 0 /\ r.ts <= clock + Skew
ImportOver(doc) == FoldSeq(LAMBDA r, t : IF Valid(r) THEN {x \in t : x.id # r.id} \cup {r} ELSE t, rows, doc)
ImportInto(doc) ==
  FoldSeq(LAMBDA r, t : IF Valid(r) /\ \A x \in t : x.id # r.id THEN t \cup {r} ELSE t, rows, doc)
ImportRequests(doc) ==
  LET bad == SelectSeq(doc, LAMBDA r : ~Valid(r))
      new == Cardinality(ImportInto(doc)) - Cardinality(rows)
  IN /\ rows' = ImportInto(doc)
     /\ Called([past EXCEPT !.import = [doc |-> ToSet(doc), imported |-> new, rejected |-> Len(bad),
                                        duplicate |-> Len(doc) - Len(bad) - new]])
     /\ UNCHANGED <<clock, export, rollup>>
\* What was exported comes back in the order of its rows.
Restore == export # {} /\ ImportRequests(SetToSortSeq(export, LAMBDA a, b : a.ts < b.ts))

-----------------------------------------------------------------------------
(* RequestsRollup: one query after the other, with no transaction.         *)
Totals(since, until) ==
  LET s == Since(since, until)
      w == Within(s, until)
  IN /\ rollup.pc = "idle" /\ since < until
     /\ rollup' = [Idle EXCEPT !.pc = "groups", !.since = s, !.until = until, !.total = Cardinality(w),
                     !.ok = Cardinality({r \in w : r.status = "ok"}), !.errors = Cardinality({r \in w : r.status = "error"})]
     /\ past' = [past EXCEPT !.moved = FALSE] /\ UNCHANGED <<clock, rows, export>>
Asked == Within(rollup.since, rollup.until)
Groups ==
  /\ rollup.pc = "groups"
  /\ rollup' = [rollup EXCEPT !.pc = "ttfb",
       !.byModel = [m \in {r.model : r \in Asked} |->
          [total |-> Cardinality({r \in Asked : r.model = m}),
           errors |-> Cardinality({r \in Asked : r.model = m /\ r.status = "error"})]]]
  /\ UNCHANGED <<clock, rows, export, past>>
Reached == SetToSortSeq({r \in Asked : r.ttfb > 0}, LAMBDA a, b : a.ttfb < b.ttfb)
TtfbCount ==
  /\ rollup.pc = "ttfb"
  /\ rollup' = [rollup EXCEPT !.count = Len(Reached), !.pc = IF Reached = << >> THEN "buckets" ELSE "quantiles"]
  /\ UNCHANGED <<clock, rows, export, past>>
\* int64(q * float64(count - 1)), by the count read before: the row may be gone.
Offset(q) == (q * (rollup.count - 1)) \div 100
Quantile ==
  /\ rollup.pc = "quantiles"
  /\ LET q == <<50, 90, 99>>[Len(rollup.ranks) + 1] IN
     rollup' = IF Offset(q) + 1 > Len(Reached) THEN [rollup EXCEPT !.pc = "failed"]
               ELSE [rollup EXCEPT !.ranks = Append(@, Reached[Offset(q) + 1].ttfb), !.pc = IF q = 99 THEN "buckets" ELSE @]
  /\ UNCHANGED <<clock, rows, export, past>>
BucketOf(r) == (r.ts \div BucketMs) * BucketMs
BucketsOf(w) == [b \in {BucketOf(r) : r \in w} |-> Cardinality({r \in w : BucketOf(r) = b})]
BucketsThrough == BucketsOf({r \in rows : rollup.since <= r.ts /\ r.ts <= rollup.until})
BucketsAsked == BucketsOf(Asked)
Buckets ==
  /\ rollup.pc = "buckets" /\ rollup' = [rollup EXCEPT !.pc = "done", !.buckets = BucketsAsked]
  /\ UNCHANGED <<clock, rows, export, past>>
Answered == rollup.pc \in {"done", "failed"} /\ rollup' = Idle /\ UNCHANGED <<clock, rows, export, past>>

RecordNext ==
  \/ \E id \in Requests, o \in Outcomes :
       RecordRequest([id |-> id, ts |-> clock, model |-> o.model, status |-> o.status, ttfb |-> o.ttfb])
  \/ Purge \/ Later \/ Restore \/ \E doc \in Docs : ImportRequests(doc)
  \/ \E w \in Windows : ExportRequests(w[1], w[2]) \/ Totals(w[1], w[2])
  \/ Groups \/ TtfbCount \/ Quantile \/ Buckets \/ Answered
RecordSpec == RecordInit /\ [][RecordNext]_recordVars

-----------------------------------------------------------------------------
\* One row per request; an import leaves every live row as it was, adds what was missing,
\* and reports as imported what it added.
OneRowEach == \A r, s \in rows : r.id = s.id => r = s
ImportStep ==
  past'.import # past.import =>
    /\ rows \subseteq rows'
    /\ \A r \in past'.import.doc : Valid(r) => \E x \in rows' : x.id = r.id
    /\ Cardinality(rows' \ rows) = past'.import.imported
\* A rollup the table stood still for answers one and the same window in all its groups,
\* its percentiles in order, and only a purge or a replacement under it can fail it.
SumOver(f) == FoldSet(LAMBDA x, n : f[x] + n, 0, DOMAIN f)
RollupAgrees ==
  /\ rollup.pc = "done" /\ ~past.moved =>
       /\ rollup.total = rollup.ok + rollup.errors
       /\ rollup.total = SumOver([m \in DOMAIN rollup.byModel |-> rollup.byModel[m].total])
       /\ rollup.errors = SumOver([m \in DOMAIN rollup.byModel |-> rollup.byModel[m].errors])
       /\ rollup.total = SumOver(rollup.buckets)
       /\ rollup.count > 0 => rollup.ranks[1] <= rollup.ranks[2] /\ rollup.ranks[2] <= rollup.ranks[3]
  /\ rollup.pc = "failed" => past.moved
RecordsHold == [](OneRowEach /\ RollupAgrees) /\ [][ImportStep]_recordVars
=============================================================================
