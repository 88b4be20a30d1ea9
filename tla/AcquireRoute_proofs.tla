------------------------- MODULE AcquireRoute_proofs -------------------------
(***************************************************************************)
(* The slot ledger is sound for every number of requests, accounts and     *)
(* models: type correctness, the queue and permit bookkeeping of the walk, *)
(* conservation of slots, and the SLOTS_PER_ACCOUNT wall.                  *)
(***************************************************************************)
EXTENDS AcquireRoute, FiniteSetTheorems, SequenceTheorems, TLAPS

\* The inductive invariant.  SlotCap alone is not inductive: that a release
\* frees exactly one slot needs the counter to equal the permits
\* (SlotConservation), that a hand-off loses none needs the waiter to hold
\* none (QueueOwned), and that a take adds one needs the walker to hold none
\* (PermitMatchesTurn).
IInv == /\ TypeOK
        /\ ModelKnown
        /\ PermitMatchesTurn
        /\ QueueDistinct
        /\ QueueOwned
        /\ SlotConservation
        /\ SlotCap

-----------------------------------------------------------------------------
(* Sequences and sets.                                                      *)

\* Removing one element leaves a sequence of the others, in order.
LEMMA WithoutProperties ==
  ASSUME NEW S, NEW q \in Seq(S), NEW i \in 1..Len(q)
  PROVE  /\ Without(q, i) \in Seq(S)
         /\ Len(Without(q, i)) = Len(q) - 1
         /\ \A j \in 1..(Len(q) - 1) :
              Without(q, i)[j] = IF j < i THEN q[j] ELSE q[j + 1]
<1> DEFINE s == [j \in 1..(Len(q) - 1) |-> IF j < i THEN q[j] ELSE q[j + 1]]
<1>1. Len(q) \in Nat /\ DOMAIN q = 1..Len(q)
  BY LenProperties
<1>2. Len(q) - 1 \in Nat
  BY <1>1
<1>3. \A j \in 1..(Len(q) - 1) : (IF j < i THEN q[j] ELSE q[j + 1]) \in S
  BY <1>1, ElementOfSeq
<1>4. s \in Seq(S)
  <2>1. s \in [1..(Len(q) - 1) -> S]
    BY <1>3
  <2> QED
    BY <1>2, <2>1, SeqDef
<1>5. Len(s) = Len(q) - 1
  BY <1>2, <1>4, LenProperties
<1> QED
  BY <1>4, <1>5 DEF Without

\* The holders of a lane are a finite set.
LEMMA HoldersFinite ==
  ASSUME NEW e, NEW m
  PROVE  /\ IsFiniteSet(Holders(e, m))
         /\ Cardinality(Holders(e, m)) \in Nat
BY RouteAssumption, FS_Subset, FS_CardinalityType DEF Holders

-----------------------------------------------------------------------------
(* The ledger: each slot operation keeps the counters equal to the permits. *)

SlotInv == SlotConservation /\ SlotCap

\* slotTry adds one holder and one to the counter, below the cap.
LEMMA TakeSlotKeepsLedger ==
  ASSUME TypeOK, SlotInv,
         NEW r \in Requests, NEW e \in Entries, NEW i,
         permit[r] = NoEntry, model[r] \in Models, model' = model,
         TakeSlot(r, e, i)
  PROVE  SlotInv'
<1> USE RouteAssumption
<1> SUFFICES ASSUME NEW d \in Entries, NEW n \in Models
             PROVE  /\ live'[d][n] = Cardinality(Holders(d, n)')
                    /\ Cardinality(Holders(d, n)') <= Cap
  BY DEF SlotInv, SlotConservation, SlotCap
<1>1. CASE d = e /\ n = model[r]
  <2>1. Holders(d, n)' = Holders(d, n) \cup {r}
    BY <1>1 DEF TakeSlot, Holders, TypeOK, TurnTypeOK
  <2>2. r \notin Holders(d, n)
    BY DEF Holders
  <2>3. Cardinality(Holders(d, n)') = Cardinality(Holders(d, n)) + 1
    BY <2>1, <2>2, HoldersFinite, FS_AddElement
  <2>4. live'[d][n] = live[d][n] + 1 /\ live[d][n] < Cap
    BY <1>1 DEF TakeSlot, TypeOK, TurnTypeOK
  <2> QED
    BY <2>3, <2>4, HoldersFinite DEF SlotInv, SlotConservation
<1>2. CASE ~(d = e /\ n = model[r])
  <2>1. Holders(d, n)' = Holders(d, n)
    BY <1>2 DEF TakeSlot, Holders, TypeOK, TurnTypeOK
  <2>2. live'[d][n] = live[d][n]
    BY <1>2 DEF TakeSlot, TypeOK, TurnTypeOK
  <2> QED
    BY <2>1, <2>2 DEF SlotInv, SlotConservation, SlotCap
<1> QED
  BY <1>1, <1>2

\* slotPermit.Release either lowers the counter with the holders, or swaps one
\* holder for another.
LEMMA ReleaseSlotKeepsLedger ==
  ASSUME TypeOK, QueueOwned, SlotInv,
         NEW r \in Requests, permit[r] \in Entries, model[r] \in Models,
         \A x \in Requests \ {r} : model'[x] = model[x],
         ReleaseSlot(r)
  PROVE  SlotInv'
<1> USE RouteAssumption
<1> DEFINE e == permit[r]
           m == model[r]
           q == queue[m]
<1>0. q \in Seq(Requests) /\ Len(q) \in Nat /\ DOMAIN q = 1..Len(q)
  BY LenProperties DEF TypeOK, TurnTypeOK
<1>1. PICK i \in 1..(Len(q) + 1) :
        \/ i <= Len(q) /\ HandOff(r, q[i], e)
        \/ /\ live' = [live EXCEPT ![e][m] = IF @ > 0 THEN @ - 1 ELSE 0]
           /\ permit' = [permit EXCEPT ![r] = NoEntry]
  BY DEF ReleaseSlot
<1> SUFFICES ASSUME NEW d \in Entries, NEW n \in Models
             PROVE  /\ live'[d][n] = Cardinality(Holders(d, n)')
                    /\ Cardinality(Holders(d, n)') <= Cap
  BY DEF SlotInv, SlotConservation, SlotCap
<1>2. CASE i <= Len(q) /\ HandOff(r, q[i], e)
  <2> DEFINE w == q[i]
  <2>1. i \in DOMAIN q
    BY <1>0, <1>2
  <2>2. w \in Requests /\ permit[w] = NoEntry /\ model[w] = m /\ w # r
    BY <1>0, <2>1 DEF QueueOwned
  <2>3. permit' = [permit EXCEPT ![r] = NoEntry, ![w] = e] /\ live' = live
    BY <1>2 DEF HandOff
  <2>4. permit \in [Requests -> Entries \cup {NoEntry}]
    BY DEF TypeOK, TurnTypeOK
  <2>5. /\ permit'[r] = NoEntry
        /\ permit'[w] = e
        /\ \A x \in Requests \ {r, w} : permit'[x] = permit[x]
    BY <2>2, <2>3, <2>4
  <2>6. model'[w] = model[w]
    BY <2>2
  <2>7. CASE d = e /\ n = m
    <3>1. Holders(d, n)' = (Holders(d, n) \ {r}) \cup {w}
      BY <2>2, <2>5, <2>6, <2>7 DEF Holders
    <3>2. r \in Holders(d, n) /\ w \notin Holders(d, n)
      BY <2>2, <2>7 DEF Holders
    <3>3. /\ IsFiniteSet(Holders(d, n) \ {r})
          /\ Cardinality(Holders(d, n) \ {r}) = Cardinality(Holders(d, n)) - 1
      BY <3>2, HoldersFinite, FS_RemoveElement
    <3>4. Cardinality(Holders(d, n)') = (Cardinality(Holders(d, n)) - 1) + 1
      BY ZenonT(60), <3>1, <3>2, <3>3, FS_AddElement
    <3>5. Cardinality(Holders(d, n)') = Cardinality(Holders(d, n))
      BY <3>4, HoldersFinite
    <3> QED
      BY <2>3, <3>5 DEF SlotInv, SlotConservation, SlotCap
  <2>8. CASE ~(d = e /\ n = m)
    <3>1. Holders(d, n)' = Holders(d, n)
      BY <2>2, <2>5, <2>6, <2>8 DEF Holders
    <3> QED
      BY <2>3, <3>1 DEF SlotInv, SlotConservation, SlotCap
  <2> QED
    BY <2>7, <2>8
<1>3. CASE /\ live' = [live EXCEPT ![e][m] = IF @ > 0 THEN @ - 1 ELSE 0]
           /\ permit' = [permit EXCEPT ![r] = NoEntry]
  <2>1. /\ permit'[r] = NoEntry
        /\ \A x \in Requests \ {r} : permit'[x] = permit[x]
    BY <1>3 DEF TypeOK, TurnTypeOK
  <2>2. CASE d = e /\ n = m
    <3>1. Holders(d, n)' = Holders(d, n) \ {r}
      BY <2>1, <2>2 DEF Holders
    <3>2. r \in Holders(d, n)
      BY <2>2 DEF Holders
    <3>3. /\ Cardinality(Holders(d, n)') = Cardinality(Holders(d, n)) - 1
          /\ Cardinality(Holders(d, n)') \in Nat
      BY <3>1, <3>2, HoldersFinite, FS_RemoveElement, FS_CardinalityType
    <3>4. live[d][n] = Cardinality(Holders(d, n)) /\ Cardinality(Holders(d, n)) <= Cap
      BY DEF SlotInv, SlotConservation, SlotCap
    <3>5. live'[d][n] = IF live[d][n] > 0 THEN live[d][n] - 1 ELSE 0
      BY <1>3, <2>2 DEF TypeOK, TurnTypeOK
    <3> QED
      BY <3>3, <3>4, <3>5, HoldersFinite
  <2>3. CASE ~(d = e /\ n = m)
    <3>1. Holders(d, n)' = Holders(d, n)
      BY <2>1, <2>3 DEF Holders
    <3>2. live'[d][n] = live[d][n]
      BY <1>3, <2>3 DEF TypeOK, TurnTypeOK
    <3> QED
      BY <3>1, <3>2 DEF SlotInv, SlotConservation, SlotCap
  <2> QED
    BY <2>2, <2>3
<1> QED
  BY <1>1, <1>2, <1>3

\* A step that takes and releases nothing keeps the ledger, as long as only
\* requests without a permit change their model.
LEMMA KeepSlotsKeepsLedger ==
  ASSUME SlotInv, live' = live, permit' = permit,
         \A x \in Requests : permit[x] \in Entries => model'[x] = model[x]
  PROVE  SlotInv'
<1>1. ASSUME NEW d \in Entries, NEW n \in Models
      PROVE  Holders(d, n)' = Holders(d, n)
  BY DEF Holders
<1> QED
  BY <1>1 DEF SlotInv, SlotConservation, SlotCap

-----------------------------------------------------------------------------
(* The queues: what each operation does to types, permits and queue places. *)

\* Everybody in a queue other than r is parked there without a grant, in the
\* state before the step: what a step of r has to leave of the queues.
OthersQueued(r) ==
  \A m \in Models : \A i \in DOMAIN queue'[m] :
    LET w == queue'[m][i]
    IN w \in Requests \ {r} /\ Parked(w) /\ model[w] = m /\ permit'[w] = NoEntry

SlotTypes == /\ live \in [Entries -> [Models -> Nat]]
             /\ queue \in [Models -> Seq(Requests)]
             /\ permit \in [Requests -> Entries \cup {NoEntry}]
             /\ lane \in [Requests -> Nat]

\* A request with a permit, or one that is not parked, waits in no queue.
LEMMA NotQueued ==
  ASSUME QueueOwned, NEW r \in Requests, permit[r] # NoEntry \/ ~Parked(r)
  PROVE  \A m \in Models : \A i \in DOMAIN queue[m] : queue[m][i] # r
BY DEF QueueOwned

\* A step that leaves the slots alone, of a request outside the queues.
LEMMA KeepSlotsEffect ==
  ASSUME TypeOK, QueueOwned, QueueDistinct, NEW r \in Requests,
         permit[r] # NoEntry \/ ~Parked(r), UNCHANGED slotVars
  PROVE  SlotTypes' /\ QueueDistinct' /\ OthersQueued(r)
<1>1. \A m \in Models : queue[m] \in Seq(Requests) /\ DOMAIN queue[m] = 1..Len(queue[m])
  BY LenProperties DEF TypeOK, TurnTypeOK
<1>2. \A m \in Models : \A i \in DOMAIN queue[m] : queue[m][i] \in Requests
  BY <1>1, ElementOfSeq
<1>3. OthersQueued(r)
  BY <1>2, NotQueued DEF OthersQueued, QueueOwned, slotVars
<1> QED
  BY <1>3 DEF SlotTypes, QueueDistinct, TypeOK, TurnTypeOK, slotVars

\* slotTry by a request outside the queues.
LEMMA TakeSlotEffect ==
  ASSUME TypeOK, QueueOwned, QueueDistinct,
         NEW r \in Requests, NEW e \in Entries, NEW i \in Nat,
         model[r] \in Models, ~Parked(r), TakeSlot(r, e, i)
  PROVE  /\ SlotTypes' /\ QueueDistinct' /\ OthersQueued(r)
         /\ permit' = [permit EXCEPT ![r] = e]
<1>1. \A m \in Models : queue[m] \in Seq(Requests) /\ DOMAIN queue[m] = 1..Len(queue[m])
  BY LenProperties DEF TypeOK, TurnTypeOK
<1>2. \A m \in Models : \A j \in DOMAIN queue[m] : queue[m][j] \in Requests \ {r}
  BY <1>1, ElementOfSeq, NotQueued
<1>3. queue' = queue /\ permit' = [permit EXCEPT ![r] = e]
  BY DEF TakeSlot
<1>4. \A x \in Requests \ {r} : permit'[x] = permit[x]
  BY <1>3 DEF TypeOK, TurnTypeOK
<1>5. OthersQueued(r)
  BY <1>2, <1>3, <1>4 DEF OthersQueued, QueueOwned
<1>6. SlotTypes'
  BY DEF SlotTypes, TakeSlot, TypeOK, TurnTypeOK
<1> QED
  BY <1>3, <1>5, <1>6 DEF QueueDistinct

\* The end of a queue from the k-th place on.
LEMMA QueueTail ==
  ASSUME NEW q \in Seq(Requests), NEW k \in 1..(Len(q) + 1)
  PROVE  /\ SubSeq(q, k, Len(q)) \in Seq(Requests)
         /\ DOMAIN SubSeq(q, k, Len(q)) = 1..((Len(q) - k) + 1)
         /\ \A j \in 1..((Len(q) - k) + 1) :
              /\ SubSeq(q, k, Len(q))[j] = q[(k + j) - 1]
              /\ (k + j) - 1 \in DOMAIN q
<1>1. Len(q) \in Nat /\ DOMAIN q = 1..Len(q)
  BY LenProperties
<1>2. k \in 1..(Len(q) + 1) /\ Len(q) \in (k - 1)..Len(q)
  BY <1>1
<1>3. /\ SubSeq(q, k, Len(q)) \in Seq(Requests)
      /\ Len(SubSeq(q, k, Len(q))) = (Len(q) - k) + 1
      /\ \A j \in 1..((Len(q) - k) + 1) : SubSeq(q, k, Len(q))[j] = q[(k + j) - 1]
  BY <1>1, <1>2, SubSeqProperties
<1>4. DOMAIN SubSeq(q, k, Len(q)) = 1..((Len(q) - k) + 1)
  BY <1>3, LenProperties
<1> QED
  BY <1>1, <1>3, <1>4

\* A new queue for one model, made of places of the old one without repeats and
\* without r: enough for every queue.
LEMMA OneQueueShrinks ==
  ASSUME TypeOK, QueueOwned, QueueDistinct,
         NEW r \in Requests, NEW m \in Models, NEW s \in Seq(Requests),
         queue' = [queue EXCEPT ![m] = s],
         \A j, k \in DOMAIN s : j # k => s[j] # s[k],
         \A j \in DOMAIN s : /\ \E k \in DOMAIN queue[m] : queue[m][k] = s[j]
                              /\ s[j] # r
                              /\ permit'[s[j]] = NoEntry,
         \A n \in Models \ {m} : \A j \in DOMAIN queue[n] :
            queue[n][j] # r /\ permit'[queue[n][j]] = NoEntry
  PROVE  QueueDistinct' /\ OthersQueued(r)
<1>1. queue'[m] = s /\ \A n \in Models \ {m} : queue'[n] = queue[n]
  BY DEF TypeOK, TurnTypeOK
<1>2. \A n \in Models : \A j \in DOMAIN queue[n] : queue[n][j] \in Requests
  <2>1. \A n \in Models : queue[n] \in Seq(Requests) /\ DOMAIN queue[n] = 1..Len(queue[n])
    BY LenProperties DEF TypeOK, TurnTypeOK
  <2> QED
    BY <2>1, ElementOfSeq
<1>3. ASSUME NEW n \in Models, NEW i \in DOMAIN queue'[n], NEW j \in DOMAIN queue'[n], i # j
      PROVE  queue'[n][i] # queue'[n][j]
  <2>1. CASE n = m
    BY <1>1, <1>3, <2>1 DEF QueueDistinct
  <2>2. CASE n # m
    BY <1>1, <1>3, <2>2 DEF QueueDistinct
  <2> QED
    BY <2>1, <2>2
<1>4. ASSUME NEW n \in Models, NEW i \in DOMAIN queue'[n]
      PROVE  LET w == queue'[n][i]
             IN w \in Requests \ {r} /\ Parked(w) /\ model[w] = n /\ permit'[w] = NoEntry
  <2>1. CASE n = m
    BY <1>1, <1>2, <2>1 DEF QueueOwned
  <2>2. CASE n # m
    BY <1>1, <1>2, <2>2 DEF QueueOwned
  <2> QED
    BY <2>1, <2>2
<1> QED
  BY <1>3, <1>4 DEF QueueDistinct, OthersQueued

\* slotPermit.Release: the queue loses its head up to the waiter that is
\* served, who leaves it with the permit.
LEMMA ReleaseSlotEffect ==
  ASSUME TypeOK, QueueOwned, QueueDistinct,
         NEW r \in Requests, permit[r] \in Entries, model[r] \in Models,
         ReleaseSlot(r)
  PROVE  /\ SlotTypes' /\ QueueDistinct' /\ OthersQueued(r)
         /\ permit'[r] = NoEntry
         /\ \A x \in Requests \ {r} : permit'[x] = permit[x] \/ Parked(x)
<1> USE RouteAssumption
<1> DEFINE e == permit[r]
           m == model[r]
           q == queue[m]
<1>0. q \in Seq(Requests) /\ Len(q) \in Nat /\ DOMAIN q = 1..Len(q)
  BY LenProperties DEF TypeOK, TurnTypeOK
<1>1. PICK i \in 1..(Len(q) + 1) :
        \/ /\ i <= Len(q)
           /\ HandOff(r, q[i], e)
           /\ queue' = [queue EXCEPT ![m] = SubSeq(q, i + 1, Len(q))]
        \/ /\ live' = [live EXCEPT ![e][m] = IF @ > 0 THEN @ - 1 ELSE 0]
           /\ permit' = [permit EXCEPT ![r] = NoEntry]
           /\ lane' = [lane EXCEPT ![r] = 0]
           /\ queue' = [queue EXCEPT ![m] = SubSeq(q, i, Len(q))]
  BY DEF ReleaseSlot
<1>2. \A n \in Models : /\ queue[n] \in Seq(Requests)
                        /\ DOMAIN queue[n] = 1..Len(queue[n])
                        /\ \A j \in DOMAIN queue[n] : queue[n][j] \in Requests \ {r}
  <2>1. \A n \in Models : queue[n] \in Seq(Requests) /\ DOMAIN queue[n] = 1..Len(queue[n])
    BY LenProperties DEF TypeOK, TurnTypeOK
  <2> QED
    BY <2>1, ElementOfSeq, NotQueued
<1>3. CASE /\ i <= Len(q)
           /\ HandOff(r, q[i], e)
           /\ queue' = [queue EXCEPT ![m] = SubSeq(q, i + 1, Len(q))]
  <2> DEFINE w == q[i]
             s == SubSeq(q, i + 1, Len(q))
  <2>1. i \in DOMAIN q /\ i + 1 \in 1..(Len(q) + 1)
    BY <1>0, <1>3
  <2>2. w \in Requests \ {r} /\ permit[w] = NoEntry /\ Parked(w)
    BY <1>2, <2>1 DEF QueueOwned
  <2>3. permit' = [permit EXCEPT ![r] = NoEntry, ![w] = e] /\ live' = live
    BY <1>3 DEF HandOff
  <2>4. /\ permit'[r] = NoEntry
        /\ \A x \in Requests \ {r, w} : permit'[x] = permit[x]
        /\ permit' \in [Requests -> Entries \cup {NoEntry}]
    BY <2>2, <2>3 DEF TypeOK, TurnTypeOK
  <2>5. lane' \in [Requests -> Nat]
    <3>1. PICK k \in DOMAIN roster : lane' = [lane EXCEPT ![r] = 0, ![w] = k]
      BY <1>3 DEF HandOff
    <3>2. k \in Nat
      BY LenProperties DEF TypeOK, PoolTypeOK
    <3> QED
      BY <3>1, <3>2 DEF TypeOK, TurnTypeOK
  <2>6. /\ s \in Seq(Requests)
        /\ DOMAIN s = 1..((Len(q) - (i + 1)) + 1)
        /\ \A j \in DOMAIN s : s[j] = q[((i + 1) + j) - 1] /\ ((i + 1) + j) - 1 \in DOMAIN q
    BY <1>0, <2>1, QueueTail
  <2>7. \A j \in DOMAIN s : s[j] = q[i + j] /\ i + j \in DOMAIN q /\ j \in Nat /\ j # 0
    BY SMTT(30), <1>0, <2>6
  <2>8. queue'[m] = s /\ \A n \in Models \ {m} : queue'[n] = queue[n]
    BY <1>3 DEF TypeOK, TurnTypeOK
  <2>9. SlotTypes'
    BY <1>3, <2>3, <2>4, <2>5, <2>6 DEF SlotTypes, TypeOK, TurnTypeOK
  <2>10. QueueDistinct' /\ OthersQueued(r)
    <3>1. \A j \in DOMAIN s : i + j # i
      BY <1>0, <2>7
    <3>2. \A j, k \in DOMAIN s : j # k => i + j # i + k
      BY <1>0, <2>7
    <3>3. \A j, k \in DOMAIN s : j # k => s[j] # s[k]
      BY <2>7, <3>2 DEF QueueDistinct
    <3>4. \A j \in DOMAIN s : s[j] \in Requests \ {r, w} /\ permit[s[j]] = NoEntry
      <4>1. \A j \in DOMAIN s : s[j] # w
        BY <2>1, <2>7, <3>1 DEF QueueDistinct
      <4>2. \A j \in DOMAIN s : s[j] \in Requests \ {r}
        BY <1>2, <2>7
      <4>3. \A j \in DOMAIN s : permit[s[j]] = NoEntry
        BY <2>7 DEF QueueOwned
      <4> QED
        BY <4>1, <4>2, <4>3
    <3>5. \A j \in DOMAIN s : /\ \E k \in DOMAIN q : q[k] = s[j]
                               /\ s[j] # r
                               /\ permit'[s[j]] = NoEntry
      BY <2>4, <2>7, <3>4
    <3>6. \A n \in Models \ {m} : \A j \in DOMAIN queue[n] :
            queue[n][j] # r /\ permit'[queue[n][j]] = NoEntry
      <4>1. \A n \in Models \ {m} : \A j \in DOMAIN queue[n] : queue[n][j] # w
        BY <2>1 DEF QueueOwned
      <4> QED
        BY <1>2, <2>4, <4>1 DEF QueueOwned
    <3> QED
      BY <1>3, <2>6, <3>3, <3>5, <3>6, OneQueueShrinks
  <2> QED
    BY <2>2, <2>4, <2>9, <2>10
<1>4. CASE /\ live' = [live EXCEPT ![e][m] = IF @ > 0 THEN @ - 1 ELSE 0]
           /\ permit' = [permit EXCEPT ![r] = NoEntry]
           /\ lane' = [lane EXCEPT ![r] = 0]
           /\ queue' = [queue EXCEPT ![m] = SubSeq(q, i, Len(q))]
  <2> DEFINE s == SubSeq(q, i, Len(q))
  <2>1. /\ s \in Seq(Requests)
        /\ \A j \in DOMAIN s : s[j] = q[(i + j) - 1] /\ (i + j) - 1 \in DOMAIN q /\ j \in Nat
    BY <1>0, QueueTail
  <2>2. queue'[m] = s /\ \A n \in Models \ {m} : queue'[n] = queue[n]
    BY <1>4 DEF TypeOK, TurnTypeOK
  <2>3. /\ permit'[r] = NoEntry
        /\ \A x \in Requests \ {r} : permit'[x] = permit[x]
    BY <1>4 DEF TypeOK, TurnTypeOK
  <2>4. live' \in [Entries -> [Models -> Nat]]
    <3>1. live[e][m] \in Nat
      BY DEF TypeOK, TurnTypeOK
    <3>2. (IF live[e][m] > 0 THEN live[e][m] - 1 ELSE 0) \in Nat
      BY <3>1
    <3> QED
      BY <1>4, <3>2 DEF TypeOK, TurnTypeOK
  <2>5. SlotTypes'
    BY <1>4, <2>1, <2>4 DEF SlotTypes, TypeOK, TurnTypeOK
  <2>6. QueueDistinct' /\ OthersQueued(r)
    <3>1. \A j, k \in DOMAIN s : j # k => (i + j) - 1 # (i + k) - 1
      BY <1>0, <2>1
    <3>2. \A j, k \in DOMAIN s : j # k => s[j] # s[k]
      BY <2>1, <3>1 DEF QueueDistinct
    <3>3. \A j \in DOMAIN s : s[j] \in Requests \ {r} /\ permit[s[j]] = NoEntry
      BY <1>2, <2>1 DEF QueueOwned
    <3>4. \A j \in DOMAIN s : /\ \E k \in DOMAIN q : q[k] = s[j]
                               /\ s[j] # r
                               /\ permit'[s[j]] = NoEntry
      BY <2>1, <2>3, <3>3
    <3>5. \A n \in Models \ {m} : \A j \in DOMAIN queue[n] :
            queue[n][j] # r /\ permit'[queue[n][j]] = NoEntry
      BY <1>2, <2>3 DEF QueueOwned
    <3> QED
      BY ZenonT(60), <1>4, <2>1, <3>2, <3>4, <3>5, OneQueueShrinks
  <2> QED
    BY <2>3, <2>5, <2>6
<1> QED
  BY <1>1, <1>3, <1>4

\* removeModelWaiterLocked: r is in no queue afterwards.
LEMMA DequeueEffect ==
  ASSUME TypeOK, QueueOwned, QueueDistinct,
         NEW r \in Requests, model[r] \in Models, Dequeue(r)
  PROVE  SlotTypes' /\ QueueDistinct' /\ OthersQueued(r)
<1> DEFINE m == model[r]
           q == queue[m]
<1>1. \A n \in Models : /\ queue[n] \in Seq(Requests)
                        /\ Len(queue[n]) \in Nat
                        /\ DOMAIN queue[n] = 1..Len(queue[n])
  BY LenProperties DEF TypeOK, TurnTypeOK
<1>2. \A n \in Models : \A j \in DOMAIN queue[n] :
        queue[n][j] \in Requests /\ (n # m => queue[n][j] # r)
  BY <1>1, ElementOfSeq DEF QueueOwned
<1>3. live' = live /\ permit' = permit /\ lane' = lane
  BY DEF Dequeue
<1>4. CASE \A j \in DOMAIN q : q[j] # r
  <2>1. queue' = queue
    BY <1>4 DEF Dequeue
  <2> QED
    BY <1>2, <1>3, <1>4, <2>1
    DEF SlotTypes, QueueDistinct, OthersQueued, QueueOwned, TypeOK, TurnTypeOK
<1>5. ASSUME NEW i \in DOMAIN q, q[i] = r, queue' = [queue EXCEPT ![m] = Without(@, i)]
      PROVE  SlotTypes' /\ QueueDistinct' /\ OthersQueued(r)
  <2> DEFINE s == Without(q, i)
  <2>1. /\ s \in Seq(Requests)
        /\ Len(s) = Len(q) - 1
        /\ \A j \in 1..(Len(q) - 1) : s[j] = IF j < i THEN q[j] ELSE q[j + 1]
    BY <1>1, WithoutProperties
  <2>2. DOMAIN s = 1..(Len(q) - 1) /\ i \in 1..Len(q)
    BY <1>1, <2>1, LenProperties
  <2>3. SlotTypes'
    BY <1>3, <1>5, <2>1 DEF SlotTypes, TypeOK, TurnTypeOK
  <2>4. QueueDistinct' /\ OthersQueued(r)
    <3> DEFINE at(j) == IF j < i THEN j ELSE j + 1
    <3>1. \A j \in DOMAIN s : at(j) \in DOMAIN q /\ at(j) # i
      BY <1>1, <2>2
    <3>2. \A j, k \in DOMAIN s : j # k => at(j) # at(k)
      BY <1>1, <2>2
    <3>3. \A j \in DOMAIN s : s[j] = q[at(j)]
      BY <2>1, <2>2
    <3> HIDE DEF at
    <3>4. \A j, k \in DOMAIN s : j # k => s[j] # s[k]
      BY <3>1, <3>2, <3>3 DEF QueueDistinct
    <3>5. \A j \in DOMAIN s : /\ \E k \in DOMAIN q : q[k] = s[j]
                               /\ s[j] # r
                               /\ permit'[s[j]] = NoEntry
      BY <1>3, <1>5, <3>1, <3>3 DEF QueueDistinct, QueueOwned
    <3>6. \A n \in Models \ {m} : \A j \in DOMAIN queue[n] :
            queue[n][j] # r /\ permit'[queue[n][j]] = NoEntry
      BY <1>2, <1>3 DEF QueueOwned
    <3> QED
      BY <1>5, <2>1, <3>4, <3>5, <3>6, OneQueueShrinks
  <2> QED
    BY <2>3, <2>4
<1> QED
  BY <1>4, <1>5 DEF Dequeue

-----------------------------------------------------------------------------
(* One request moves: from its place in the walk to another one.            *)

TurnInv == /\ TurnTypeOK
           /\ ModelKnown
           /\ PermitMatchesTurn
           /\ QueueDistinct
           /\ QueueOwned
           /\ SlotInv

\* The request r moves to the place s with the walk state w and the model n.
Move(r, s, w, n) == /\ pc' = [pc EXCEPT ![r] = s]
                    /\ ws' = [ws EXCEPT ![r] = w]
                    /\ model' = [model EXCEPT ![r] = n]
                    /\ ctxDead' \in [Requests -> BOOLEAN]

MoveTyped(s, w, n) == /\ s \in PCs
                      /\ w \in WalkStates
                      /\ n \in Models \cup {NoModel}
                      /\ s = "idle" \/ n \in Models

\* What PermitMatchesTurn says of one request at s with permit p.
PermitFits(s, tok, p) ==
  /\ s \in {"idle", "scan", "walk", "full", "rescan", "refull"} => p = NoEntry
  /\ s \in {"admit", "session", "run", "leased", "next", "fail", "jail"} =>
       p = tok /\ p # NoEntry
  /\ s \in {"retry", "back"} => p # NoEntry

\* The parts of the invariant a move puts together again.
LEMMA MoveKeeps ==
  ASSUME IInv, NEW r \in Requests, NEW s, NEW w, NEW n,
         MoveTyped(s, w, n), Move(r, s, w, n),
         SlotTypes', QueueDistinct', OthersQueued(r), SlotInv',
         PermitFits(s, w.tok, permit'[r]),
         \A x \in Requests \ {r} : permit'[x] = permit[x] \/ Parked(x)
  PROVE  TurnInv'
<1>1. /\ pc'[r] = s /\ ws'[r] = w /\ model'[r] = n
      /\ \A x \in Requests \ {r} : pc'[x] = pc[x] /\ ws'[x] = ws[x] /\ model'[x] = model[x]
  BY DEF Move, IInv, TypeOK, TurnTypeOK
<1>2. TurnTypeOK'
  BY DEF Move, MoveTyped, SlotTypes, IInv, TypeOK, TurnTypeOK
<1>3. ModelKnown'
  BY <1>1 DEF ModelKnown, MoveTyped, IInv
<1>4. PermitMatchesTurn'
  <2>1. ASSUME NEW x \in Requests \ {r}, permit'[x] = permit[x]
        PROVE  PermitFits(pc'[x], ws'[x].tok, permit'[x])
    BY <1>1, <2>1 DEF PermitFits, PermitMatchesTurn, IInv
  <2>2. ASSUME NEW x \in Requests \ {r}, Parked(x)
        PROVE  PermitFits(pc'[x], ws'[x].tok, permit'[x])
    BY <1>1, <2>2 DEF PermitFits, Parked
  <2>3. PermitFits(pc'[r], ws'[r].tok, permit'[r])
    BY <1>1
  <2>4. \A x \in Requests : PermitFits(pc'[x], ws'[x].tok, permit'[x])
    BY <2>1, <2>2, <2>3
  <2> QED
    BY <2>4 DEF PermitMatchesTurn, PermitFits
<1>5. QueueOwned'
  BY <1>1 DEF OthersQueued, QueueOwned, Parked
<1> QED
  BY <1>2, <1>3, <1>4, <1>5 DEF TurnInv

LEMMA KeepStep ==
  ASSUME IInv, NEW r \in Requests, NEW s, NEW w, NEW n,
         MoveTyped(s, w, n), Move(r, s, w, n),
         permit[r] # NoEntry \/ ~Parked(r),
         UNCHANGED slotVars,
         PermitFits(s, w.tok, permit[r]),
         permit[r] = NoEntry \/ n = model[r]
  PROVE  TurnInv'
<1>1. SlotTypes' /\ QueueDistinct' /\ OthersQueued(r)
  BY KeepSlotsEffect DEF IInv
<1>2. \A x \in Requests : permit[x] \in Entries => model'[x] = model[x]
  BY RouteAssumption DEF Move, IInv, TypeOK, TurnTypeOK
<1>3. SlotInv'
  BY <1>2, KeepSlotsKeepsLedger DEF slotVars, IInv, SlotInv
<1> QED
  BY <1>1, <1>3, MoveKeeps DEF slotVars

LEMMA TakeStep ==
  ASSUME IInv, NEW r \in Requests, NEW s, NEW w,
         NEW e \in Entries, NEW i \in Nat,
         MoveTyped(s, w, model[r]), Move(r, s, w, model[r]),
         permit[r] = NoEntry, ~Parked(r), model[r] \in Models,
         TakeSlot(r, e, i),
         PermitFits(s, w.tok, e)
  PROVE  TurnInv'
<1>1. /\ SlotTypes' /\ QueueDistinct' /\ OthersQueued(r)
      /\ permit' = [permit EXCEPT ![r] = e]
  BY TakeSlotEffect DEF IInv
<1>2. model' = model
  BY DEF Move, IInv, TypeOK, TurnTypeOK
<1>3. SlotInv'
  BY <1>2, TakeSlotKeepsLedger DEF IInv, SlotInv
<1>4. permit'[r] = e /\ \A x \in Requests \ {r} : permit'[x] = permit[x]
  BY <1>1 DEF IInv, TypeOK, TurnTypeOK
<1> QED
  BY <1>1, <1>3, <1>4, MoveKeeps

LEMMA ReleaseStep ==
  ASSUME IInv, NEW r \in Requests, NEW s, NEW w, NEW n,
         MoveTyped(s, w, n), Move(r, s, w, n),
         permit[r] # NoEntry, model[r] \in Models,
         ReleaseSlot(r),
         PermitFits(s, w.tok, NoEntry)
  PROVE  TurnInv'
<1>1. permit[r] \in Entries
  BY DEF IInv, TypeOK, TurnTypeOK
<1>2. /\ SlotTypes' /\ QueueDistinct' /\ OthersQueued(r)
      /\ permit'[r] = NoEntry
      /\ \A x \in Requests \ {r} : permit'[x] = permit[x] \/ Parked(x)
  BY <1>1, ReleaseSlotEffect DEF IInv
<1>3. \A x \in Requests \ {r} : model'[x] = model[x]
  BY DEF Move, IInv, TypeOK, TurnTypeOK
<1>4. SlotInv'
  BY <1>1, <1>3, ReleaseSlotKeepsLedger DEF IInv, SlotInv
<1> QED
  BY <1>2, <1>4, MoveKeeps

LEMMA DequeueStep ==
  ASSUME IInv, NEW r \in Requests, NEW s, NEW w, NEW n,
         MoveTyped(s, w, n), Move(r, s, w, n),
         permit[r] = NoEntry, model[r] \in Models,
         Dequeue(r),
         PermitFits(s, w.tok, NoEntry)
  PROVE  TurnInv'
<1>1. SlotTypes' /\ QueueDistinct' /\ OthersQueued(r)
  BY DequeueEffect DEF IInv
<1>2. live' = live /\ permit' = permit
  BY DEF Dequeue
<1>3. \A x \in Requests : permit[x] \in Entries => model'[x] = model[x]
  BY RouteAssumption DEF Move, IInv, TypeOK, TurnTypeOK
<1>4. SlotInv'
  BY <1>2, <1>3, KeepSlotsKeepsLedger DEF IInv, SlotInv
<1> QED
  BY <1>1, <1>2, <1>4, MoveKeeps

-----------------------------------------------------------------------------
(* The helpers of the model are moves.                                      *)

LEMMA GotoMoves ==
  ASSUME TypeOK, NEW r \in Requests, NEW s, NEW w, Goto(r, s, w)
  PROVE  Move(r, s, w, model[r])
BY DEF Goto, Move, TypeOK, TurnTypeOK

LEMMA ReturnMoves ==
  ASSUME TypeOK, NEW r \in Requests, Return(r)
  PROVE  Move(r, "idle", NoWalk, NoModel) /\ MoveTyped("idle", NoWalk, NoModel)
<1>1. <<>> \in Seq(Entries)
  BY EmptySeq
<1> QED
  BY <1>1 DEF Return, Move, MoveTyped, NoWalk, WalkStates, PCs, TypeOK, TurnTypeOK

\* The updates the walk makes to its state are walk states.
LEMMA WalkUpdates ==
  ASSUME NEW w \in WalkStates
  PROVE  /\ [w EXCEPT !.pos = @ + 1, !.tok = NoEntry] \in WalkStates
         /\ [w EXCEPT !.tok = NoEntry] \in WalkStates
         /\ [w EXCEPT !.cur = 0, !.tok = NoEntry] \in WalkStates
         /\ [w EXCEPT !.cur = @ + 1] \in WalkStates
         /\ [w EXCEPT !.cur = 0] \in WalkStates
         /\ [w EXCEPT !.cur = 1] \in WalkStates
         /\ [w EXCEPT !.park = FALSE] \in WalkStates
         /\ [w EXCEPT !.paid = IF @ < PaidTop THEN @ + 1 ELSE @] \in WalkStates
         /\ Noted(w) \in WalkStates
         /\ \A p \in Nat : [w EXCEPT !.pos = p, !.park = TRUE] \in WalkStates
         /\ \A e \in Entries, p \in Nat, b \in BOOLEAN :
              [w EXCEPT !.tok = e, !.cur = 0, !.park = b, !.pos = p] \in WalkStates
<1>1. /\ [w EXCEPT !.tok = NoEntry] \in WalkStates
      /\ [w EXCEPT !.cur = 0, !.tok = NoEntry] \in WalkStates
      /\ [w EXCEPT !.cur = 0] \in WalkStates
      /\ [w EXCEPT !.cur = 1] \in WalkStates
      /\ [w EXCEPT !.park = FALSE] \in WalkStates
  BY DEF WalkStates
<1>2. \A k \in Nat : k + 1 \in Nat
  OBVIOUS
<1>3. w.pos \in Nat /\ w.cur \in Nat /\ w.hops \in Nat /\ w.paid \in Nat
  BY DEF WalkStates
<1>4. [w EXCEPT !.pos = @ + 1, !.tok = NoEntry] \in WalkStates
  BY <1>2, <1>3 DEF WalkStates
<1>5. [w EXCEPT !.cur = @ + 1] \in WalkStates
  BY <1>2, <1>3 DEF WalkStates
<1>6. [w EXCEPT !.paid = IF @ < PaidTop THEN @ + 1 ELSE @] \in WalkStates
  BY <1>2, <1>3 DEF WalkStates
<1>7. Noted(w) \in WalkStates
  BY <1>2, <1>3 DEF WalkStates, Noted
<1>8. \A p \in Nat : [w EXCEPT !.pos = p, !.park = TRUE] \in WalkStates
  BY DEF WalkStates
<1>9. \A e \in Entries, p \in Nat, b \in BOOLEAN :
        [w EXCEPT !.tok = e, !.cur = 0, !.park = b, !.pos = p] \in WalkStates
  BY DEF WalkStates
<1> QED
  BY <1>1, <1>4, <1>5, <1>6, <1>7, <1>8, <1>9

\* Each of them leaves r with no account in hand, at a place of its own.
LEMMA LaneNextMoves ==
  ASSUME TypeOK, NEW r \in Requests, NEW w \in WalkStates,
         model[r] \in Models, LaneNext(r, w)
  PROVE  \E v : /\ Move(r, "walk", v, model[r])
                /\ MoveTyped("walk", v, model[r])
<1> DEFINE v == [w EXCEPT !.pos = @ + 1, !.tok = NoEntry]
<1>1. Move(r, "walk", v, model[r])
  BY GotoMoves DEF LaneNext
<1>2. MoveTyped("walk", v, model[r])
  BY WalkUpdates DEF MoveTyped, PCs
<1> QED
  BY <1>1, <1>2

LEMMA SpillMoves ==
  ASSUME TypeOK, NEW r \in Requests, NEW w \in WalkStates,
         model[r] \in Models, Spill(r, w)
  PROVE  \E s \in {"walk", "idle"} : \E v, n :
           Move(r, s, v, n) /\ MoveTyped(s, v, n)
<1>1. CASE LaneNext(r, Noted(w))
  BY <1>1, WalkUpdates, LaneNextMoves
<1>2. CASE LaneFail(r)
  BY <1>2, ReturnMoves DEF LaneFail
<1> QED
  BY <1>1, <1>2 DEF Spill

LEMMA ToAdmitMoves ==
  ASSUME TypeOK, NEW r \in Requests, NEW w \in WalkStates, NEW e \in Entries,
         NEW i \in Nat, NEW b \in BOOLEAN,
         model[r] \in Models, ToAdmit(r, e, i, w, b)
  PROVE  \E v : /\ Move(r, "admit", v, model[r])
                /\ MoveTyped("admit", v, model[r])
                /\ v.tok = e
<1> DEFINE v == [w EXCEPT !.tok = e, !.cur = 0, !.park = b, !.pos = PosInOrder(w, i)]
<1>1. Move(r, "admit", v, model[r])
  BY GotoMoves DEF ToAdmit
<1>2. PosInOrder(w, i) \in Nat
  BY DEF PosInOrder
<1>3. v \in WalkStates /\ v.tok = e
  BY ZenonT(60), <1>2, WalkUpdates DEF WalkStates
<1> QED
  BY <1>1, <1>3 DEF MoveTyped, PCs

\* A request that stands at one of the places of the walk knows its model, has
\* a walk state, and the lane it stands before is an entry.
LEMMA InWalk ==
  ASSUME IInv, NEW r \in Requests
  PROVE  /\ ws[r] \in WalkStates /\ NoPark(r) \in WalkStates
         /\ pc[r] # "idle" => model[r] \in Models
         /\ pc[r] \in ScanPCs /\ ScanHit(r) => ScanEntry(r) \in Entries /\ ws[r].cur \in Nat
         /\ WalkOpen(r) => WalkEntry(r) \in Entries /\ ws[r].pos \in Nat
         /\ lane[r] \in Nat
         /\ permit[r] # NoEntry => permit[r] \in Entries
<1>1. ws[r] \in WalkStates
  BY DEF IInv, TypeOK, TurnTypeOK
<1>2. NoPark(r) \in WalkStates
  BY <1>1, WalkUpdates DEF NoPark
<1>3. ws[r].snap \in Seq(Entries) /\ ws[r].cur \in Nat /\ ws[r].pos \in Nat
  BY <1>1 DEF WalkStates
<1>4. \A i \in DOMAIN ws[r].snap : ws[r].snap[i] \in Entries
  BY <1>3, ElementOfSeq, LenProperties
<1> QED
  BY <1>1, <1>2, <1>3, <1>4
  DEF IInv, TypeOK, TurnTypeOK, ModelKnown, ScanHit, ScanEntry, WalkOpen, WalkEntry

-----------------------------------------------------------------------------
(* Every action keeps the turns, slots and queues in order.                 *)

\* A step that moves no request and touches no slot.
LEMMA NobodyMoves ==
  ASSUME IInv, UNCHANGED <<slotVars, model, pc, ws>>,
         ctxDead' \in [Requests -> BOOLEAN]
  PROVE  TurnInv'
<1>1. TurnTypeOK' /\ ModelKnown' /\ PermitMatchesTurn' /\ QueueDistinct' /\ QueueOwned'
  BY DEF IInv, TypeOK, TurnTypeOK, ModelKnown, PermitMatchesTurn, QueueDistinct,
         QueueOwned, Parked, slotVars
<1>2. SlotInv'
  BY KeepSlotsKeepsLedger DEF IInv, SlotInv, slotVars
<1> QED
  BY <1>1, <1>2 DEF TurnInv

LEMMA AcquireKeeps ==
  ASSUME IInv, NEW r \in Requests, NEW m \in Models, Acquire(r, m)
  PROVE  TurnInv'
<1> DEFINE w == [NoWalk EXCEPT !.snap = roster, !.order = SpillOrder,
                               !.cur = 1, !.pos = 1, !.park = TRUE]
<1>1. SpillOrder \subseteq Nat /\ roster \in Seq(Entries)
  BY LenProperties DEF SpillOrder, IInv, TypeOK, PoolTypeOK
<1>2. w \in WalkStates
  BY <1>1 DEF WalkStates, NoWalk
<1>3. Move(r, "scan", w, m) /\ MoveTyped("scan", w, m)
  BY <1>2 DEF Acquire, Move, MoveTyped, PCs, IInv, TypeOK, TurnTypeOK
<1>4. permit[r] = NoEntry /\ ~Parked(r) /\ UNCHANGED slotVars
  BY DEF Acquire, Parked, IInv, PermitMatchesTurn
<1>5. PermitFits("scan", w.tok, permit[r])
  BY <1>4 DEF PermitFits
<1> QED
  BY <1>3, <1>4, <1>5, KeepStep

LEMMA ScanKeeps ==
  ASSUME IInv, NEW r \in Requests, ScanNext(r) \/ ScanTake(r) \/ ScanMiss(r)
  PROVE  TurnInv'
<1>1. /\ pc[r] \in {"scan", "rescan"} /\ permit[r] = NoEntry /\ ~Parked(r)
      /\ model[r] \in Models /\ ws[r] \in WalkStates /\ TypeOK
  BY InWalk DEF ScanNext, ScanTake, ScanMiss, ScanPCs, Parked, IInv, PermitMatchesTurn
<1>2. CASE ScanNext(r)
  <2> DEFINE w == [ws[r] EXCEPT !.cur = @ + 1]
  <2>1. Move(r, pc[r], w, model[r]) /\ UNCHANGED slotVars
    BY <1>1, <1>2, GotoMoves DEF ScanNext
  <2>2. MoveTyped(pc[r], w, model[r]) /\ PermitFits(pc[r], w.tok, permit[r])
    BY <1>1, WalkUpdates DEF MoveTyped, PermitFits, PCs
  <2> QED
    BY <1>1, <2>1, <2>2, KeepStep
<1>3. CASE ScanTake(r)
  <2> DEFINE e == ScanEntry(r)
             i == ws[r].cur
  <2>1. e \in Entries /\ i \in Nat
    BY <1>3, InWalk DEF ScanTake
  <2>2. TakeSlot(r, e, i)
    BY <1>3 DEF ScanTake
  <2>3. CASE pc[r] = "scan"
    <3>1. PICK w : /\ Move(r, "admit", w, model[r])
                   /\ MoveTyped("admit", w, model[r])
                   /\ w.tok = e
      BY <1>1, <1>3, <2>1, <2>3, ToAdmitMoves DEF ScanTake
    <3>2. PermitFits("admit", w.tok, e)
      BY <2>1, <3>1, RouteAssumption DEF PermitFits
    <3> QED
      BY <1>1, <2>1, <2>2, <3>1, <3>2, TakeStep
  <2>4. CASE pc[r] = "rescan"
    <3> DEFINE w == [ws[r] EXCEPT !.cur = 0, !.tok = NoEntry]
    <3>1. Move(r, "retry", w, model[r])
      BY <1>1, <1>3, <2>4, GotoMoves DEF ScanTake
    <3>2. MoveTyped("retry", w, model[r])
      BY <1>1, WalkUpdates DEF MoveTyped, PCs
    <3>3. PermitFits("retry", w.tok, e)
      BY <2>1, RouteAssumption DEF PermitFits
    <3> QED
      BY <1>1, <2>1, <2>2, <3>1, <3>2, <3>3, TakeStep
  <2> QED
    BY <1>1, <2>3, <2>4
<1>4. CASE ScanMiss(r)
  <2> DEFINE s == IF pc[r] = "scan" THEN "walk" ELSE "refull"
             w == [ws[r] EXCEPT !.cur = 0]
  <2>1. Move(r, s, w, model[r]) /\ UNCHANGED slotVars
    BY <1>1, <1>4, GotoMoves DEF ScanMiss
  <2>2. MoveTyped(s, w, model[r]) /\ PermitFits(s, w.tok, permit[r])
    BY <1>1, WalkUpdates DEF MoveTyped, PermitFits, PCs
  <2> QED
    BY <1>1, <2>1, <2>2, KeepStep
<1> QED
  BY <1>2, <1>3, <1>4

LEMMA WalkKeeps ==
  ASSUME IInv, NEW r \in Requests,
         WalkEnd(r) \/ WalkSkip(r) \/ WalkTake(r) \/ WalkToPark(r) \/ WalkSpill(r)
  PROVE  TurnInv'
<1>1. /\ pc[r] = "walk" /\ permit[r] = NoEntry /\ ~Parked(r)
      /\ model[r] \in Models /\ ws[r] \in WalkStates /\ TypeOK
  BY InWalk DEF WalkEnd, WalkSkip, WalkTake, WalkToPark, WalkSpill, WalkFull, WalkOpen,
                WalkOn, Parked, IInv, PermitMatchesTurn
<1>2. CASE WalkEnd(r)
  <2>1. Move(r, "idle", NoWalk, NoModel) /\ MoveTyped("idle", NoWalk, NoModel)
    BY <1>1, <1>2, ReturnMoves DEF WalkEnd
  <2>2. PermitFits("idle", NoWalk.tok, permit[r]) /\ UNCHANGED slotVars
    BY <1>1, <1>2 DEF PermitFits, WalkEnd
  <2> QED
    BY <1>1, <2>1, <2>2, KeepStep
<1>3. CASE WalkSkip(r)
  <2>1. PICK v : Move(r, "walk", v, model[r]) /\ MoveTyped("walk", v, model[r])
    BY <1>1, <1>3, LaneNextMoves DEF WalkSkip
  <2>2. PermitFits("walk", v.tok, permit[r]) /\ UNCHANGED slotVars
    BY <1>1, <1>3 DEF PermitFits, WalkSkip
  <2> QED
    BY <1>1, <2>1, <2>2, KeepStep
<1>4. CASE WalkTake(r)
  <2> DEFINE e == WalkEntry(r)
             i == ws[r].pos
  <2>1. e \in Entries /\ i \in Nat /\ ws[r].park \in BOOLEAN
    BY <1>1, <1>4, InWalk DEF WalkTake, WalkStates
  <2>2. TakeSlot(r, e, i)
    BY <1>4 DEF WalkTake
  <2>3. PICK w : /\ Move(r, "admit", w, model[r])
                 /\ MoveTyped("admit", w, model[r])
                 /\ w.tok = e
    BY <1>1, <1>4, <2>1, ToAdmitMoves DEF WalkTake
  <2>4. PermitFits("admit", w.tok, e)
    BY <2>1, <2>3, RouteAssumption DEF PermitFits
  <2> QED
    BY <1>1, <2>1, <2>2, <2>3, <2>4, TakeStep
<1>5. CASE WalkToPark(r)
  <2>1. Move(r, "full", ws[r], model[r]) /\ UNCHANGED slotVars
    BY <1>1, <1>5, GotoMoves DEF WalkToPark
  <2>2. MoveTyped("full", ws[r], model[r]) /\ PermitFits("full", ws[r].tok, permit[r])
    BY <1>1 DEF MoveTyped, PermitFits, PCs
  <2> QED
    BY <1>1, <2>1, <2>2, KeepStep
<1>6. CASE WalkSpill(r)
  <2>1. PICK s \in {"walk", "idle"} : \E v, n : Move(r, s, v, n) /\ MoveTyped(s, v, n)
    BY <1>1, <1>6, SpillMoves DEF WalkSpill
  <2>2. PICK v, n : Move(r, s, v, n) /\ MoveTyped(s, v, n)
    BY <2>1
  <2>3. PermitFits(s, v.tok, permit[r]) /\ UNCHANGED slotVars
    BY <1>1, <1>6 DEF PermitFits, WalkSpill
  <2> QED
    BY <1>1, <2>2, <2>3, KeepStep
<1> QED
  BY <1>2, <1>3, <1>4, <1>5, <1>6

\* modelPark: r joins one queue, at the tail or at the head, and is parked.
LEMMA ParkKeeps ==
  ASSUME IInv, NEW r \in Requests, Park(r)
  PROVE  TurnInv'
<1> DEFINE m == model[r]
           q == queue[m]
           s == IF pc[r] = "full" THEN "parked" ELSE "reparked"
<1>1. /\ pc[r] \in {"full", "refull"} /\ permit[r] = NoEntry /\ ~Parked(r)
      /\ m \in Models /\ ws[r] \in WalkStates /\ TypeOK
  BY InWalk DEF Park, Parked, IInv, PermitMatchesTurn
<1>2. /\ UNCHANGED <<live, permit, lane, model, ctxDead>>
      /\ pc' = [pc EXCEPT ![r] = s] /\ ws' = [ws EXCEPT ![r] = ws[r]]
      /\ queue' = [queue EXCEPT ![m] = IF pc[r] = "full" THEN Append(q, r) ELSE <<r>> \o q]
  BY <1>1 DEF Park, Goto, TypeOK, TurnTypeOK
<1>3. /\ pc'[r] = s /\ \A x \in Requests \ {r} : pc'[x] = pc[x]
      /\ pc' \in [Requests -> PCs] /\ ws' = ws
  BY <1>1, <1>2 DEF PCs, TypeOK, TurnTypeOK
<1>4. q \in Seq(Requests) /\ Len(q) \in Nat /\ DOMAIN q = 1..Len(q)
  BY <1>1, LenProperties DEF TypeOK, TurnTypeOK
<1>5. \A n \in Models : \A i \in DOMAIN queue[n] : queue[n][i] \in Requests \ {r}
  <2>1. \A n \in Models : queue[n] \in Seq(Requests) /\ DOMAIN queue[n] = 1..Len(queue[n])
    BY LenProperties DEF IInv, TypeOK, TurnTypeOK
  <2> QED
    BY <1>1, <2>1, ElementOfSeq, NotQueued DEF IInv
\* r stands at one place k of the new queue; the other places are the old ones.
<1> DEFINE s2 == queue'[m]
           Joined(k) ==
             /\ s2 \in Seq(Requests)
             /\ DOMAIN s2 = 1..(Len(q) + 1)
             /\ s2[k] = r
             /\ \A j \in 1..(Len(q) + 1) : j # k => \E i \in DOMAIN q : s2[j] = q[i]
             /\ \A i, j \in 1..(Len(q) + 1) : i # k /\ j # k /\ i # j => s2[i] # s2[j]
<1>6. \E k \in 1..(Len(q) + 1) : Joined(k)
  <2>1. \A i, j \in DOMAIN q : i # j => q[i] # q[j]
    BY <1>1 DEF QueueDistinct, IInv
  <2>2. CASE pc[r] = "full"
    <3>1. s2 = Append(q, r)
      BY <1>1, <1>2, <2>2 DEF TypeOK, TurnTypeOK
    <3>2. /\ s2 \in Seq(Requests)
          /\ Len(s2) = Len(q) + 1
          /\ \A j \in 1..Len(q) : s2[j] = q[j]
          /\ s2[Len(q) + 1] = r
      BY <1>4, <3>1, AppendProperties
    <3>3. DOMAIN s2 = 1..(Len(q) + 1)
      BY <3>2, LenProperties
    <3>4. /\ Len(q) + 1 \in 1..(Len(q) + 1)
          /\ \A j \in 1..(Len(q) + 1) : j # Len(q) + 1 => j \in 1..Len(q)
      BY <1>4
    <3> HIDE DEF s2
    <3>5. Joined(Len(q) + 1)
      BY <1>4, <2>1, <3>2, <3>3, <3>4
    <3> QED
      BY <3>4, <3>5
  <2>3. CASE pc[r] = "refull"
    <3>1. s2 = <<r>> \o q
      BY <1>1, <1>2, <2>3 DEF TypeOK, TurnTypeOK
    <3>2. <<r>> \in Seq(Requests) /\ Len(<<r>>) = 1 /\ <<r>>[1] = r
      OBVIOUS
    <3>3. /\ s2 \in Seq(Requests)
          /\ Len(s2) = Len(q) + 1
          /\ \A j \in 1..(1 + Len(q)) : s2[j] = IF j <= 1 THEN <<r>>[j] ELSE q[j - 1]
      BY <1>4, <3>1, <3>2, ConcatProperties
    <3>4. DOMAIN s2 = 1..(Len(q) + 1)
      BY <3>3, LenProperties
    <3>5. /\ 1 \in 1..(Len(q) + 1)
          /\ \A j \in 1..(Len(q) + 1) : j # 1 => j - 1 \in DOMAIN q /\ ~(j <= 1)
          /\ \A i, j \in 1..(Len(q) + 1) : i # j => i - 1 # j - 1
      BY <1>4
    <3> HIDE DEF s2
    <3>6. s2[1] = r /\ \A j \in 1..(Len(q) + 1) : j # 1 => s2[j] = q[j - 1]
      BY <1>4, <3>2, <3>3, <3>5
    <3>7. Joined(1)
      BY <2>1, <3>3, <3>4, <3>5, <3>6
    <3> QED
      BY <3>5, <3>7
  <2> QED
    BY <1>1, <2>2, <2>3
<1>6a. PICK k \in 1..(Len(q) + 1) : Joined(k)
  BY <1>6
<1>7. \A n \in Models \ {m} : queue'[n] = queue[n]
  BY <1>2 DEF IInv, TypeOK, TurnTypeOK
<1>8. TurnTypeOK'
  BY <1>1, <1>2, <1>3, <1>6a DEF TypeOK, TurnTypeOK
<1>9. ModelKnown' /\ PermitMatchesTurn'
  BY <1>1, <1>2, <1>3 DEF ModelKnown, PermitMatchesTurn, IInv
<1>10. QueueDistinct'
  <2>1. ASSUME NEW i \in DOMAIN queue'[m], NEW j \in DOMAIN queue'[m], i # j
        PROVE  queue'[m][i] # queue'[m][j]
    <3>1. CASE i = k \/ j = k
      BY <1>1, <1>5, <1>6a, <2>1, <3>1
    <3>2. CASE i # k /\ j # k
      BY <1>6a, <2>1, <3>2
    <3> QED
      BY <3>1, <3>2
  <2>2. ASSUME NEW n \in Models \ {m}, NEW i \in DOMAIN queue'[n],
               NEW j \in DOMAIN queue'[n], i # j
        PROVE  queue'[n][i] # queue'[n][j]
    BY <1>7, <2>2 DEF QueueDistinct, IInv
  <2> QED
    BY <2>1, <2>2 DEF QueueDistinct
<1>11. QueueOwned'
  <2> DEFINE Waits(w, n) == /\ pc'[w] \in {"parked", "reparked"}
                            /\ model'[w] = n
                            /\ permit'[w] = NoEntry
  <2>1. \A w \in Requests \ {r} : Parked(w) => pc'[w] \in {"parked", "reparked"}
    BY <1>3 DEF Parked
  <2>2. Waits(r, m)
    BY <1>1, <1>2, <1>3
  <2>3. ASSUME NEW n \in Models, NEW w \in Requests \ {r}, NEW j \in DOMAIN queue[n],
               queue[n][j] = w
        PROVE  Waits(w, n)
    BY <1>2, <2>1, <2>3 DEF QueueOwned, IInv
  <2> HIDE DEF Waits
  <2>4. \A i \in DOMAIN s2 : s2[i] = r \/ \E j \in DOMAIN q : q[j] = s2[i]
    BY <1>6a
  <2>5. ASSUME NEW i \in DOMAIN s2
        PROVE  Waits(s2[i], m)
    <3>1. CASE s2[i] = r
      BY <2>2, <3>1
    <3>2. CASE \E j \in DOMAIN q : q[j] = s2[i]
      BY <1>1, <1>5, <2>3, <3>2
    <3> QED
      BY <2>4, <3>1, <3>2
  <2>6. ASSUME NEW n \in Models \ {m}, NEW i \in DOMAIN queue'[n]
        PROVE  Waits(queue'[n][i], n)
    BY <1>5, <1>7, <2>3
  <2> QED
    BY <2>5, <2>6 DEF QueueOwned, Parked, Waits
<1>12. SlotInv'
  BY <1>2, KeepSlotsKeepsLedger DEF IInv, SlotInv
<1> QED
  BY <1>8, <1>9, <1>10, <1>11, <1>12 DEF TurnInv

LEMMA ParkEndKeeps ==
  ASSUME IInv, NEW r \in Requests,
         ParkRefused(r) \/ ParkGranted(r) \/ ParkCancelled(r) \/ ParkTimeout(r)
  PROVE  TurnInv'
<1>1. /\ pc[r] \in {"full", "refull", "parked", "reparked"}
      /\ model[r] \in Models /\ ws[r] \in WalkStates /\ NoPark(r) \in WalkStates /\ TypeOK
  BY InWalk DEF ParkRefused, ParkGranted, ParkCancelled, ParkTimeout, Parked, IInv
<1>2. CASE ParkRefused(r)
  <2>1. PICK s \in {"walk", "idle"} : \E v, n : Move(r, s, v, n) /\ MoveTyped(s, v, n)
    BY <1>1, <1>2, SpillMoves DEF ParkRefused
  <2>2. PICK v, n : Move(r, s, v, n) /\ MoveTyped(s, v, n)
    BY <2>1
  <2>3. permit[r] = NoEntry /\ ~Parked(r) /\ UNCHANGED slotVars
    <3>1. \/ Spill(r, NoPark(r)) /\ UNCHANGED slotVars
      BY <1>2 DEF ParkRefused
    <3> QED
      BY <1>2, <3>1 DEF ParkRefused, Parked, IInv, PermitMatchesTurn
  <2>4. PermitFits(s, v.tok, permit[r])
    BY <2>3 DEF PermitFits
  <2> QED
    BY <2>2, <2>3, <2>4, KeepStep
<1>3. CASE ParkGranted(r)
  <2>1. permit[r] \in Entries /\ permit[r] # NoEntry /\ lane[r] \in Nat /\ UNCHANGED slotVars
    BY <1>3, InWalk DEF ParkGranted
  <2>2. CASE pc[r] = "parked"
    <3>1. PICK v : /\ Move(r, "admit", v, model[r])
                   /\ MoveTyped("admit", v, model[r])
                   /\ v.tok = permit[r]
      BY <1>1, <1>3, <2>1, <2>2, ToAdmitMoves DEF ParkGranted
    <3>2. PermitFits("admit", v.tok, permit[r])
      BY <2>1, <3>1 DEF PermitFits
    <3> QED
      BY <2>1, <3>1, <3>2, KeepStep
  <2>3. CASE pc[r] # "parked"
    <3> DEFINE v == [ws[r] EXCEPT !.tok = NoEntry]
    <3>1. Move(r, "retry", v, model[r])
      BY <1>1, <1>3, <2>3, GotoMoves DEF ParkGranted
    <3>2. MoveTyped("retry", v, model[r]) /\ PermitFits("retry", v.tok, permit[r])
      BY <1>1, <2>1, WalkUpdates DEF MoveTyped, PermitFits, PCs
    <3> QED
      BY <2>1, <3>1, <3>2, KeepStep
  <2> QED
    BY <2>2, <2>3
<1>4. CASE ParkCancelled(r)
  <2>1. Move(r, "idle", NoWalk, NoModel) /\ MoveTyped("idle", NoWalk, NoModel)
    BY <1>1, <1>4, ReturnMoves DEF ParkCancelled, LaneFail
  <2>2. permit[r] = NoEntry /\ Dequeue(r) /\ PermitFits("idle", NoWalk.tok, NoEntry)
    BY <1>4 DEF ParkCancelled, PermitFits
  <2> QED
    BY <1>1, <2>1, <2>2, DequeueStep
<1>5. CASE ParkTimeout(r)
  <2> DEFINE w == [NoPark(r) EXCEPT !.paid = IF @ < PaidTop THEN @ + 1 ELSE @]
  <2>1. w \in WalkStates /\ Spill(r, w) /\ permit[r] = NoEntry /\ Dequeue(r)
    BY <1>1, <1>5, WalkUpdates DEF ParkTimeout
  <2>2. PICK s \in {"walk", "idle"} : \E v, n : Move(r, s, v, n) /\ MoveTyped(s, v, n)
    BY <1>1, <2>1, SpillMoves
  <2>3. PICK v, n : Move(r, s, v, n) /\ MoveTyped(s, v, n)
    BY <2>2
  <2>4. PermitFits(s, v.tok, NoEntry)
    BY DEF PermitFits
  <2> QED
    BY <1>1, <2>1, <2>3, <2>4, DequeueStep
<1> QED
  BY <1>2, <1>3, <1>4, <1>5

\* Giving the slot back on the way to the next lane, or out of Acquire.
LEMMA ReleaseAndMove ==
  ASSUME IInv, NEW r \in Requests, permit[r] # NoEntry, model[r] \in Models,
         ReleaseSlot(r),
         LaneNext(r, ws[r]) \/ Return(r)
  PROVE  TurnInv'
<1>1. TypeOK /\ ws[r] \in WalkStates
  BY InWalk DEF IInv
<1>2. CASE LaneNext(r, ws[r])
  <2>1. PICK v : Move(r, "walk", v, model[r]) /\ MoveTyped("walk", v, model[r])
    BY <1>1, <1>2, LaneNextMoves
  <2>2. PermitFits("walk", v.tok, NoEntry)
    BY DEF PermitFits
  <2> QED
    BY <2>1, <2>2, ReleaseStep
<1>3. CASE Return(r)
  <2>1. Move(r, "idle", NoWalk, NoModel) /\ MoveTyped("idle", NoWalk, NoModel)
    BY <1>1, <1>3, ReturnMoves
  <2>2. PermitFits("idle", NoWalk.tok, NoEntry)
    BY DEF PermitFits
  <2> QED
    BY <2>1, <2>2, ReleaseStep
<1> QED
  BY <1>2, <1>3

\* Staying on the account, at another place of the turn.
LEMMA StayOnLane ==
  ASSUME IInv, NEW r \in Requests,
         NEW s \in {"session", "run", "leased", "next", "fail", "jail"},
         permit[r] = ws[r].tok, permit[r] # NoEntry, model[r] \in Models,
         Goto(r, s, ws[r]), UNCHANGED slotVars
  PROVE  TurnInv'
<1>1. Move(r, s, ws[r], model[r])
  BY GotoMoves DEF IInv
<1>2. MoveTyped(s, ws[r], model[r])
  BY InWalk DEF MoveTyped, PCs
<1>3. PermitFits(s, ws[r].tok, permit[r])
  BY DEF PermitFits
<1> QED
  BY <1>1, <1>2, <1>3, KeepStep

LEMMA AdmissionKeeps ==
  ASSUME IInv, NEW r \in Requests,
         \/ Admit(r) \/ SessionOk(r) \/ RunOk(r) \/ RefusedShort(r) \/ RefusedLong(r)
         \/ RefusedBanned(r) \/ RefusedCountry(r) \/ RefusedIp(r) \/ RefusedOther(r)
  PROVE  TurnInv'
<1>1. permit[r] = ws[r].tok /\ permit[r] # NoEntry /\ model[r] \in Models
  BY InWalk DEF Admit, SessionOk, RunOk, RefusedShort, RefusedLong, RefusedBanned,
                RefusedCountry, RefusedIp, RefusedOther, Upstream, IInv, PermitMatchesTurn
<1>2. /\ \E s \in {"session", "run", "leased", "next", "fail", "jail"} : Goto(r, s, ws[r])
      /\ UNCHANGED slotVars
  BY DEF Admit, SessionOk, RunOk, RefusedShort, RefusedLong, RefusedBanned,
         RefusedCountry, RefusedIp, RefusedOther
<1> QED
  BY <1>1, <1>2, StayOnLane

LEMMA LeavingKeeps ==
  ASSUME IInv, NEW r \in Requests, LaneLost(r) \/ LeaseEnd(r) \/ JailCancelled(r)
  PROVE  TurnInv'
<1>1. permit[r] # NoEntry /\ model[r] \in Models
  BY InWalk DEF LaneLost, LeaseEnd, JailCancelled, IInv, PermitMatchesTurn
<1>2. ReleaseSlot(r) /\ (LaneNext(r, ws[r]) \/ Return(r))
  BY DEF LaneLost, LeaseEnd, JailCancelled, LaneFail
<1> QED
  BY <1>1, <1>2, ReleaseAndMove

LEMMA RetryKeeps ==
  ASSUME IInv, NEW r \in Requests,
         \/ JailOver(r) \/ JailGone(r)
         \/ RetryCancelled(r) \/ RetryElsewhere(r) \/ RetryAdmit(r)
  PROVE  TurnInv'
<1>1. /\ permit[r] # NoEntry /\ permit[r] \in Entries /\ model[r] \in Models
      /\ ws[r] \in WalkStates /\ lane[r] \in Nat /\ TypeOK
  BY InWalk DEF JailOver, JailGone, RetryCancelled, RetryElsewhere, RetryAdmit, IInv,
                PermitMatchesTurn
<1>2. CASE JailOver(r)
  <2> DEFINE v == [ws[r] EXCEPT !.tok = NoEntry]
  <2>1. Move(r, "retry", v, model[r]) /\ UNCHANGED slotVars
    BY <1>1, <1>2, GotoMoves DEF JailOver
  <2>2. MoveTyped("retry", v, model[r]) /\ PermitFits("retry", v.tok, permit[r])
    BY <1>1, WalkUpdates DEF MoveTyped, PermitFits, PCs
  <2> QED
    BY <1>1, <2>1, <2>2, KeepStep
<1>3. CASE JailGone(r)
  <2> DEFINE v == [ws[r] EXCEPT !.cur = 1]
  <2>1. Move(r, "rescan", v, model[r]) /\ ReleaseSlot(r)
    BY <1>1, <1>3, GotoMoves DEF JailGone
  <2>2. MoveTyped("rescan", v, model[r]) /\ PermitFits("rescan", v.tok, NoEntry)
    BY <1>1, WalkUpdates DEF MoveTyped, PermitFits, PCs
  <2> QED
    BY <1>1, <2>1, <2>2, ReleaseStep
<1>4. CASE RetryCancelled(r)
  BY <1>1, <1>4, ReleaseAndMove DEF RetryCancelled
<1>5. CASE RetryElsewhere(r)
  <2>1. PICK q \in Nat : Goto(r, "back", [ws[r] EXCEPT !.pos = q, !.park = TRUE])
    <3>1. PosInOrder(ws[r], lane[r]) \in Nat
      BY <1>1 DEF PosInOrder
    <3> QED
      BY <1>5, <3>1 DEF RetryElsewhere
  <2> DEFINE v == [ws[r] EXCEPT !.pos = q, !.park = TRUE]
  <2>2. Move(r, "back", v, model[r]) /\ UNCHANGED slotVars
    BY <1>1, <1>5, <2>1, GotoMoves DEF RetryElsewhere
  <2>3. MoveTyped("back", v, model[r]) /\ PermitFits("back", v.tok, permit[r])
    BY <1>1, WalkUpdates DEF MoveTyped, PermitFits, PCs
  <2> QED
    BY <1>1, <2>2, <2>3, KeepStep
<1>6. CASE RetryAdmit(r)
  <2>1. PICK v : /\ Move(r, "admit", v, model[r])
                 /\ MoveTyped("admit", v, model[r])
                 /\ v.tok = permit[r]
    BY <1>1, <1>6, ToAdmitMoves DEF RetryAdmit
  <2>2. PermitFits("admit", v.tok, permit[r]) /\ UNCHANGED slotVars
    BY <1>1, <1>6, <2>1 DEF PermitFits, RetryAdmit
  <2> QED
    BY <1>1, <2>1, <2>2, KeepStep
<1> QED
  BY <1>2, <1>3, <1>4, <1>5, <1>6

-----------------------------------------------------------------------------
(* The pool's own variables, and the invariant put together.                *)

LEMMA SeatTyped ==
  ASSUME TypeOK, NEW r \in Requests,
         \/ DropSeat(r) \/ UNCHANGED seat
         \/ seat' = [seat EXCEPT ![ws[r].tok] = @ + 1]
  PROVE  seat' \in [Entries -> Nat]
<1>1. seat \in [Entries -> Nat]
  BY DEF TypeOK, PoolTypeOK
<1>2. \A n \in Nat : n + 1 \in Nat /\ (IF n > 0 THEN n - 1 ELSE 0) \in Nat
  OBVIOUS
<1> QED
  BY <1>1, <1>2 DEF DropSeat

\* Only the admission touches a seat outside DropSeat, and no request touches
\* the roster.
LEMMA StepKeepsPool ==
  ASSUME IInv, NEW r \in Requests, Step(r)
  PROVE  PoolTypeOK'
<1>1. seat' \in [Entries -> Nat]
  <2>1. \/ DropSeat(r) \/ UNCHANGED seat
        \/ seat' = [seat EXCEPT ![ws[r].tok] = @ + 1]
    BY DEF Step, ScanNext, ScanTake, ScanMiss, WalkEnd, WalkSkip, WalkTake, WalkToPark,
           WalkSpill, ParkRefused, Park, ParkGranted, ParkCancelled, ParkTimeout, Admit,
           SessionOk, RunOk, RefusedShort, RefusedLong, RefusedBanned, RefusedCountry,
           RefusedIp, RefusedOther, LaneLost, JailCancelled, JailOver, JailGone, RetryCancelled,
           RetryElsewhere, RetryAdmit, LeaseEnd, Spill, LaneNext, LaneFail
  <2> QED
    BY <2>1, SeatTyped DEF IInv
<1>2. CASE UNCHANGED <<gateVars, rosterVars, warm>>
  BY <1>1, <1>2 DEF gateVars, rosterVars, IInv, TypeOK, PoolTypeOK
<1>3. CASE SessionOk(r)
  <2>1. model[r] \in Models
    BY <1>3, InWalk DEF SessionOk
  <2> QED
    BY <1>1, <1>3, <2>1 DEF SessionOk, rosterVars, IInv, TypeOK, PoolTypeOK
<1>4. CASE RefusedLong(r)
  <2>1. model[r] \in Models
    BY <1>4, InWalk DEF RefusedLong, Upstream
  <2> QED
    BY <1>1, <1>4, <2>1 DEF RefusedLong, rosterVars, IInv, TypeOK, PoolTypeOK
<1>5. CASE RefusedBanned(r)
  <2>1. ws[r].tok \in Entries
    BY <1>5, InWalk DEF RefusedBanned, Upstream, IInv, PermitMatchesTurn
  <2> QED
    BY <1>1, <1>5, <2>1 DEF RefusedBanned, rosterVars, IInv, TypeOK, PoolTypeOK
<1>6. CASE RefusedCountry(r)
  BY <1>1, <1>6 DEF RefusedCountry, rosterVars, IInv, TypeOK, PoolTypeOK
<1> QED
  BY <1>2, <1>3, <1>4, <1>5, <1>6
  DEF Step, ScanNext, ScanTake, ScanMiss, WalkEnd, WalkSkip, WalkTake, WalkToPark,
      WalkSpill, ParkRefused, Park, ParkGranted, ParkCancelled, ParkTimeout, Admit,
      RunOk, RefusedShort, RefusedIp, RefusedOther, LaneLost, JailCancelled, JailOver, JailGone,
      RetryCancelled, RetryElsewhere, RetryAdmit, LeaseEnd

LEMMA StepKeepsTurns ==
  ASSUME IInv, NEW r \in Requests, Step(r)
  PROVE  TurnInv'
<1>1. CASE ScanNext(r) \/ ScanTake(r) \/ ScanMiss(r)
  BY <1>1, ScanKeeps
<1>2. CASE WalkEnd(r) \/ WalkSkip(r) \/ WalkTake(r) \/ WalkToPark(r) \/ WalkSpill(r)
  BY <1>2, WalkKeeps
<1>3. CASE Park(r)
  BY <1>3, ParkKeeps
<1>4. CASE ParkRefused(r) \/ ParkGranted(r) \/ ParkCancelled(r) \/ ParkTimeout(r)
  BY <1>4, ParkEndKeeps
<1>5. CASE \/ Admit(r) \/ SessionOk(r) \/ RunOk(r) \/ RefusedShort(r) \/ RefusedLong(r)
           \/ RefusedBanned(r) \/ RefusedCountry(r) \/ RefusedIp(r) \/ RefusedOther(r)
  BY <1>5, AdmissionKeeps
<1>6. CASE LaneLost(r) \/ LeaseEnd(r) \/ JailCancelled(r)
  BY <1>6, LeavingKeeps
<1>7. CASE \/ JailOver(r) \/ JailGone(r)
           \/ RetryCancelled(r) \/ RetryElsewhere(r) \/ RetryAdmit(r)
  BY <1>7, RetryKeeps
<1> QED
  BY <1>1, <1>2, <1>3, <1>4, <1>5, <1>6, <1>7 DEF Step

\* The environment moves no request; only the roster, the gates and the
\* sessions change.
LEMMA EnvKeeps ==
  ASSUME IInv, Env
  PROVE  IInv'
<1>1. UNCHANGED <<slotVars, model, pc, ws, ctxDead, seat>>
  BY DEF Env, Remove, Reorder, Add, ToggleLock, Expire, ColdSession, reqVars
<1>2. TurnInv'
  BY <1>1, NobodyMoves DEF IInv, TypeOK, TurnTypeOK
<1>3. roster \in Seq(Entries) /\ DOMAIN roster = 1..Len(roster)
  BY LenProperties DEF IInv, TypeOK, PoolTypeOK
<1>4. roster' \in Seq(Entries)
  <2>1. ASSUME NEW i \in DOMAIN roster, Remove(i)
        PROVE  roster' \in Seq(Entries)
    BY <1>3, <2>1, WithoutProperties DEF Remove
  <2>2. ASSUME NEW i \in DOMAIN roster, NEW j \in DOMAIN roster, Reorder(i, j)
        PROVE  roster' \in Seq(Entries)
    <3>1. roster[i] \in Entries /\ roster[j] \in Entries
      BY <1>3, ElementOfSeq
    <3>2. roster' \in [1..Len(roster) -> Entries] /\ Len(roster) \in Nat
      <4>1. roster \in [1..Len(roster) -> Entries] /\ Len(roster) \in Nat
        BY <1>3, LenProperties
      <4> QED
        BY <2>2, <3>1, <4>1 DEF Reorder
    <3> QED
      BY <3>2, SeqDef
  <2>3. ASSUME NEW e \in spare, Add(e)
        PROVE  roster' \in Seq(Entries)
    <3>1. e \in Entries
      BY DEF IInv, TypeOK, PoolTypeOK
    <3> QED
      BY <1>3, <2>3, <3>1, AppendProperties DEF Add
  <2>4. CASE UNCHANGED roster
    BY <1>3, <2>4
  <2> QED
    BY <2>1, <2>2, <2>3, <2>4 DEF Env, ToggleLock, Expire, ColdSession, rosterVars
<1>5. /\ spare' \subseteq Entries /\ locked' \subseteq Entries /\ dead' \subseteq Entries
      /\ cool' \in [Entries -> {"none", "ban", "country"}]
      /\ refused' \in [Entries -> SUBSET Models]
      /\ warm' \in [Entries -> Models \cup {NoModel}]
  BY DEF Env, Remove, Reorder, Add, ToggleLock, Expire, ColdSession, gateVars, rosterVars,
         IInv, TypeOK, PoolTypeOK
<1> QED
  BY <1>1, <1>2, <1>4, <1>5 DEF IInv, TypeOK, PoolTypeOK, TurnInv, SlotInv

-----------------------------------------------------------------------------
(* The theorems.                                                            *)

LEMMA InitIInv == Init => IInv
<1> SUFFICES ASSUME Init PROVE IInv
  OBVIOUS
<1> USE RouteAssumption
<1>1. PoolTypeOK
  BY ElementOfSeq, LenProperties DEF Init, PoolTypeOK
<1>2. TurnTypeOK
  <2>1. <<>> \in Seq(Entries) /\ <<>> \in Seq(Requests)
    BY EmptySeq
  <2>2. NoWalk \in WalkStates
    BY <2>1 DEF NoWalk, WalkStates
  <2> QED
    BY <2>1, <2>2 DEF Init, TurnTypeOK, PCs
<1>3. ModelKnown /\ PermitMatchesTurn
  BY DEF Init, ModelKnown, PermitMatchesTurn
<1>4. QueueDistinct /\ QueueOwned
  <2>1. \A m \in Models : DOMAIN queue[m] = {}
    BY EmptySeq, LenProperties DEF Init
  <2> QED
    BY <2>1 DEF QueueDistinct, QueueOwned
<1>5. ASSUME NEW e \in Entries, NEW m \in Models
      PROVE  live[e][m] = Cardinality(Holders(e, m)) /\ Cardinality(Holders(e, m)) <= Cap
  <2>1. Holders(e, m) = {}
    BY DEF Init, Holders
  <2>2. live[e][m] = 0
    BY DEF Init
  <2> QED
    BY <2>1, <2>2, FS_EmptySet
<1> QED
  BY <1>1, <1>2, <1>3, <1>4, <1>5 DEF IInv, TypeOK, SlotConservation, SlotCap

LEMMA NextIInv == IInv /\ [Next]_vars => IInv'
<1> SUFFICES ASSUME IInv, [Next]_vars PROVE IInv'
  OBVIOUS
<1>1. ASSUME NEW r \in Requests, NEW m \in Models, Acquire(r, m)
      PROVE  IInv'
  <2>1. TurnInv'
    BY <1>1, AcquireKeeps
  <2>2. PoolTypeOK'
    BY <1>1 DEF Acquire, gateVars, rosterVars, IInv, TypeOK, PoolTypeOK
  <2> QED
    BY <2>1, <2>2 DEF IInv, TypeOK, TurnInv, SlotInv
<1>2. ASSUME NEW r \in Requests, Step(r)
      PROVE  IInv'
  BY <1>2, StepKeepsTurns, StepKeepsPool DEF IInv, TypeOK, TurnInv, SlotInv
<1>3. ASSUME NEW r \in Requests, Cancel(r)
      PROVE  IInv'
  <2>1. TurnInv'
    BY <1>3, NobodyMoves DEF Cancel, IInv, TypeOK, TurnTypeOK
  <2>2. PoolTypeOK'
    BY <1>3 DEF Cancel, gateVars, rosterVars, IInv, TypeOK, PoolTypeOK
  <2> QED
    BY <2>1, <2>2 DEF IInv, TypeOK, TurnInv, SlotInv
<1>4. CASE Env
  BY <1>4, EnvKeeps
<1>5. CASE UNCHANGED vars
  <2>1. TurnInv'
    BY <1>5, NobodyMoves DEF vars, slotVars, IInv, TypeOK, TurnTypeOK
  <2>2. PoolTypeOK'
    BY <1>5 DEF vars, IInv, TypeOK, PoolTypeOK
  <2> QED
    BY <2>1, <2>2 DEF IInv, TypeOK, TurnInv, SlotInv
<1> QED
  BY <1>1, <1>2, <1>3, <1>4, <1>5 DEF Next

\* The inductive invariant holds in every reachable state, whatever the number
\* of requests, accounts and models and whatever the environment does.
THEOREM Invariance == Spec => []IInv
BY InitIInv, NextIInv, PTL DEF Spec

\* Type correctness: the seat and live counters never go below zero, and no
\* walk names an entry that does not exist.
THEOREM TypeCorrect == Spec => []TypeOK
BY Invariance, PTL DEF IInv

\* No slot leaks and none is given back twice: slotPermit.Release runs exactly
\* once per permit along every path of the walk, the jail and the requeue.
THEOREM SlotsConserved == Spec => []SlotConservation
BY Invariance, PTL DEF IInv

\* SLOTS_PER_ACCOUNT is a hard wall per account and model.
THEOREM SlotCapHolds == Spec => []SlotCap
BY Invariance, PTL DEF IInv

\* The turn that runs on an account is the one that holds its slot.
THEOREM PermitsMatch == Spec => []PermitMatchesTurn
BY Invariance, PTL DEF IInv

-----------------------------------------------------------------------------
(* What a request's own step is to everybody else: it leaves the slots      *)
(* alone, takes one, gives one back, leaves a queue or joins one.           *)

\* r keeps the slots as they are.
Quiet(r) == /\ UNCHANGED slotVars
            /\ permit[r] # NoEntry => model'[r] = model[r]

Takes(r) == /\ permit[r] = NoEntry
            /\ model[r] \in Models
            /\ model'[r] = model[r]
            /\ \E e \in Entries, i \in Nat : TakeSlot(r, e, i)

GivesBack(r) == /\ permit[r] \in Entries
                /\ model[r] \in Models
                /\ ReleaseSlot(r)

Leaves(r) == /\ permit[r] = NoEntry
             /\ model[r] \in Models
             /\ Dequeue(r)

OnlyMoves(r) == \A x \in Requests \ {r} : /\ pc'[x] = pc[x]
                                          /\ model'[x] = model[x]
                                          /\ ctxDead'[x] = ctxDead[x]

LEMMA OthersStay ==
  ASSUME TypeOK, NEW r \in Requests, NEW s, NEW w, Goto(r, s, w) \/ Return(r)
  PROVE  OnlyMoves(r)
BY DEF Goto, Return, OnlyMoves, TypeOK, TurnTypeOK

\* After a Goto the request is where it went, and its model is unchanged.
LEMMA GotoThere ==
  ASSUME TypeOK, NEW r \in Requests, NEW s, NEW w, Goto(r, s, w)
  PROVE  OnlyMoves(r) /\ pc'[r] = s /\ model'[r] = model[r]
BY DEF Goto, OnlyMoves, TypeOK, TurnTypeOK

LEMMA ReturnThere ==
  ASSUME TypeOK, NEW r \in Requests, Return(r)
  PROVE  OnlyMoves(r) /\ pc'[r] = "idle"
BY DEF Return, OnlyMoves, TypeOK, TurnTypeOK

LEMMA SpillThere ==
  ASSUME TypeOK, NEW r \in Requests, NEW w, Spill(r, w) \/ LaneNext(r, w) \/ LaneFail(r)
  PROVE  OnlyMoves(r) /\ pc'[r] \in {"walk", "idle"}
BY GotoThere, ReturnThere DEF Spill, LaneNext, LaneFail

NotParkedNext(r) == pc'[r] \notin {"parked", "reparked"}

LEMMA StepKinds ==
  ASSUME IInv, NEW r \in Requests, Step(r) \/ \E m \in Models : Acquire(r, m)
  PROVE  /\ OnlyMoves(r)
         /\ \/ Park(r) /\ UNCHANGED <<live, permit>> /\ model'[r] = model[r]
            \/ NotParkedNext(r) /\ (Quiet(r) \/ Takes(r) \/ GivesBack(r) \/ Leaves(r))
<1>0. /\ TypeOK
      /\ permit[r] # NoEntry => permit[r] \in Entries
      /\ pc[r] # "idle" => model[r] \in Models
  BY InWalk DEF IInv
<1>1. CASE \E m \in Models : Acquire(r, m)
  <2>1. pc[r] = "idle" /\ permit[r] = NoEntry /\ pc'[r] = "scan" /\ UNCHANGED slotVars
    BY <1>0, <1>1 DEF Acquire, IInv, PermitMatchesTurn, TypeOK, TurnTypeOK
  <2>2. OnlyMoves(r)
    BY <1>0, <1>1 DEF Acquire, OnlyMoves, TypeOK, TurnTypeOK
  <2> QED
    BY <2>1, <2>2 DEF Quiet, NotParkedNext
\* Scans and walks hold no permit.
<1>2. CASE ScanNext(r) \/ ScanMiss(r) \/ WalkToPark(r) \/ WalkSkip(r) \/ WalkSpill(r)
           \/ WalkEnd(r) \/ ParkRefused(r)
  <2>1. permit[r] = NoEntry /\ UNCHANGED slotVars
    BY <1>2 DEF ScanNext, ScanMiss, ScanPCs, WalkToPark, WalkSkip, WalkSpill, WalkEnd,
                WalkFull, WalkOpen, WalkOn, ParkRefused, IInv, PermitMatchesTurn
  <2>2. \/ \E s \in {"scan", "rescan", "walk", "refull", "full"} : \E w : Goto(r, s, w)
        \/ \E w : LaneNext(r, w) \/ Spill(r, w)
        \/ Return(r)
    BY <1>2 DEF ScanNext, ScanMiss, ScanPCs, WalkToPark, WalkSkip, WalkSpill, WalkEnd, ParkRefused
  <2>3. OnlyMoves(r) /\ NotParkedNext(r)
    BY <1>0, <2>2, GotoThere, ReturnThere, SpillThere DEF NotParkedNext
  <2> QED
    BY <2>1, <2>3 DEF Quiet
<1>3. CASE ScanTake(r) \/ WalkTake(r)
  <2>1. permit[r] = NoEntry /\ pc[r] # "idle"
    BY <1>3 DEF ScanTake, ScanPCs, WalkTake, WalkOpen, WalkOn, IInv, PermitMatchesTurn
  <2>2. \E e \in Entries, i \in Nat : TakeSlot(r, e, i)
    BY <1>3, InWalk DEF ScanTake, WalkTake
  <2>3. \E s \in {"admit", "retry"} : \E w : Goto(r, s, w)
    BY <1>3 DEF ScanTake, WalkTake, ToAdmit
  <2> QED
    BY <1>0, <2>1, <2>2, <2>3, GotoThere DEF Takes, NotParkedNext
<1>4. CASE Park(r)
  <2>1. \E s \in {"parked", "reparked"} : \E w : Goto(r, s, w)
    BY <1>4 DEF Park
  <2> QED
    BY <1>0, <1>4, <2>1, GotoThere DEF Park
<1>5. CASE \/ ParkGranted(r) \/ JailOver(r) \/ RetryElsewhere(r) \/ RetryAdmit(r)
           \/ Admit(r) \/ SessionOk(r) \/ RunOk(r) \/ RefusedShort(r) \/ RefusedLong(r)
           \/ RefusedBanned(r) \/ RefusedCountry(r) \/ RefusedIp(r) \/ RefusedOther(r)
  <2>1. UNCHANGED slotVars
    BY <1>5 DEF ParkGranted, JailOver, RetryElsewhere, RetryAdmit, Admit, SessionOk, RunOk,
                RefusedShort, RefusedLong, RefusedBanned, RefusedCountry, RefusedIp, RefusedOther
  <2>2. \E s \in PCs \ {"parked", "reparked"} : \E w : Goto(r, s, w)
    BY <1>5 DEF ParkGranted, JailOver, RetryElsewhere, RetryAdmit, Admit, SessionOk, RunOk,
                RefusedShort, RefusedLong, RefusedBanned, RefusedCountry, RefusedIp,
                RefusedOther, ToAdmit, PCs
  <2> QED
    BY <1>0, <2>1, <2>2, GotoThere DEF Quiet, NotParkedNext
<1>6. CASE \/ LaneLost(r) \/ LeaseEnd(r) \/ JailCancelled(r) \/ JailGone(r) \/ RetryCancelled(r)
  <2>1. permit[r] \in Entries /\ model[r] \in Models /\ ReleaseSlot(r)
    BY <1>0, <1>6 DEF LaneLost, LeaseEnd, JailCancelled, JailGone, RetryCancelled, IInv,
                      PermitMatchesTurn
  <2>2. \/ \E w : Goto(r, "rescan", w) \/ LaneNext(r, w)
        \/ Return(r)
    BY <1>6 DEF LaneLost, LeaseEnd, JailCancelled, JailGone, RetryCancelled, LaneFail
  <2> QED
    BY <1>0, <2>1, <2>2, GotoThere, ReturnThere, SpillThere DEF GivesBack, NotParkedNext
<1>7. CASE ParkCancelled(r) \/ ParkTimeout(r)
  <2>1. permit[r] = NoEntry /\ model[r] \in Models /\ Dequeue(r)
    BY <1>0, <1>7 DEF ParkCancelled, ParkTimeout, Parked
  <2>2. LaneFail(r) \/ \E w : Spill(r, w)
    BY <1>7 DEF ParkCancelled, ParkTimeout
  <2> QED
    BY <1>0, <2>1, <2>2, SpillThere DEF Leaves, NotParkedNext
<1> QED
  BY <1>1, <1>2, <1>3, <1>4, <1>5, <1>6, <1>7 DEF Step

-----------------------------------------------------------------------------
(* The slots implement the semaphore.                                       *)

\* The instance has a Cardinality of its own; it is the same operator.
LEMMA SameCardinality ==
  ASSUME NEW S
  PROVE  Sem!Cardinality(S) = Cardinality(S)
BY DEF Sem!Cardinality, Cardinality

LEMMA HoldersOfLane ==
  ASSUME TypeOK, NEW e \in Entries, NEW m \in Models
  PROVE  Sem!HoldersOf(<<e, m>>) = Holders(e, m)
BY RouteAssumption DEF Sem!HoldersOf, Holding, Holders, NoLane, TypeOK, TurnTypeOK

LEMMA TakeImplements ==
  ASSUME IInv, NEW r \in Requests, OnlyMoves(r), Takes(r)
  PROVE  Sem!SemNext
<1> USE RouteAssumption
<1>1. PICK e \in Entries, i \in Nat : TakeSlot(r, e, i)
  BY DEF Takes
<1> DEFINE m == model[r]
<1>2. permit' = [permit EXCEPT ![r] = e] /\ live[e][m] < Cap /\ m \in Models
  BY <1>1 DEF TakeSlot, Takes
<1>3. Cardinality(Sem!HoldersOf(<<e, m>>)) < Cap
  BY <1>2, HoldersOfLane DEF IInv, SlotConservation
<1>4. Holding[r] = NoLane
  BY DEF Takes, Holding
<1>5. permit'[r] = e /\ \A x \in Requests \ {r} : permit'[x] = permit[x]
  BY <1>2 DEF IInv, TypeOK, TurnTypeOK
<1>6. Holding' = [Holding EXCEPT ![r] = <<e, m>>]
  BY <1>5 DEF Holding, Takes, OnlyMoves
<1>7. <<e, m>> \in Entries \X Models
  BY <1>2
<1>8. Sem!Take(r, <<e, m>>)
  BY <1>3, <1>4, <1>6, SameCardinality DEF Sem!Take
<1> QED
  BY <1>7, <1>8 DEF Sem!SemNext

LEMMA GiveBackImplements ==
  ASSUME IInv, NEW r \in Requests, OnlyMoves(r), GivesBack(r)
  PROVE  Sem!SemNext
<1> USE RouteAssumption
<1> DEFINE e == permit[r]
           m == model[r]
           q == queue[m]
<1>1. e \in Entries /\ m \in Models /\ ReleaseSlot(r)
  BY DEF GivesBack
<1>2. Holding[r] = <<e, m>> /\ Holding[r] # NoLane
  BY <1>1 DEF Holding, NoLane
<1>3. PICK i \in 1..(Len(q) + 1) :
        \/ i <= Len(q) /\ HandOff(r, q[i], e)
        \/ permit' = [permit EXCEPT ![r] = NoEntry]
  BY <1>1 DEF ReleaseSlot
<1>4. CASE permit' = [permit EXCEPT ![r] = NoEntry]
  <2>1. permit'[r] = NoEntry /\ \A x \in Requests \ {r} : permit'[x] = permit[x]
    BY <1>4 DEF IInv, TypeOK, TurnTypeOK
  <2>2. Holding' = [Holding EXCEPT ![r] = NoLane]
    BY <2>1 DEF Holding, OnlyMoves
  <2> QED
    BY <1>2, <2>2 DEF Sem!SemNext, Sem!GiveBack
<1>5. CASE i <= Len(q) /\ HandOff(r, q[i], e)
  <2> DEFINE w == q[i]
  <2>1. q \in Seq(Requests) /\ Len(q) \in Nat /\ DOMAIN q = 1..Len(q)
    BY <1>1, LenProperties DEF IInv, TypeOK, TurnTypeOK
  <2>2. i \in DOMAIN q
    BY <1>5, <2>1
  <2>3. w \in Requests
    BY <2>1, <2>2, ElementOfSeq
  <2>4. permit[w] = NoEntry /\ model[w] = m /\ w # r
    BY <1>1, <2>2 DEF QueueOwned, IInv
  <2>5. permit' = [permit EXCEPT ![r] = NoEntry, ![w] = e]
    BY <1>5 DEF HandOff
  <2>6. /\ permit'[r] = NoEntry
        /\ permit'[w] = e
        /\ \A x \in Requests \ {r, w} : permit'[x] = permit[x]
    BY <2>3, <2>4, <2>5 DEF IInv, TypeOK, TurnTypeOK
  <2>7. model'[w] = m
    BY <2>3, <2>4 DEF OnlyMoves
  <2>8. Holding' = [Holding EXCEPT ![r] = NoLane, ![w] = Holding[r]]
    BY <1>1, <1>2, <2>3, <2>4, <2>6, <2>7 DEF Holding, OnlyMoves
  <2>9. Holding[w] = NoLane
    BY <2>3, <2>4 DEF Holding
  <2> QED
    BY <1>2, <2>3, <2>8, <2>9 DEF Sem!SemNext, Sem!HandOver
<1> QED
  BY <1>3, <1>4, <1>5

\* A step that moves no permit is a stuttering step of the semaphore.
LEMMA KeepImplements ==
  ASSUME permit' = permit, \A x \in Requests : permit[x] # NoEntry => model'[x] = model[x]
  PROVE  Holding' = Holding
BY DEF Holding

LEMMA NextImplements ==
  ASSUME IInv, [Next]_vars
  PROVE  [Sem!SemNext]_Holding
<1>1. ASSUME NEW r \in Requests, Step(r) \/ \E m \in Models : Acquire(r, m)
      PROVE  [Sem!SemNext]_Holding
  <2>1. OnlyMoves(r)
    BY <1>1, StepKinds
  <2>2. CASE Takes(r)
    BY <2>1, <2>2, TakeImplements
  <2>3. CASE GivesBack(r)
    BY <2>1, <2>3, GiveBackImplements
  <2>4. CASE \/ Quiet(r) \/ Leaves(r)
             \/ Park(r) /\ UNCHANGED <<live, permit>> /\ model'[r] = model[r]
    <3>1. permit' = permit /\ (permit[r] # NoEntry => model'[r] = model[r])
      BY <2>4 DEF Quiet, Leaves, Dequeue, slotVars
    <3>2. \A x \in Requests : permit[x] # NoEntry => model'[x] = model[x]
      BY <2>1, <3>1 DEF OnlyMoves
    <3> QED
      BY <3>1, <3>2, KeepImplements
  <2> QED
    BY <1>1, <2>2, <2>3, <2>4, StepKinds
<1>2. ASSUME \/ \E r \in Requests : Cancel(r)
             \/ Env
             \/ UNCHANGED vars
      PROVE  Holding' = Holding
  <2>1. UNCHANGED <<permit, model>>
    BY <1>2 DEF Cancel, Env, Remove, Reorder, Add, ToggleLock, Expire, ColdSession,
                slotVars, reqVars, vars
  <2> QED
    BY <2>1, KeepImplements
<1> QED
  BY <1>1, <1>2 DEF Next

\* The walk with its queue, hand-offs and held retries implements the counting
\* semaphore per account and model: a slot moves only by being taken below the
\* cap, given back, or handed to a waiter that holds none.
THEOREM ImplementsSemaphore == Spec => SlotsAreSemaphore
<1>1. Init => Sem!SemInit
  BY DEF Init, Sem!SemInit, Holding
<1>2. IInv /\ [Next]_vars => [Sem!SemNext]_Holding
  BY NextImplements
<1> QED
  BY <1>1, <1>2, Invariance, PTL DEF Spec, SlotsAreSemaphore, Sem!SemSpec

-----------------------------------------------------------------------------
(* No waiter is lost.                                                       *)

InQueue(x) == \E i \in DOMAIN queue[model[x]] : queue[model[x]][i] = x

\* What a step of r must do for the waiters: whoever waits in a queue without a
\* grant, with a live ctx, still waits in it.
WaitersStay(r) ==
  \A x \in Requests \ {r} : \A m \in Models :
    (\E i \in DOMAIN queue[m] : queue[m][i] = x) /\ permit'[x] = NoEntry /\ ~ctxDead[x]
      => \E i \in DOMAIN queue'[m] : queue'[m][i] = x

LEMMA ReleaseLosesNone ==
  ASSUME IInv, NEW r \in Requests, GivesBack(r)
  PROVE  WaitersStay(r)
<1> USE RouteAssumption
<1> DEFINE e == permit[r]
           m == model[r]
           q == queue[m]
<1>1. e \in Entries /\ m \in Models /\ ReleaseSlot(r)
  BY DEF GivesBack
<1>2. q \in Seq(Requests) /\ Len(q) \in Nat /\ DOMAIN q = 1..Len(q)
  BY <1>1, LenProperties DEF IInv, TypeOK, TurnTypeOK
<1>3. PICK i \in 1..(Len(q) + 1) :
        /\ \A j \in 1..(i - 1) : ctxDead[q[j]]
        /\ \/ /\ i <= Len(q)
              /\ HandOff(r, q[i], e)
              /\ queue' = [queue EXCEPT ![m] = SubSeq(q, i + 1, Len(q))]
           \/ queue' = [queue EXCEPT ![m] = SubSeq(q, i, Len(q))]
  BY <1>1 DEF ReleaseSlot, FirstAlive
<1>4. \A n \in Models \ {m} : queue'[n] = queue[n]
  BY <1>1, <1>3 DEF IInv, TypeOK, TurnTypeOK
<1> SUFFICES ASSUME NEW x \in Requests \ {r}, NEW k \in DOMAIN q, q[k] = x,
                    permit'[x] = NoEntry, ~ctxDead[x]
             PROVE  \E j \in DOMAIN queue'[m] : queue'[m][j] = x
  BY <1>1, <1>4 DEF WaitersStay
<1>5. k \in Nat /\ i \in Nat /\ ~(k < i)
  <2>1. k \in Nat /\ i \in Nat /\ (k < i => k \in 1..(i - 1))
    BY <1>2
  <2> QED
    BY <1>3, <2>1
<1>6. CASE /\ i <= Len(q)
           /\ HandOff(r, q[i], e)
           /\ queue' = [queue EXCEPT ![m] = SubSeq(q, i + 1, Len(q))]
  <2>1. k # i
    <3>1. ASSUME k = i PROVE permit'[x] = e
      <4>1. permit' = [permit EXCEPT ![r] = NoEntry, ![x] = e]
        BY <1>6, <3>1 DEF HandOff
      <4> QED
        BY <4>1 DEF IInv, TypeOK, TurnTypeOK
    <3> QED
      BY <1>1, <3>1
  <2>2. i + 1 \in 1..(Len(q) + 1) /\ k - i \in 1..((Len(q) - (i + 1)) + 1)
    BY <1>2, <1>5, <1>6, <2>1
  <2>3. /\ k - i \in DOMAIN SubSeq(q, i + 1, Len(q))
        /\ SubSeq(q, i + 1, Len(q))[k - i] = q[((i + 1) + (k - i)) - 1]
    BY <1>2, <2>2, QueueTail
  <2>4. ((i + 1) + (k - i)) - 1 = k
    BY <1>5
  <2>5. queue'[m] = SubSeq(q, i + 1, Len(q))
    BY <1>1, <1>6 DEF IInv, TypeOK, TurnTypeOK
  <2> QED
    BY <2>3, <2>4, <2>5
<1>7. CASE queue' = [queue EXCEPT ![m] = SubSeq(q, i, Len(q))]
  <2>1. (k - i) + 1 \in 1..((Len(q) - i) + 1)
    BY <1>2, <1>5
  <2>2. /\ (k - i) + 1 \in DOMAIN SubSeq(q, i, Len(q))
        /\ SubSeq(q, i, Len(q))[(k - i) + 1] = q[(i + ((k - i) + 1)) - 1]
    BY <1>2, <2>1, QueueTail
  <2>3. (i + ((k - i) + 1)) - 1 = k
    BY <1>5
  <2>4. queue'[m] = SubSeq(q, i, Len(q))
    BY <1>1, <1>7 DEF IInv, TypeOK, TurnTypeOK
  <2> QED
    BY <2>2, <2>3, <2>4
<1> QED
  BY <1>3, <1>6, <1>7

LEMMA LeaveLosesNone ==
  ASSUME IInv, NEW r \in Requests, Leaves(r)
  PROVE  WaitersStay(r)
<1> DEFINE m == model[r]
           q == queue[m]
<1>1. m \in Models /\ Dequeue(r)
  BY DEF Leaves
<1>2. q \in Seq(Requests) /\ Len(q) \in Nat /\ DOMAIN q = 1..Len(q)
  BY <1>1, LenProperties DEF IInv, TypeOK, TurnTypeOK
<1>3. CASE UNCHANGED queue
  BY <1>3 DEF WaitersStay
<1>4. ASSUME NEW i \in DOMAIN q, q[i] = r, queue' = [queue EXCEPT ![m] = Without(@, i)]
      PROVE  WaitersStay(r)
  <2> DEFINE s == Without(q, i)
  <2>1. /\ s \in Seq(Requests)
        /\ Len(s) = Len(q) - 1
        /\ \A j \in 1..(Len(q) - 1) : s[j] = IF j < i THEN q[j] ELSE q[j + 1]
    BY <1>2, WithoutProperties
  <2>2. DOMAIN s = 1..(Len(q) - 1)
    BY <2>1, LenProperties
  <2>3. queue'[m] = s /\ \A n \in Models \ {m} : queue'[n] = queue[n]
    BY <1>1, <1>4 DEF IInv, TypeOK, TurnTypeOK
  <2>4. ASSUME NEW k \in DOMAIN q, q[k] # r
        PROVE  \E j \in DOMAIN s : s[j] = q[k]
    <3>1. k # i /\ k \in 1..Len(q) /\ i \in 1..Len(q)
      BY <1>2, <1>4, <2>4
    <3>2. CASE k < i
      <4>1. k \in 1..(Len(q) - 1)
        BY <1>2, <3>1, <3>2
      <4> QED
        BY <2>1, <2>2, <3>2, <4>1
    <3>3. CASE k > i
      <4>1. k - 1 \in 1..(Len(q) - 1) /\ ~(k - 1 < i) /\ (k - 1) + 1 = k
        BY <1>2, <3>1, <3>3
      <4> QED
        BY <2>1, <2>2, <4>1
    <3> QED
      BY <3>1, <3>2, <3>3
  <2> QED
    BY <1>1, <2>3, <2>4 DEF WaitersStay
<1> QED
  BY <1>1, <1>3, <1>4 DEF Dequeue

LEMMA ParkLosesNone ==
  ASSUME IInv, NEW r \in Requests, Park(r), model'[r] = model[r]
  PROVE  WaitersStay(r) /\ InQueue(r)'
<1> DEFINE m == model[r]
           q == queue[m]
<1>1. m \in Models /\ r \in Requests /\ pc[r] \in {"full", "refull"}
  BY InWalk DEF Park
<1>2. q \in Seq(Requests) /\ Len(q) \in Nat /\ DOMAIN q = 1..Len(q)
  BY <1>1, LenProperties DEF IInv, TypeOK, TurnTypeOK
<1>3. \A n \in Models \ {m} : queue'[n] = queue[n]
  BY <1>1 DEF Park, IInv, TypeOK, TurnTypeOK
<1>4. /\ \E j \in DOMAIN queue'[m] : queue'[m][j] = r
      /\ \A k \in DOMAIN q : \E j \in DOMAIN queue'[m] : queue'[m][j] = q[k]
  <2>1. CASE pc[r] = "full"
    <3>1. queue'[m] = Append(q, r)
      BY <1>1, <2>1 DEF Park, IInv, TypeOK, TurnTypeOK
    <3>2. /\ Append(q, r) \in Seq(Requests)
          /\ Len(Append(q, r)) = Len(q) + 1
          /\ \A j \in 1..Len(q) : Append(q, r)[j] = q[j]
          /\ Append(q, r)[Len(q) + 1] = r
      BY <1>2, AppendProperties
    <3>3. DOMAIN Append(q, r) = 1..(Len(q) + 1)
      BY <3>2, LenProperties
    <3>4. Len(q) + 1 \in 1..(Len(q) + 1) /\ \A k \in 1..Len(q) : k \in 1..(Len(q) + 1)
      BY <1>2
    <3> QED
      BY <1>2, <3>1, <3>2, <3>3, <3>4
  <2>2. CASE pc[r] = "refull"
    <3>1. queue'[m] = <<r>> \o q
      BY <1>1, <2>2 DEF Park, IInv, TypeOK, TurnTypeOK
    <3>2. <<r>> \in Seq(Requests) /\ Len(<<r>>) = 1 /\ <<r>>[1] = r
      OBVIOUS
    <3>3. /\ <<r>> \o q \in Seq(Requests)
          /\ Len(<<r>> \o q) = Len(q) + 1
          /\ \A j \in 1..(1 + Len(q)) :
               (<<r>> \o q)[j] = IF j <= 1 THEN <<r>>[j] ELSE q[j - 1]
      BY <1>2, <3>2, ConcatProperties
    <3>4. DOMAIN (<<r>> \o q) = 1..(Len(q) + 1)
      BY <3>3, LenProperties
    <3>5. \A k \in 1..Len(q) : k + 1 \in 1..(1 + Len(q)) /\ ~(k + 1 <= 1) /\ (k + 1) - 1 = k
      BY <1>2
    <3>6. \A k \in 1..Len(q) : (<<r>> \o q)[k + 1] = q[k] /\ k + 1 \in 1..(Len(q) + 1)
      BY <1>2, <3>3, <3>5
    <3>7. 1 \in 1..(1 + Len(q)) /\ (<<r>> \o q)[1] = r
      BY <1>2, <3>2, <3>3
    <3>8. ASSUME NEW k \in DOMAIN q
          PROVE  \E j \in DOMAIN (<<r>> \o q) : (<<r>> \o q)[j] = q[k]
      BY <1>2, <3>4, <3>6
    <3>9. 1 \in DOMAIN (<<r>> \o q)
      BY <1>2, <3>4, <3>7
    <3> QED
      BY <3>1, <3>7, <3>8, <3>9
  <2> QED
    BY <1>1, <2>1, <2>2
<1>5. InQueue(r)'
  BY <1>4 DEF InQueue
<1> QED
  BY <1>1, <1>3, <1>4, <1>5 DEF WaitersStay

LEMMA StepLosesNone ==
  ASSUME IInv, WaiterQueued, NEW r \in Requests,
         Step(r) \/ \E m \in Models : Acquire(r, m)
  PROVE  WaiterQueued'
<1>1. OnlyMoves(r) /\ IInv'
  BY StepKinds, NextIInv DEF Next
<1>2. WaitersStay(r)
  <2>1. CASE Takes(r) \/ Quiet(r)
    BY <2>1 DEF Takes, TakeSlot, Quiet, slotVars, WaitersStay
  <2> QED
    BY <2>1, StepKinds, ReleaseLosesNone, LeaveLosesNone, ParkLosesNone
<1>3. \A x \in Requests \ {r} : permit'[x] = NoEntry => permit[x] = NoEntry
  <2>1. CASE UNCHANGED permit
    BY <2>1
  <2>2. CASE Takes(r)
    BY <2>2 DEF Takes, TakeSlot, IInv, TypeOK, TurnTypeOK
  <2>3. CASE GivesBack(r)
    <3>1. \A x \in Requests \ {r} : permit'[x] = permit[x] \/ permit'[x] = permit[r]
      <4>1. CASE permit' = [permit EXCEPT ![r] = NoEntry]
        BY <4>1 DEF IInv, TypeOK, TurnTypeOK
      <4>2. ASSUME NEW w, permit' = [permit EXCEPT ![r] = NoEntry, ![w] = permit[r]]
            PROVE  \A x \in Requests \ {r} : permit'[x] = permit[x] \/ permit'[x] = permit[r]
        BY <4>2 DEF IInv, TypeOK, TurnTypeOK
      <4> QED
        BY <2>3, <4>1, <4>2 DEF GivesBack, ReleaseSlot, HandOff
    <3> QED
      BY <2>3, <3>1, RouteAssumption DEF GivesBack
  <2> QED
    BY <2>1, <2>2, <2>3, StepKinds DEF Quiet, Leaves, Dequeue, slotVars
<1>4. ASSUME NEW x \in Requests, pc'[x] \in {"parked", "reparked"},
             permit'[x] = NoEntry, ~ctxDead'[x]
      PROVE  InQueue(x)'
  <2>1. CASE x = r
    <3>1. Park(r) /\ model'[r] = model[r]
      BY <1>4, <2>1, StepKinds DEF NotParkedNext
    <3> QED
      BY <2>1, <3>1, ParkLosesNone
  <2>2. CASE x # r
    <3>1. Parked(x) /\ permit[x] = NoEntry /\ ~ctxDead[x] /\ model'[x] = model[x]
      BY <1>1, <1>3, <1>4, <2>2 DEF OnlyMoves, Parked
    <3>2. InQueue(x) /\ model[x] \in Models
      BY <3>1, InWalk DEF WaiterQueued, InQueue, Parked
    <3> QED
      BY <1>2, <1>4, <2>2, <3>1, <3>2 DEF WaitersStay, InQueue
  <2> QED
    BY <2>1, <2>2
<1> QED
  BY <1>4 DEF WaiterQueued, InQueue, Parked

LEMMA NextLosesNone == IInv /\ WaiterQueued /\ [Next]_vars => WaiterQueued'
<1> SUFFICES ASSUME IInv, WaiterQueued, [Next]_vars PROVE WaiterQueued'
  OBVIOUS
<1>1. CASE \E r \in Requests : Step(r) \/ \E m \in Models : Acquire(r, m)
  BY <1>1, StepLosesNone
<1>2. ASSUME NEW r \in Requests, Cancel(r)
      PROVE  WaiterQueued'
  <2>1. UNCHANGED <<permit, model, queue, pc>>
    BY <1>2 DEF Cancel, slotVars
  <2>2. \A x \in Requests : ctxDead[x] => ctxDead'[x]
    BY <1>2 DEF Cancel, IInv, TypeOK, TurnTypeOK
  <2> QED
    BY <2>1, <2>2 DEF WaiterQueued, Parked
<1>3. CASE Env \/ UNCHANGED vars
  <2>1. UNCHANGED <<permit, model, queue, pc, ctxDead>>
    BY <1>3 DEF Env, Remove, Reorder, Add, ToggleLock, Expire, ColdSession, slotVars,
                reqVars, vars
  <2> QED
    BY <2>1 DEF WaiterQueued, Parked
<1> QED
  BY <1>1, <1>2, <1>3 DEF Next

\* A parked request is granted or queued, never both, never twice and, while
\* its caller lives, never neither: no waiter is lost by a hand-off, a timeout
\* or another caller's departure.
THEOREM QueuesSound == Spec => []QueueSound
<1>1. Init => WaiterQueued
  BY DEF Init, WaiterQueued, Parked
<1>2. IInv /\ WaiterQueued /\ [Next]_vars => WaiterQueued'
  BY NextLosesNone
<1>3. IInv /\ WaiterQueued => QueueSound
  BY DEF IInv, QueueSound
<1> QED
  BY <1>1, <1>2, <1>3, Invariance, PTL DEF Spec

-----------------------------------------------------------------------------
(* The seats.                                                               *)

\* A turn that counts in a seat knows which account's: DropSeat finds it.
TokKnown == \A r \in Requests : pc[r] \in SeatPCs => ws[r].tok \in Entries

\* The turns that sit on an account, and what a step of r does with its seat:
\* it counts itself in, stays where it is, or leaves and counts itself out.
Sitting(e) == {x \in Requests : pc[x] \in SeatPCs /\ ws[x].tok = e}

SitsDown(r) == /\ pc[r] \notin SeatPCs
               /\ pc'[r] \in SeatPCs
               /\ ws'[r].tok \in Entries
               /\ seat' = [seat EXCEPT ![ws'[r].tok] = @ + 1]
StaysSeated(r) == /\ pc'[r] \in SeatPCs <=> pc[r] \in SeatPCs
                  /\ pc[r] \in SeatPCs => ws'[r].tok = ws[r].tok
                  /\ UNCHANGED seat
GetsUp(r) == pc'[r] \notin SeatPCs /\ DropSeat(r)

\* Everybody else stays where they are.
OthersSit(r) == \A x \in Requests \ {r} : pc'[x] = pc[x] /\ ws'[x] = ws[x]

LEMMA GotoSits ==
  ASSUME TypeOK, NEW r \in Requests, NEW s, NEW w, Goto(r, s, w)
  PROVE  OthersSit(r) /\ pc'[r] = s /\ ws'[r] = w
BY DEF Goto, OthersSit, TypeOK, TurnTypeOK

LEMMA ReturnSits ==
  ASSUME TypeOK, NEW r \in Requests, Return(r)
  PROVE  OthersSit(r) /\ pc'[r] = "idle"
BY DEF Return, OthersSit, TypeOK, TurnTypeOK

\* laneNext, laneFail and a spill get up from the seat.
LEMMA SpillGetsUp ==
  ASSUME TypeOK, NEW r \in Requests, NEW w, Spill(r, w) \/ LaneNext(r, w) \/ LaneFail(r)
  PROVE  OthersSit(r) /\ GetsUp(r)
<1>1. /\ OthersSit(r)
      /\ pc'[r] \in {"walk", "idle"}
      /\ DropSeat(r)
  BY GotoSits, ReturnSits DEF Spill, LaneNext, LaneFail
<1> QED
  BY <1>1 DEF GetsUp, SeatPCs

LEMMA SittingFinite ==
  ASSUME NEW e
  PROVE  IsFiniteSet(Sitting(e)) /\ Cardinality(Sitting(e)) \in Nat
BY RouteAssumption, FS_Subset, FS_CardinalityType DEF Sitting

\* Every step of the walk is one of the three.
LEMMA SeatKinds ==
  ASSUME IInv, TokKnown, NEW r \in Requests, Step(r) \/ \E m \in Models : Acquire(r, m)
  PROVE  OthersSit(r) /\ (SitsDown(r) \/ StaysSeated(r) \/ GetsUp(r))
<1>0. TypeOK /\ ws[r] \in WalkStates
  BY InWalk DEF IInv
<1>1. CASE \E m \in Models : Acquire(r, m)
  <2>1. /\ OthersSit(r) /\ UNCHANGED seat
        /\ pc[r] = "idle" /\ pc'[r] = "scan"
    BY <1>0, <1>1 DEF Acquire, OthersSit, TypeOK, TurnTypeOK
  <2> QED
    BY <2>1 DEF StaysSeated, SeatPCs
\* Moves between two places without a seat, or between two with one.
<1>2. CASE \/ ScanNext(r) \/ ScanMiss(r) \/ WalkTake(r) \/ WalkToPark(r) \/ Park(r)
           \/ RetryElsewhere(r) \/ RetryAdmit(r)
  <2>1. PICK s, w : /\ Goto(r, s, w)
                    /\ UNCHANGED seat
                    /\ s \in SeatPCs <=> pc[r] \in SeatPCs
                    /\ pc[r] \in SeatPCs => w.tok = ws[r].tok
    <3>1. CASE ScanNext(r)
      <4>1. /\ Goto(r, pc[r], [ws[r] EXCEPT !.cur = @ + 1])
            /\ UNCHANGED seat
        BY <3>1 DEF ScanNext
      <4>2. [ws[r] EXCEPT !.cur = @ + 1].tok = ws[r].tok
        BY <1>0 DEF WalkStates
      <4> QED
        BY <4>1, <4>2
    <3>2. CASE ScanMiss(r)
      <4>1. /\ Goto(r, IF pc[r] = "scan" THEN "walk" ELSE "refull", [ws[r] EXCEPT !.cur = 0])
            /\ UNCHANGED seat
            /\ pc[r] \in {"scan", "rescan"}
        BY <3>2 DEF ScanMiss, ScanPCs
      <4>2. [ws[r] EXCEPT !.cur = 0].tok = ws[r].tok
        BY <1>0 DEF WalkStates
      <4>3. (IF pc[r] = "scan" THEN "walk" ELSE "refull") \in SeatPCs <=> pc[r] \in SeatPCs
        BY <4>1 DEF SeatPCs
      <4> QED
        BY <4>1, <4>2, <4>3
    <3>3. CASE WalkTake(r) \/ WalkToPark(r)
      <4>1. /\ \E s \in {"admit", "full"} : \E w : Goto(r, s, w)
            /\ UNCHANGED seat
            /\ pc[r] = "walk"
        BY <3>3 DEF WalkTake, WalkToPark, WalkFull, WalkOpen, WalkOn, ToAdmit
      <4> QED
        BY <4>1 DEF SeatPCs
    <3>4. CASE Park(r)
      <4>1. /\ UNCHANGED seat
            /\ \/ pc[r] = "full" /\ Goto(r, "parked", ws[r])
               \/ pc[r] = "refull" /\ Goto(r, "reparked", ws[r])
        BY <3>4 DEF Park
      <4> QED
        BY <4>1 DEF SeatPCs
    <3>5. CASE RetryElsewhere(r) \/ RetryAdmit(r)
      <4>1. /\ \E s \in {"admit", "back"} : \E w : Goto(r, s, w)
            /\ UNCHANGED seat
            /\ pc[r] = "retry"
        BY <3>5 DEF RetryElsewhere, RetryAdmit, ToAdmit
      <4> QED
        BY <4>1 DEF SeatPCs
    <3> QED
      BY <1>2, <3>1, <3>2, <3>3, <3>4, <3>5
  <2> QED
    BY <1>0, <2>1, GotoSits DEF StaysSeated
\* admitOnLane between the seat and the next lane.
<1>3. CASE \/ SessionOk(r) \/ RunOk(r) \/ RefusedShort(r) \/ RefusedLong(r) \/ RefusedBanned(r)
           \/ RefusedCountry(r) \/ RefusedIp(r) \/ RefusedOther(r)
  <2>1. /\ pc[r] \in {"session", "run"} /\ UNCHANGED seat
        /\ \E s \in {"run", "leased", "next", "fail", "jail"} : Goto(r, s, ws[r])
    BY <1>3 DEF SessionOk, RunOk, RefusedShort, RefusedLong, RefusedBanned, RefusedCountry,
                RefusedIp, RefusedOther, Upstream
  <2> QED
    BY <1>0, <2>1, GotoSits DEF StaysSeated, SeatPCs
<1>4. CASE JailGone(r)
  <2>1. /\ pc[r] = "jail" /\ UNCHANGED seat
        /\ Goto(r, "rescan", [ws[r] EXCEPT !.cur = 1])
    BY <1>4 DEF JailGone
  <2>2. [ws[r] EXCEPT !.cur = 1].tok = ws[r].tok
    BY <1>0 DEF WalkStates
  <2> QED
    BY ZenonT(60), <1>0, <2>1, <2>2, GotoSits DEF StaysSeated, SeatPCs
<1>5. CASE Admit(r)
  <2>1. /\ pc[r] = "admit" /\ seat' = [seat EXCEPT ![ws[r].tok] = @ + 1]
        /\ \E s \in {"session", "next"} : Goto(r, s, ws[r])
    BY <1>5 DEF Admit
  <2>2. ws[r].tok \in Entries
    BY <2>1, InWalk DEF IInv, PermitMatchesTurn
  <2> QED
    BY ZenonT(60), <1>0, <2>1, <2>2, GotoSits DEF SitsDown, SeatPCs
\* What gets up, or had no seat to begin with.
<1>6. CASE ScanTake(r) \/ ParkGranted(r) \/ JailOver(r)
  <2>1. DropSeat(r) /\ \E s \in {"admit", "retry"} : \E w : Goto(r, s, w)
    BY <1>6 DEF ScanTake, ParkGranted, JailOver, ToAdmit
  <2> QED
    BY <1>0, <2>1, GotoSits DEF GetsUp, SeatPCs
<1>7. CASE WalkEnd(r) \/ RetryCancelled(r)
  <2>1. Return(r) /\ UNCHANGED seat /\ pc[r] \in {"walk", "retry"}
    BY <1>7 DEF WalkEnd, RetryCancelled
  <2> QED
    BY <1>0, <2>1, ReturnSits DEF StaysSeated, SeatPCs
<1>8. CASE \/ WalkSkip(r) \/ WalkSpill(r) \/ ParkRefused(r) \/ ParkCancelled(r)
           \/ ParkTimeout(r) \/ LaneLost(r) \/ JailCancelled(r)
  <2>1. \/ \E w : Spill(r, w) \/ LaneNext(r, w)
        \/ LaneFail(r)
    BY <1>8 DEF WalkSkip, WalkSpill, ParkRefused, ParkCancelled, ParkTimeout, LaneLost,
                JailCancelled
  <2> QED
    BY <1>0, <2>1, SpillGetsUp
<1>9. CASE LeaseEnd(r)
  BY <1>0, <1>9, ReturnSits DEF LeaseEnd, GetsUp, SeatPCs
<1> QED
  BY <1>1, <1>2, <1>3, <1>4, <1>5, <1>6, <1>7, <1>8, <1>9 DEF Step

\* One more on an account, and one more in its counter; the others as before.
LEMMA SitsDownKeepsSeats ==
  ASSUME IInv, SeatConservation, NEW r \in Requests, OthersSit(r), SitsDown(r)
  PROVE  SeatConservation'
<1> SUFFICES ASSUME NEW e \in Entries
             PROVE  seat'[e] = Cardinality(Sitting(e)')
  BY DEF SeatConservation, Sitting
<1>0. seat \in [Entries -> Nat] /\ seat[e] = Cardinality(Sitting(e))
  BY DEF IInv, TypeOK, PoolTypeOK, SeatConservation, Sitting
<1>1. CASE e = ws'[r].tok
  <2>1. Sitting(e)' = Sitting(e) \cup {r} /\ r \notin Sitting(e)
    BY <1>1 DEF SitsDown, OthersSit, Sitting
  <2>2. Cardinality(Sitting(e)') = Cardinality(Sitting(e)) + 1
    BY <2>1, SittingFinite, FS_AddElement
  <2> QED
    BY <1>0, <1>1, <2>2 DEF SitsDown
<1>2. CASE e # ws'[r].tok
  <2>1. Sitting(e)' = Sitting(e)
    BY <1>2 DEF SitsDown, OthersSit, Sitting
  <2> QED
    BY <1>0, <1>2, <2>1 DEF SitsDown
<1> QED
  BY <1>1, <1>2

LEMMA GetsUpKeepsSeats ==
  ASSUME IInv, TokKnown, SeatConservation, NEW r \in Requests, OthersSit(r), GetsUp(r)
  PROVE  SeatConservation'
<1> SUFFICES ASSUME NEW e \in Entries
             PROVE  seat'[e] = Cardinality(Sitting(e)')
  BY DEF SeatConservation, Sitting
<1>0. seat \in [Entries -> Nat] /\ seat[e] = Cardinality(Sitting(e))
  BY DEF IInv, TypeOK, PoolTypeOK, SeatConservation, Sitting
<1>1. CASE pc[r] \in SeatPCs /\ e = ws[r].tok
  <2>1. Sitting(e)' = Sitting(e) \ {r} /\ r \in Sitting(e)
    BY <1>1 DEF GetsUp, OthersSit, Sitting
  <2>2. /\ Cardinality(Sitting(e)') = Cardinality(Sitting(e)) - 1
        /\ Cardinality(Sitting(e)') \in Nat
    BY <2>1, SittingFinite, FS_RemoveElement, FS_CardinalityType
  <2>3. seat'[e] = IF seat[e] > 0 THEN seat[e] - 1 ELSE 0
    BY <1>0, <1>1 DEF GetsUp, DropSeat
  <2> QED
    BY <1>0, <2>2, <2>3, SittingFinite
<1>2. CASE ~(pc[r] \in SeatPCs /\ e = ws[r].tok)
  <2>1. Sitting(e)' = Sitting(e)
    BY <1>2 DEF GetsUp, OthersSit, Sitting
  <2>2. seat'[e] = seat[e]
    BY <1>0, <1>2 DEF GetsUp, DropSeat, TokKnown
  <2> QED
    BY <1>0, <2>1, <2>2
<1> QED
  BY <1>1, <1>2

LEMMA NextKeepsSeats ==
  IInv /\ TokKnown /\ SeatConservation /\ [Next]_vars => TokKnown' /\ SeatConservation'
<1> SUFFICES ASSUME IInv, TokKnown, SeatConservation, [Next]_vars
             PROVE  TokKnown' /\ SeatConservation'
  OBVIOUS
<1>1. ASSUME NEW r \in Requests, Step(r) \/ \E m \in Models : Acquire(r, m)
      PROVE  TokKnown' /\ SeatConservation'
  <2>1. OthersSit(r) /\ (SitsDown(r) \/ StaysSeated(r) \/ GetsUp(r))
    BY <1>1, SeatKinds
  <2>2. TokKnown'
    BY <2>1 DEF TokKnown, OthersSit, SitsDown, StaysSeated, GetsUp
  <2>3. CASE StaysSeated(r)
    <3>1. \A e \in Entries : Sitting(e)' = Sitting(e)
      BY <2>1, <2>3 DEF StaysSeated, OthersSit, Sitting
    <3> QED
      BY <2>2, <2>3, <3>1 DEF StaysSeated, SeatConservation, Sitting
  <2> QED
    BY <2>1, <2>2, <2>3, SitsDownKeepsSeats, GetsUpKeepsSeats
<1>2. CASE Env \/ (\E r \in Requests : Cancel(r)) \/ UNCHANGED vars
  <2>1. UNCHANGED <<seat, pc, ws>>
    BY <1>2 DEF Env, Remove, Reorder, Add, ToggleLock, Expire, ColdSession, Cancel,
                reqVars, vars
  <2> QED
    BY <2>1 DEF TokKnown, SeatConservation
<1> QED
  BY <1>1, <1>2 DEF Next

\* The seat counter of an account, which the drain of a removed account and its
\* busy check read, is the number of turns between their admission and the end
\* of their lease: no path out of the walk, the jail or the requeue leaves a
\* seat counted, and none gives one back twice.
THEOREM SeatsConserved == Spec => []SeatConservation
<1>1. Init => TokKnown /\ SeatConservation
  <2>1. ASSUME Init PROVE \A e \in Entries : Sitting(e) = {}
    BY <2>1 DEF Init, Sitting, SeatPCs
  <2> QED
    BY ZenonT(60), <2>1, FS_EmptySet DEF Init, TokKnown, SeatConservation, Sitting, SeatPCs
<1> QED
  BY <1>1, NextKeepsSeats, Invariance, PTL DEF Spec

-----------------------------------------------------------------------------
(* Hand-offs in order.                                                      *)

\* What GrantInOrder says of one waiter.
GrantedInOrder(w) ==
  /\ ~ctxDead[w]
  /\ OnRoster(permit'[w], lane'[w])
  /\ Admissible(permit'[w], model[w])
  /\ \E i \in DOMAIN queue[model[w]] :
       /\ queue[model[w]][i] = w
       /\ \A j \in 1..(i - 1) : ctxDead[queue[model[w]][j]]

\* A parked request takes no slot by itself: it reads the grant, or leaves.
LEMMA ParkedTakeNone ==
  ASSUME TypeOK, NEW w \in Requests, Parked(w), permit[w] = NoEntry,
         Step(w) \/ \E m \in Models : Acquire(w, m)
  PROVE  permit'[w] = NoEntry
<1>1. ParkCancelled(w) \/ ParkTimeout(w)
  BY DEF Step, Parked, Acquire, ScanNext, ScanTake, ScanMiss, ScanPCs, WalkEnd, WalkSkip, WalkTake,
         WalkToPark, WalkSpill, WalkOn, WalkOpen, WalkFull, ParkRefused, Park, ParkGranted, Admit,
         SessionOk, RunOk, Upstream, RefusedShort, RefusedLong, RefusedBanned, RefusedCountry,
         RefusedIp, RefusedOther, LaneLost, JailCancelled, JailOver, JailGone, RetryCancelled,
         RetryElsewhere, RetryAdmit, LeaseEnd
<1> QED
  BY <1>1 DEF ParkCancelled, ParkTimeout, Dequeue

\* Whoever gives a slot back grants it to the first live waiter of its model.
LEMMA ReleaseGrantsInOrder ==
  ASSUME IInv, NEW r \in Requests, GivesBack(r), NEW w \in Requests \ {r},
         permit[w] = NoEntry, permit'[w] # NoEntry
  PROVE  GrantedInOrder(w)
<1> DEFINE e == permit[r]
           m == model[r]
           q == queue[m]
<1>1. e \in Entries /\ m \in Models /\ ReleaseSlot(r)
  BY DEF GivesBack
<1>2. q \in Seq(Requests) /\ Len(q) \in Nat /\ DOMAIN q = 1..Len(q)
  BY <1>1, LenProperties DEF IInv, TypeOK, TurnTypeOK
<1>3. PICK i \in 1..(Len(q) + 1) :
        /\ FirstAlive(q, i)
        /\ \/ /\ i <= Len(q)
              /\ \E k \in DOMAIN roster : roster[k] = e
              /\ Admissible(e, m)
              /\ HandOff(r, q[i], e)
           \/ permit' = [permit EXCEPT ![r] = NoEntry]
  BY <1>1 DEF ReleaseSlot
<1>4. ~(permit' = [permit EXCEPT ![r] = NoEntry])
  BY DEF IInv, TypeOK, TurnTypeOK
<1>5. i \in DOMAIN q /\ Admissible(e, m) /\ HandOff(r, q[i], e) /\ q[i] \in Requests
  BY <1>2, <1>3, <1>4
<1>6. PICK k \in DOMAIN roster : roster[k] = e /\ lane' = [lane EXCEPT ![r] = 0, ![q[i]] = k]
  BY <1>5 DEF HandOff
<1>7. q[i] = w
  BY <1>5 DEF HandOff, IInv, TypeOK, TurnTypeOK
<1>8. permit'[w] = e /\ lane'[w] = k /\ model[w] = m
  <2>1. model[q[i]] = m
    BY <1>1, <1>5 DEF IInv, QueueOwned
  <2> QED
    BY <1>5, <1>6, <1>7, <2>1 DEF HandOff, IInv, TypeOK, TurnTypeOK
<1>9. OnRoster(permit'[w], lane'[w]) /\ Admissible(permit'[w], model[w])
  BY <1>5, <1>6, <1>8 DEF OnRoster
<1>10. ~ctxDead[w] /\ \A j \in 1..(i - 1) : ctxDead[q[j]]
  BY <1>2, <1>3, <1>5, <1>7 DEF FirstAlive
<1> QED
  BY <1>5, <1>7, <1>8, <1>9, <1>10 DEF GrantedInOrder

LEMMA NextGrantsInOrder ==
  ASSUME IInv, [Next]_vars, NEW w \in Requests, Parked(w), permit[w] = NoEntry, permit'[w] # NoEntry
  PROVE  GrantedInOrder(w)
<1>0. permit \in [Requests -> Entries \cup {NoEntry}] /\ TypeOK
  BY DEF IInv, TypeOK, TurnTypeOK
<1>1. ASSUME NEW r \in Requests, Step(r) \/ \E m \in Models : Acquire(r, m)
      PROVE  GrantedInOrder(w)
  <2>1. r # w
    BY <1>0, <1>1, ParkedTakeNone
  <2>2. CASE GivesBack(r)
    BY <2>1, <2>2, ReleaseGrantsInOrder
  <2>3. CASE Takes(r)
    BY <1>0, <2>1, <2>3 DEF Takes, TakeSlot
  <2>4. CASE permit' = permit
    BY <2>4
  <2> QED
    BY <1>1, <2>2, <2>3, <2>4, StepKinds DEF Quiet, Leaves, Dequeue, slotVars
<1>2. CASE (\E r \in Requests : Cancel(r)) \/ Env \/ UNCHANGED vars
  BY <1>2 DEF Cancel, Env, Remove, Reorder, Add, ToggleLock, Expire, ColdSession, slotVars, vars
<1> QED
  BY <1>1, <1>2 DEF Next

\* A hand-off serves the queue in order, whoever gives the slot back: the first
\* waiter whose ctx is live gets it, on a lane of the roster that may serve its
\* model (model_queue.go:211-255).
THEOREM GrantsInOrder == Spec => GrantInOrder
<1>1. ASSUME IInv, [Next]_vars
      PROVE  [\A w \in Requests : Parked(w) /\ permit[w] = NoEntry /\ permit'[w] # NoEntry =>
                /\ ~ctxDead[w]
                /\ OnRoster(permit'[w], lane'[w])
                /\ Admissible(permit'[w], model[w])
                /\ \E i \in DOMAIN queue[model[w]] :
                     /\ queue[model[w]][i] = w
                     /\ \A j \in 1..(i - 1) : ctxDead[queue[model[w]][j]]]_vars
  BY <1>1, NextGrantsInOrder DEF GrantedInOrder
<1> QED
  BY <1>1, Invariance, PTL DEF Spec, GrantInOrder
=============================================================================
