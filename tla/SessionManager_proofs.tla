------------------------ MODULE SessionManager_proofs ------------------------
(***************************************************************************)
(* The session manager of one account, for every number of callers, models *)
(* and instances: type correctness, one refresh at a time, a store that    *)
(* follows the cache, and a re-admission that disowns nobody's instance.   *)
(***************************************************************************)
EXTENDS SessionManager, FiniteSetTheorems, TLAPS

\* A row has an instance exactly when it stands for a session.
RowSound(c) == c.inst # NoInst <=> c.st \in {"active", "ended", "queued"}

\* Where a process may be, and where its writes may return to.
Places(p) ==
  IF p \in Callers THEN RefreshPCs \cup {"idle", "top", "parked", "woken", "trust", "turn"}
  ELSE IF p = ReAdmit THEN RefreshPCs \cup {"idle"}
  ELSE IF p = Poller THEN {"idle", "polled", "write", "logged", "panic"}
  ELSE {"idle", "write", "delete"}

Returns(p) ==
  IF p \in Callers THEN {"idle", "loop", "post", "unlock", "land"}
  ELSE IF p = ReAdmit THEN {"loop", "post", "unlock", "land"}
  ELSE IF p = Poller THEN {"idle", "logged"}
  ELSE {"idle", "delete"}

\* Inside refresh, also between the halves of a commit.
InRefresh(s, l) == \/ s \in RefreshPCs \ {"write"}
                   \/ s = "write" /\ l.next \in RefreshPCs

\* Process p may be at s with the locals l: what it is going to use there has
\* been set, and its next round is within the budget.
Fits(p, s, l) ==
  /\ s \in Places(p)
  /\ l \in Locals
  /\ s # "top" => l.tries < MaxOuter
  /\ s \in {"get", "resume", "polled"} => l.inst \in Insts
  /\ s = "answer" /\ l.ans \in {"active", "queued"} => l.inst \in Insts
  /\ s = "write" => l.next \in Returns(p) /\ RowSound(l.row)
  /\ InRefresh(s, l) \/ s \in {"top", "parked", "woken", "trust"} => l.model \in Models
  /\ InRefresh(s, l) => l.target \in Models

SharedOK ==
  /\ cache \in Rows /\ RowSound(cache)
  /\ store \in Rows /\ RowSound(store)
  /\ persist \in Procs \cup {NoProc}
  /\ age \in [Insts -> {"unborn", "queued", "fresh", "lead", "grace", "over"}]
  /\ bound \in [Insts -> Models \cup {NoModel}]
  /\ live \in Insts \cup {NoInst}
  /\ flight \in Callers \cup {ReAdmit, NoProc}
  /\ ferr \in {"", "err", "ctx"}
  /\ tried \in Insts \cup {NoInst}
  /\ unav \subseteq Models
  /\ events \in 0 .. MaxEvents
  /\ calls \in 0 .. MaxCalls

ProcsOK ==
  /\ pc \in [Procs -> PCs]
  /\ loc \in [Procs -> Locals]
  /\ \A p \in Procs : Fits(p, pc[p], loc[p])

Base == SharedOK /\ ProcsOK

-----------------------------------------------------------------------------
(* The processes.                                                           *)

LEMMA ThreeAtMost ==
  ASSUME NEW a, NEW b, NEW c
  PROVE  Cardinality({a, b, c}) <= 3
<1>1. IsFiniteSet({a}) /\ Cardinality({a}) = 1
  BY FS_Singleton
<1>2. IsFiniteSet({a} \cup {b}) /\ Cardinality({a} \cup {b}) \in {1, 2}
  <2>1. /\ IsFiniteSet({a} \cup {b})
        /\ Cardinality({a} \cup {b}) = IF b \in {a} THEN Cardinality({a})
                                      ELSE Cardinality({a}) + 1
    BY <1>1, FS_AddElement
  <2> QED
    BY <1>1, <2>1
<1>3. ({a} \cup {b}) \cup {c} = {a, b, c}
  OBVIOUS
<1> DEFINE S == {a} \cup {b}
<1> HIDE DEF S
<1>4. Cardinality(S \cup {c}) = IF c \in S THEN Cardinality(S) ELSE Cardinality(S) + 1
  BY <1>2, FS_AddElement DEF S
<1>5. Cardinality(S) \in {1, 2} /\ S \cup {c} = {a, b, c}
  BY <1>2, <1>3 DEF S
<1> QED
  BY <1>4, <1>5

LEMMA ProcsDiffer ==
  /\ ReAdmit \notin Callers /\ Poller \notin Callers /\ Ender \notin Callers
  /\ NoProc \notin Procs
  /\ ReAdmit # Poller /\ ReAdmit # Ender /\ Poller # Ender
<1>1. ASSUME NEW a, NEW b, NEW c, {ReAdmit, Poller, Ender, NoProc} = {a, b, c}
      PROVE  FALSE
  <2>1. Cardinality({a, b, c}) = 4
    BY <1>1, SessionAssumption
  <2>2. Cardinality({a, b, c}) <= 3
    BY ThreeAtMost
  <2> QED
    BY <2>1, <2>2
<1>2. ReAdmit # Poller
  <2>1. ReAdmit = Poller => {ReAdmit, Poller, Ender, NoProc} = {Poller, Ender, NoProc}
    OBVIOUS
  <2> QED
    BY <1>1, <2>1
<1>3. ReAdmit # Ender
  <2>1. ReAdmit = Ender => {ReAdmit, Poller, Ender, NoProc} = {Poller, Ender, NoProc}
    OBVIOUS
  <2> QED
    BY <1>1, <2>1
<1>4. Poller # Ender
  <2>1. Poller = Ender => {ReAdmit, Poller, Ender, NoProc} = {ReAdmit, Ender, NoProc}
    OBVIOUS
  <2> QED
    BY <1>1, <2>1
<1>5. NoProc # ReAdmit /\ NoProc # Poller /\ NoProc # Ender
  <2>1. NoProc = ReAdmit => {ReAdmit, Poller, Ender, NoProc} = {ReAdmit, Poller, Ender}
    OBVIOUS
  <2>2. NoProc = Poller => {ReAdmit, Poller, Ender, NoProc} = {ReAdmit, Poller, Ender}
    OBVIOUS
  <2>3. NoProc = Ender => {ReAdmit, Poller, Ender, NoProc} = {ReAdmit, Poller, Ender}
    OBVIOUS
  <2> QED
    BY <1>1, <2>1, <2>2, <2>3
<1>6. /\ ReAdmit \notin Callers /\ Poller \notin Callers /\ Ender \notin Callers
      /\ NoProc \notin Callers
  BY SessionAssumption
<1> QED
  BY <1>2, <1>3, <1>4, <1>5, <1>6 DEF Procs

LEMMA PlacesKnown == \A p \in Procs : Places(p) \subseteq PCs /\ Returns(p) \subseteq PCs
BY DEF Places, Returns, PCs, RefreshPCs

LEMMA NoRowFits == NoRow \in Rows /\ RowSound(NoRow)
BY DEF NoRow, Rows, RowSound

LEMMA NoLocFits ==
  /\ NoLoc \in Locals /\ NoLoc.tries < MaxOuter
  /\ \A p \in Procs : Fits(p, "idle", NoLoc)
<1>1. NoLoc \in Locals /\ NoLoc.tries < MaxOuter
  BY NoRowFits, SessionAssumption DEF NoLoc, Locals, PCs
<1> QED
  BY <1>1 DEF Fits, Places, InRefresh, RefreshPCs

\* A move of one process to a place that fits.
LEMMA MoveFits ==
  ASSUME ProcsOK, NEW p \in Procs, NEW s, NEW l, To(p, s, l), Fits(p, s, l)
  PROVE  ProcsOK'
<1>1. s \in PCs /\ l \in Locals
  BY PlacesKnown DEF Fits
<1>2. /\ pc' \in [Procs -> PCs] /\ loc' \in [Procs -> Locals]
      /\ \A q \in Procs : q # p => pc'[q] = pc[q] /\ loc'[q] = loc[q]
      /\ pc'[p] = s /\ loc'[p] = l
  BY <1>1 DEF To, ProcsOK
<1>3. \A q \in Procs : Fits(q, pc'[q], loc'[q])
  BY <1>2 DEF ProcsOK
<1> QED
  BY <1>2, <1>3 DEF ProcsOK

LEMMA OutFits ==
  ASSUME ProcsOK, NEW p \in Procs, Out(p)
  PROVE  ProcsOK'
BY NoLocFits, MoveFits DEF Out

\* A commit of a sound row.
LEMMA CommitFits ==
  ASSUME Base, NEW p \in Procs, NEW c \in Rows, RowSound(c), NEW next \in Returns(p),
         NEW l \in Locals, l.tries < MaxOuter, Commit(p, c, next, l),
         next \in RefreshPCs => l.model \in Models /\ l.target \in Models
  PROVE  ProcsOK' /\ cache' = c /\ persist' = p
<1> DEFINE k == [l EXCEPT !.row = c, !.drop = cache.inst, !.next = next]
<1>1. cache.inst \in Insts \cup {NoInst}
  BY DEF Base, SharedOK, Rows
<1>2. next \in PCs
  BY PlacesKnown
<1>3. k \in Locals /\ k.row = c /\ k.next = next /\ k.tries = l.tries
      /\ k.model = l.model /\ k.target = l.target
  BY <1>1, <1>2 DEF Locals
<1>4. "write" \in Places(p)
  BY DEF Places, RefreshPCs
<1>5. Fits(p, "write", k)
  BY <1>3, <1>4 DEF Fits, InRefresh
<1>6. To(p, "write", k)
  BY DEF Commit
<1> HIDE DEF k
<1> QED
  BY <1>5, <1>6, MoveFits DEF Base, Commit

-----------------------------------------------------------------------------
(* The callers.                                                             *)

\* What the locals of a process have, whatever it does next.
LEMMA LocalsOf ==
  ASSUME Base, NEW p \in Procs
  PROVE  /\ pc[p] \in PCs /\ loc[p] \in Locals
         /\ Fits(p, pc[p], loc[p])
         /\ cache.inst \in Insts \cup {NoInst} /\ cache.model \in Models \cup {NoModel}
BY DEF Base, SharedOK, ProcsOK, Rows

LEMMA BoundsKnown ==
  MaxOuter \in Nat /\ MaxOuter > 0 /\ MaxRefresh \in Nat /\ MaxCalls \in Nat /\ MaxEvents \in Nat
BY SessionAssumption

LEMMA OneMore ==
  ASSUME NEW n \in Nat, NEW k \in 0 .. n, k < n
  PROVE  k + 1 \in 0 .. n
OBVIOUS

LEMMA EventsCounted ==
  ASSUME Base, NoEvent \/ \E k \in AllEnvOps \cup {"answer"} : Event(k)
  PROVE  events' \in 0 .. MaxEvents
<1>1. events \in 0 .. MaxEvents
  BY DEF Base, SharedOK
<1>2. CASE NoEvent
  BY <1>1, <1>2 DEF NoEvent
<1>3. CASE \E k \in AllEnvOps \cup {"answer"} : Event(k)
  <2>1. events < MaxEvents /\ events' = events + 1
    BY <1>3 DEF Event
  <2> QED
    BY <1>1, <2>1, BoundsKnown, OneMore
<1> QED
  BY <1>2, <1>3

\* Nothing but the counters of the environment and the flight moves.
LEMMA SharedStays ==
  ASSUME Base, UNCHANGED <<cache, store, persist, upVars, tried, unav>>,
         flight' \in Callers \cup {ReAdmit, NoProc}, ferr' \in {"", "err", "ctx"},
         events' \in 0 .. MaxEvents, calls' \in 0 .. MaxCalls
  PROVE  SharedOK'
BY DEF Base, SharedOK, RowSound, upVars

LEMMA SharedKept ==
  ASSUME Base, UNCHANGED <<cache, store, persist, upVars, flight, ferr, memVars>>
  PROVE  SharedOK'
BY DEF Base, SharedOK, RowSound, upVars, memVars

LEMMA EnsureBase ==
  ASSUME Base, NEW p \in Callers, Ensure(p)
  PROVE  Base'
<1>1. PICK m \in Models : To(p, "top", [NoLoc EXCEPT !.model = m])
  BY DEF Ensure
<1>2. Fits(p, "top", [NoLoc EXCEPT !.model = m])
  BY NoLocFits DEF Fits, Places, Locals, InRefresh, RefreshPCs
<1>3. ProcsOK'
  BY <1>1, <1>2, MoveFits DEF Base, Procs
<1>4. calls' \in 0 .. MaxCalls
  <2>1. calls \in 0 .. MaxCalls /\ calls < MaxCalls /\ calls' = calls + 1
    BY DEF Ensure, Base, SharedOK
  <2> QED
    BY <2>1, BoundsKnown, OneMore
<1>5. SharedOK'
  BY <1>4, SharedStays DEF Ensure, Base, SharedOK
<1> QED
  BY <1>3, <1>5 DEF Base

\* A caller goes round the loop.
LEMMA AgainFits ==
  ASSUME Base, NEW p \in Callers, pc[p] \in {"woken", "trust"}, Again(p)
  PROVE  ProcsOK'
<1> DEFINE l == [NoLoc EXCEPT !.model = loc[p].model, !.tries = loc[p].tries + 1]
<1>1. loc[p] \in Locals /\ loc[p].tries < MaxOuter /\ loc[p].model \in Models
  BY LocalsOf DEF Procs, Fits
<1>4. loc[p].tries + 1 \in 0 .. MaxOuter /\ loc[p].model \in Models
  <2>1. loc[p].tries \in 0 .. MaxOuter /\ loc[p].model \in Models
    BY <1>1 DEF Locals
  <2> QED
    BY <1>1, <2>1, BoundsKnown, OneMore
<1>2. l \in Locals /\ l.model \in Models
  BY <1>4, NoLocFits DEF Locals
<1>3. Fits(p, "top", l)
  BY <1>2 DEF Fits, Places, InRefresh, RefreshPCs
<1> QED
  BY <1>3, MoveFits DEF Again, Base, Procs

\* A caller is given the cached instance.
LEMMA RideFits ==
  ASSUME Base, NEW p \in Callers, Ride(p)
  PROVE  ProcsOK'
<1> DEFINE l == [NoLoc EXCEPT !.inst = cache.inst]
<1>1. l \in Locals /\ l.tries < MaxOuter
  BY NoLocFits, LocalsOf DEF Locals, Procs
<1>2. Fits(p, "turn", l)
  BY <1>1 DEF Fits, Places, InRefresh, RefreshPCs
<1> QED
  BY <1>2, MoveFits DEF Ride, Base, Procs

LEMMA TriggerFits ==
  ASSUME Base, NEW p \in Callers, Trigger(p)
  PROVE  ProcsOK'
<1> DEFINE r == [NoLoc EXCEPT !.model = loc[p].model, !.target = loc[p].model]
           l == [loc[p] EXCEPT !.tries = @ + 1]
<1>1. pc[p] = "top" /\ loc[p].tries < MaxOuter /\ loc[p] \in Locals /\ p \in Procs
      /\ loc[p].model \in Models
  BY LocalsOf DEF Trigger, AtTop, MaySpin, Procs, Fits
<1>6. loc[p].tries + 1 \in 0 .. MaxOuter /\ loc[p].model \in Models
  <2>1. loc[p].tries \in 0 .. MaxOuter /\ loc[p].model \in Models
    BY <1>1 DEF Locals
  <2> QED
    BY <1>1, <2>1, BoundsKnown, OneMore
<1>7. r \in Locals /\ r.tries < MaxOuter /\ r.model \in Models /\ r.target \in Models
  BY <1>6, NoLocFits DEF Locals
<1>2. l \in Locals /\ l.model = loc[p].model
  BY <1>1, <1>6 DEF Locals
<1>3. Fits(p, "top", l) /\ Fits(ReAdmit, "short", r)
  BY <1>1, <1>2, <1>7, ProcsDiffer DEF Fits, Places, InRefresh, RefreshPCs
<1>4. /\ pc' = [pc EXCEPT ![ReAdmit] = "short"]
      /\ loc' = [loc EXCEPT ![ReAdmit] = r, ![p] = l]
      /\ p # ReAdmit
  BY ProcsDiffer DEF Trigger
<1>5. /\ pc' \in [Procs -> PCs] /\ loc' \in [Procs -> Locals]
      /\ pc'[ReAdmit] = "short" /\ loc'[ReAdmit] = r /\ pc'[p] = "top" /\ loc'[p] = l
      /\ \A q \in Procs : q \notin {p, ReAdmit} => pc'[q] = pc[q] /\ loc'[q] = loc[q]
  BY <1>1, <1>2, <1>4, <1>7 DEF Base, ProcsOK, Procs, PCs, RefreshPCs
<1> HIDE DEF r, l
<1>8. ASSUME NEW q \in Procs PROVE Fits(q, pc'[q], loc'[q])
  BY <1>3, <1>5 DEF Base, ProcsOK
<1> QED
  BY <1>5, <1>8 DEF ProcsOK

\* A landed flight leaves everybody in a place that fits.
LEMMA LandFits ==
  ASSUME Base, NEW p \in Callers \cup {ReAdmit}, Land(p)
  PROVE  ProcsOK'
<1> DEFINE k == [NoLoc EXCEPT !.model = loc[p].model, !.tries = loc[p].tries]
           over == p = ReAdmit \/ loc[p].ans \in {"err", "ctx"}
           l == IF over THEN NoLoc ELSE k
<1>1. pc[p] = "land" /\ loc[p] \in Locals /\ loc[p].tries < MaxOuter /\ p \in Procs
      /\ loc[p].model \in Models
  BY LocalsOf DEF Land, Procs, Fits, InRefresh, RefreshPCs
<1>2. k \in Locals /\ k.tries < MaxOuter /\ k.model \in Models
  BY <1>1, NoLocFits DEF Locals
<1>3. l \in Locals /\ l.tries < MaxOuter /\ (~over => l.model \in Models)
  BY <1>2, NoLocFits
<1>4. pc' = [q \in Procs |-> CASE q = p -> IF over THEN "idle" ELSE "trust"
                              [] pc[q] = "parked" -> "woken"
                              [] OTHER -> pc[q]]
      /\ loc' = [loc EXCEPT ![p] = l]
  BY DEF Land
<1> HIDE DEF k, l
<1>5. /\ pc'[p] = IF over THEN "idle" ELSE "trust"
      /\ loc'[p] = l
      /\ \A q \in Procs : q # p => /\ pc'[q] = (IF pc[q] = "parked" THEN "woken" ELSE pc[q])
                                   /\ loc'[q] = loc[q]
  BY <1>1, <1>4 DEF Base, ProcsOK
<1>6. Fits(p, pc'[p], loc'[p])
  BY <1>3, <1>5 DEF Fits, Places, InRefresh, RefreshPCs
<1>7. ASSUME NEW q \in Procs, q # p PROVE Fits(q, pc'[q], loc'[q])
  <2>1. Fits(q, pc[q], loc[q])
    BY DEF Base, ProcsOK
  <2>2. CASE pc[q] = "parked"
    <3>1. q \in Callers
      BY <2>1, <2>2 DEF Fits, Places, InRefresh, RefreshPCs
    <3> QED
      BY <1>5, <1>7, <2>1, <2>2, <3>1 DEF Fits, Places, InRefresh, RefreshPCs
  <2>3. CASE pc[q] # "parked"
    BY <1>5, <1>7, <2>1, <2>3
  <2> QED
    BY <2>2, <2>3
<1>8. /\ \A q \in Procs : Fits(q, pc'[q], loc'[q])
      /\ pc' \in [Procs -> PCs]
      /\ loc' \in [Procs -> Locals]
  <2>1. \A q \in Procs : Fits(q, pc'[q], loc'[q])
    BY <1>6, <1>7
  <2>2. \A q \in Procs : pc'[q] \in PCs /\ loc'[q] \in Locals
    BY <2>1, PlacesKnown DEF Fits
  <2> QED
    BY <1>4, <2>1, <2>2 DEF Base, ProcsOK
<1> QED
  BY <1>8 DEF ProcsOK

LEMMA CallerBase ==
  ASSUME Base, NEW p \in Callers, CallerStep(p) \/ (TurnOver(p) \/ Land(p))
  PROVE  Base'
<1>1. /\ p \in Procs /\ loc[p] \in Locals /\ Fits(p, pc[p], loc[p])
      /\ pc[p] = "top" => loc[p].model \in Models
  BY LocalsOf DEF Procs, Fits
<1>2. CASE GiveUp(p) \/ NoSession(p) \/ TurnOver(p)
  <2>1. Out(p)
    BY <1>2 DEF GiveUp, NoSession, TurnOver
  <2>2. CASE GiveUp(p)
    <3>1. events' \in 0 .. MaxEvents
      BY <2>2, EventsCounted DEF GiveUp, AllEnvOps
    <3>2. SharedOK'
      BY <2>2, <3>1, SharedStays DEF GiveUp, Base, SharedOK
    <3> QED
      BY <1>1, <2>1, <3>2, OutFits DEF Base
  <2>3. CASE NoSession(p) \/ TurnOver(p)
    BY <1>1, <2>1, <2>3, SharedKept, OutFits DEF NoSession, TurnOver, Base
  <2> QED
    BY <1>2, <2>2, <2>3
<1>3. CASE Reuse(p)
  BY <1>3, RideFits, SharedKept DEF Reuse, Base
<1>4. CASE Trigger(p)
  <2>1. cache.inst \in Insts \cup {NoInst}
    BY LocalsOf DEF Procs
  <2>2. SharedOK'
    BY <1>4, <2>1 DEF Trigger, Base, SharedOK, RowSound, upVars
  <2> QED
    BY <1>4, <2>2, TriggerFits DEF Base
<1>5. CASE Park(p)
  <2>1. Fits(p, "parked", loc[p])
    BY <1>1, <1>5 DEF Park, AtTop, MaySpin, Fits, Places, InRefresh, RefreshPCs
  <2>2. SharedOK'
    BY <1>5, SharedKept DEF Park
  <2> QED
    BY <1>1, <1>5, <2>1, <2>2, MoveFits DEF Park, Base
<1>6. CASE Refresh(p)
  <2>1. [loc[p] EXCEPT !.target = loc[p].model] \in Locals
    BY <1>1 DEF Locals
  <2>2. /\ [loc[p] EXCEPT !.target = loc[p].model].tries < MaxOuter
        /\ [loc[p] EXCEPT !.target = loc[p].model].target \in Models
        /\ [loc[p] EXCEPT !.target = loc[p].model].model \in Models
    BY <1>1, <1>6 DEF Refresh, AtTop, MaySpin, Locals
  <2>3. Fits(p, "short", [loc[p] EXCEPT !.target = loc[p].model])
    BY <2>1, <2>2 DEF Fits, Places, InRefresh, RefreshPCs
  <2>4. SharedOK'
    BY <1>6, SharedStays DEF Refresh, Base, SharedOK, memVars
  <2> QED
    BY <1>1, <1>6, <2>3, <2>4, MoveFits DEF Refresh, Base
<1>7. CASE Wake(p) \/ Trust(p)
  <2>1. SharedOK'
    BY <1>7, SharedKept DEF Wake, Trust
  <2>2. Again(p) \/ Ride(p) \/ Out(p)
    BY <1>7 DEF Wake, Trust
  <2>3. pc[p] \in {"woken", "trust"}
    BY <1>7 DEF Wake, Trust
  <2> QED
    BY <1>1, <2>1, <2>2, <2>3, AgainFits, RideFits, OutFits DEF Base
<1>8. CASE Land(p)
  <2>1. SharedOK'
    BY <1>8, SharedStays DEF Land, Base, SharedOK, Locals, memVars
  <2> QED
    BY <1>8, <2>1, LandFits DEF Base
<1> QED
  BY <1>2, <1>3, <1>4, <1>5, <1>6, <1>7, <1>8 DEF CallerStep

-----------------------------------------------------------------------------
(* The refresh.                                                             *)

LEMMA RefresherOf ==
  ASSUME Base, NEW p \in Callers \cup {ReAdmit}
  PROVE  /\ p \in Procs /\ loc[p] \in Locals /\ Fits(p, pc[p], loc[p])
         /\ RefreshPCs \subseteq Places(p)
         /\ {"loop", "post", "unlock", "land"} \subseteq Returns(p)
BY LocalsOf DEF Procs, Places, Returns, RefreshPCs

\* Locals with the attempts and models of others, or on to the fallback model.
Same(l, k) == /\ l.tries = k.tries /\ l.model = k.model
              /\ l.target \in {k.target, Fallback}

\* Other locals with the same count of attempts fit where no instance is used.
LEMMA StayFits ==
  ASSUME Base, NEW p \in Callers \cup {ReAdmit}, pc[p] \in RefreshPCs \ {"write"},
         NEW s \in RefreshPCs \ {"get", "resume", "answer", "write"}, NEW l \in Locals,
         Same(l, loc[p]), To(p, s, l)
  PROVE  ProcsOK'
<1>1. Fits(p, s, l)
  BY RefresherOf, SessionAssumption DEF Fits, Same, InRefresh, RefreshPCs
<1> QED
  BY <1>1, RefresherOf, MoveFits DEF Base

LEMMA FinishFits ==
  ASSUME Base, NEW p \in Callers \cup {ReAdmit}, pc[p] \in RefreshPCs \ {"write"},
         NEW ans \in Answers \cup {""}, Finish(p, ans)
  PROVE  ProcsOK'
<1> DEFINE l == [loc[p] EXCEPT !.ans = ans, !.inst = NoInst, !.row = NoRow]
<1>1. l \in Locals /\ Same(l, loc[p])
  BY RefresherOf, NoRowFits DEF Same, Locals
<1>2. To(p, "land", l)
  BY DEF Finish
<1> HIDE DEF l
<1> QED
  BY <1>1, <1>2, StayFits DEF RefreshPCs

LEMMA AnswerFits ==
  ASSUME Base, NEW p \in Callers \cup {ReAdmit}, pc[p] \in RefreshPCs \ {"write"},
         NEW ans \in Answers, NEW i \in Insts \cup {NoInst},
         ans \in {"active", "queued"} => i \in Insts, Answer(p, ans, i)
  PROVE  ProcsOK'
<1> DEFINE l == [loc[p] EXCEPT !.ans = ans, !.inst = i]
<1>1. l \in Locals /\ Same(l, loc[p]) /\ l.inst = i /\ l.ans = ans
  BY RefresherOf DEF Same, Locals
<1>2. To(p, "answer", l)
  BY DEF Answer
<1> HIDE DEF l
<1>3. Fits(p, "answer", l)
  BY <1>1, RefresherOf, SessionAssumption DEF Fits, Same, InRefresh, RefreshPCs
<1> QED
  BY <1>2, <1>3, RefresherOf, MoveFits DEF Base

LEMMA LoopFits ==
  ASSUME NEW l \in Locals
  PROVE  Loop(l) \in Locals /\ Same(Loop(l), l)
BY DEF Loop, Same, Locals

\* A commit by a refresher moves nothing but the cache.
LEMMA RefreshCommits ==
  ASSUME Base, NEW p \in Callers \cup {ReAdmit}, pc[p] \in RefreshPCs \ {"write"},
         NEW c \in Rows, RowSound(c), NEW next \in {"loop", "post", "unlock", "land"},
         NEW l \in Locals, Same(l, loc[p]), Commit(p, c, next, l),
         UNCHANGED <<store, upVars, flight, ferr, tried, events, calls>>,
         unav' \subseteq Models
  PROVE  Base'
<1>1. l.tries < MaxOuter /\ p \in Procs /\ next \in Returns(p)
      /\ l.model \in Models /\ l.target \in Models
  BY RefresherOf, SessionAssumption DEF Fits, Same, InRefresh, RefreshPCs
<1>2. ProcsOK' /\ cache' = c /\ persist' = p
  BY <1>1, CommitFits
<1>3. SharedOK'
  BY <1>1, <1>2 DEF Base, SharedOK, RowSound, upVars
<1> QED
  BY <1>2, <1>3 DEF Base

LEMMA WriteBase ==
  ASSUME Base, NEW p \in Procs, Write(p)
  PROVE  Base'
<1> DEFINE l == [loc[p] EXCEPT !.row = NoRow, !.drop = NoInst, !.next = "idle"]
<1>1. /\ pc[p] = "write" /\ loc[p] \in Locals /\ Fits(p, pc[p], loc[p])
      /\ loc[p].next \in Returns(p) /\ RowSound(loc[p].row) /\ loc[p].row \in Rows
  BY LocalsOf DEF Write, Fits, Locals
<1>2. SharedOK'
  BY ZenonT(60), <1>1, NoRowFits DEF Write, Base, SharedOK, RowSound, upVars, memVars
<1>3. CASE loc[p].next = "idle"
  BY <1>2, <1>3, OutFits DEF Write, Base
<1>4. CASE loc[p].next # "idle"
  <2>1. l \in Locals /\ Same(l, loc[p])
    BY <1>1, NoRowFits DEF Same, Locals, PCs
  <2>2. loc[p].next \in Places(p) \ {"top", "parked", "woken", "trust", "get", "resume", "polled",
                                       "answer", "write"}
    BY <1>1, <1>4 DEF Returns, Places, RefreshPCs
  <2>3. To(p, loc[p].next, l)
    BY <1>4 DEF Write
  <2> HIDE DEF l
  <2>4. Fits(p, loc[p].next, l)
    BY <1>1, <2>1, <2>2, SessionAssumption DEF Fits, Same, InRefresh, RefreshPCs
  <2> QED
    BY <1>2, <2>3, <2>4, MoveFits DEF Base
<1> QED
  BY <1>3, <1>4

LEMMA ShortBase ==
  ASSUME Base, NEW p \in Callers \cup {ReAdmit},
         ShortPass(p) \/ ShortReuse(p) \/ ShortDrop(p) \/ Stop(p)
  PROVE  Base'
<1>1. CASE ShortPass(p)
  <2>1. ProcsOK'
    BY <1>1, StayFits, RefresherOf DEF ShortPass, Same, RefreshPCs
  <2> QED
    BY <1>1, <2>1, SharedKept DEF ShortPass, Base
<1>2. CASE ShortReuse(p)
  <2>1. ProcsOK'
    BY <1>2, FinishFits DEF ShortReuse, RefreshPCs
  <2> QED
    BY <1>2, <2>1, SharedKept DEF ShortReuse, Base
<1>3. CASE ShortDrop(p)
  <2>1. /\ [loc[p] EXCEPT !.target = Fallback] \in Locals
        /\ Same([loc[p] EXCEPT !.target = Fallback], loc[p])
    BY ZenonT(60), RefresherOf, SessionAssumption DEF Same, Locals
  <2>2. unav' \subseteq Models
    BY <1>3 DEF ShortDrop, memVars, Base, SharedOK
  <2> QED
    BY <1>3, <2>1, <2>2, NoRowFits, RefreshCommits DEF ShortDrop, RefreshPCs, memVars
<1>4. CASE Stop(p)
  <2>1. ProcsOK'
    BY <1>4, FinishFits DEF Stop, RefreshPCs, Answers
  <2>2. events' \in 0 .. MaxEvents
    BY <1>4, EventsCounted DEF Stop, AllEnvOps
  <2>3. SharedOK'
    BY <1>4, <2>2, SharedStays DEF Stop, Base, SharedOK
  <2> QED
    BY <2>1, <2>3 DEF Base
<1> QED
  BY <1>1, <1>2, <1>3, <1>4

LEMMA RoundBase ==
  ASSUME Base, NEW p \in Callers \cup {ReAdmit}, Round(p)
  PROVE  Base'
<1> DEFINE l == [loc[p] EXCEPT !.iter = @ + 1]
           at(i) == [l EXCEPT !.inst = i]
<1>1. loc[p] \in Locals /\ pc[p] = "loop" /\ p \in Procs
  BY RefresherOf DEF Round
<1>2. loc[p].iter + 1 \in 0 .. MaxRefresh
  <2>1. loc[p].iter \in 0 .. MaxRefresh /\ loc[p].iter < MaxRefresh
    BY <1>1 DEF Round, MayLoop, Locals
  <2> QED
    BY <2>1, BoundsKnown, OneMore
<1>3. l \in Locals /\ Same(l, loc[p])
  BY <1>1, <1>2 DEF Same, Locals
<1>4. ASSUME NEW i \in Insts \cup {NoInst}
      PROVE  at(i) \in Locals /\ Same(at(i), loc[p]) /\ at(i).inst = i
  BY <1>1, <1>2 DEF Same, Locals
<1>5. /\ cache.inst \in Insts \cup {NoInst} /\ store.inst \in Insts \cup {NoInst}
      /\ cache.st = "queued" => cache.inst \in Insts
      /\ store.st = "active" => store.inst \in Insts
  BY DEF Base, SharedOK, RowSound, Rows
<1>6. /\ UNCHANGED <<cache, persist, upVars, flight, ferr, memVars>>
      /\ store' \in {store, NoRow}
      /\ \/ cache.st = "queued" /\ To(p, "get", at(cache.inst))
         \/ store.st = "active" /\ To(p, "resume", at(store.inst))
         \/ To(p, "release", at(cache.inst))
         \/ To(p, "post", l)
  BY Zenon DEF Round
<1> HIDE DEF l, at
<1>7. SharedOK'
  BY <1>6, NoRowFits DEF Base, SharedOK, RowSound, upVars, memVars
<1>8. ProcsOK'
  <2>1. /\ loc[p].tries < MaxOuter /\ RefreshPCs \subseteq Places(p)
        /\ loc[p].model \in Models /\ loc[p].target \in Models
    BY <1>1, RefresherOf DEF Fits, InRefresh, RefreshPCs
  <2>2. cache.st = "queued" => Fits(p, "get", at(cache.inst))
    BY SessionAssumption, <1>4, <1>5, <2>1 DEF Fits, Same, InRefresh, RefreshPCs
  <2>3. store.st = "active" => Fits(p, "resume", at(store.inst))
    BY SessionAssumption, <1>4, <1>5, <2>1 DEF Fits, Same, InRefresh, RefreshPCs
  <2>4. Fits(p, "release", at(cache.inst)) /\ Fits(p, "post", l)
    BY SessionAssumption, <1>3, <1>4, <1>5, <2>1 DEF Fits, Same, InRefresh, RefreshPCs
  <2> QED
    BY <1>1, <1>6, <2>2, <2>3, <2>4, MoveFits DEF Base
<1> QED
  BY <1>7, <1>8 DEF Base

\* Only upstream, the store or the counters of the environment move.
LEMMA SharedMoves ==
  ASSUME Base, UNCHANGED <<cache, persist, flight, ferr, tried, calls>>,
         store' \in {store, NoRow},
         age' \in [Insts -> {"unborn", "queued", "fresh", "lead", "grace", "over"}],
         bound' \in [Insts -> Models \cup {NoModel}], live' \in Insts \cup {NoInst},
         unav' \subseteq Models, events' \in 0 .. MaxEvents
  PROVE  SharedOK'
BY NoRowFits DEF Base, SharedOK, RowSound

LEMMA UpTypes ==
  ASSUME Base
  PROVE  /\ age \in [Insts -> {"unborn", "queued", "fresh", "lead", "grace", "over"}]
         /\ bound \in [Insts -> Models \cup {NoModel}] /\ live \in Insts \cup {NoInst}
         /\ unav \subseteq Models /\ events \in 0 .. MaxEvents
BY DEF Base, SharedOK

LEMMA GetBase ==
  ASSUME Base, NEW p \in Callers \cup {ReAdmit}, GetQueued(p)
  PROVE  Base'
<1> DEFINE i == loc[p].inst
<1>1. pc[p] = "get" /\ i \in Insts
  BY RefresherOf DEF GetQueued, Fits
<1>2. \/ Answer(p, "queued", i) \/ Answer(p, "active", i) \/ Answer(p, "gone", i)
      \/ Answer(p, "err", i) \/ Answer(p, "waitreq", i)
  BY DEF GetQueued
<1>3. ProcsOK'
  BY <1>1, <1>2, AnswerFits DEF Answers, RefreshPCs
<1>4. events' \in 0 .. MaxEvents
  <2>1. NoEvent \/ Event("err")
    BY DEF GetQueued
  <2> QED
    BY <2>1, EventsCounted DEF AllEnvOps
<1>5. /\ age' \in [Insts -> {"unborn", "queued", "fresh", "lead", "grace", "over"}]
      /\ bound' = bound /\ live' \in Insts \cup {NoInst}
  BY <1>1, UpTypes DEF GetQueued, upVars
<1>6. UNCHANGED <<cache, store, persist, flight, ferr, tried, unav, calls>>
  BY DEF GetQueued
<1>7. SharedOK'
  BY <1>4, <1>5, <1>6, UpTypes, SharedMoves
<1> QED
  BY <1>3, <1>7 DEF Base

LEMMA ResumeBase ==
  ASSUME Base, NEW p \in Callers \cup {ReAdmit}, Resume(p)
  PROVE  Base'
<1>1. pc[p] = "resume" /\ loc[p].inst \in Insts /\ loc[p] \in Locals
  BY RefresherOf DEF Resume, Fits
<1>2. /\ [loc[p] EXCEPT !.inst = NoInst] \in Locals
      /\ Same([loc[p] EXCEPT !.inst = NoInst], loc[p])
  BY <1>1 DEF Same, Locals
<1>3. \/ Answer(p, "active", loc[p].inst)
      \/ To(p, "post", [loc[p] EXCEPT !.inst = NoInst])
      \/ Finish(p, "err")
  BY DEF Resume
<1>4. ProcsOK'
  BY <1>1, <1>2, <1>3, AnswerFits, StayFits, FinishFits DEF Answers, RefreshPCs
<1>5. events' \in 0 .. MaxEvents
  <2>1. NoEvent \/ Event("err")
    BY DEF Resume
  <2> QED
    BY <2>1, EventsCounted DEF AllEnvOps
<1>6. /\ store' \in {store, NoRow}
      /\ UNCHANGED <<cache, persist, upVars, flight, ferr, tried, unav, calls>>
  BY DEF Resume
<1>7. SharedOK'
  BY <1>5, <1>6, UpTypes, SharedMoves DEF upVars
<1> QED
  BY <1>4, <1>7 DEF Base

LEMMA ReleaseBase ==
  ASSUME Base, NEW p \in Callers \cup {ReAdmit}, Release(p) \/ Unlock(p)
  PROVE  Base'
<1> DEFINE l == [loc[p] EXCEPT !.next = "post"]
           k == [loc[p] EXCEPT !.inst = NoInst]
<1>1. pc[p] \in RefreshPCs \ {"write"} /\ loc[p] \in Locals
  BY RefresherOf DEF Release, Unlock, RefreshPCs
<1>2. /\ l \in Locals /\ Same(l, loc[p]) /\ k \in Locals /\ Same(k, loc[p])
      /\ Loop(loc[p]) \in Locals /\ Same(Loop(loc[p]), loc[p])
  BY ZenonT(60), <1>1, LoopFits DEF Same, Locals, PCs, RefreshPCs
<1>3. To(p, "unlock", l) \/ To(p, "post", k) \/ To(p, "loop", Loop(loc[p]))
  BY DEF Release, Unlock, NextRound
<1> HIDE DEF l, k
<1>4. ProcsOK'
  BY <1>1, <1>2, <1>3, StayFits DEF RefreshPCs
<1>5. live' \in {live, NoInst}
  BY DEF Release, Unlock, Gone
<1>6. NoEvent \/ Event("err")
  BY DEF Release, Unlock, NoEvent, memVars
<1>7. events' \in 0 .. MaxEvents
  BY <1>6, EventsCounted DEF AllEnvOps
<1>8. UNCHANGED <<cache, store, persist, age, bound, flight, ferr, tried, unav, calls>>
  BY DEF Release, Unlock, memVars
<1>9. SharedOK'
  BY <1>5, <1>7, <1>8, UpTypes, SharedMoves
<1> QED
  BY <1>4, <1>9 DEF Base

LEMMA ReleasedBase ==
  ASSUME Base, NEW p \in Callers \cup {ReAdmit}, Released(p)
  PROVE  Base'
<1>1. pc[p] \in RefreshPCs \ {"write"} /\ loc[p] \in Locals /\ Loop(loc[p]) \in Locals
      /\ Same(Loop(loc[p]), loc[p])
  BY RefresherOf, LoopFits DEF Released, RefreshPCs
<1>2. UNCHANGED <<store, upVars, flight, ferr, memVars>> /\ unav' \subseteq Models
  BY UpTypes DEF Released, memVars
<1>3. CASE cache.inst = loc[p].inst
  <2>1. Commit(p, NoRow, "post", Loop(loc[p]))
    BY <1>3 DEF Released
  <2> QED
    BY <1>1, <1>2, <2>1, NoRowFits, RefreshCommits DEF memVars
<1>4. CASE cache.inst # loc[p].inst
  <2> DEFINE l == [Loop(loc[p]) EXCEPT !.next = "idle"]
  <2>1. l \in Locals /\ Same(l, loc[p])
    BY ZenonT(60), <1>1 DEF Same, Locals, PCs
  <2>2. To(p, "post", l) /\ UNCHANGED <<cache, persist>>
    BY <1>4 DEF Released
  <2> HIDE DEF l
  <2>3. ProcsOK'
    BY <1>1, <2>1, <2>2, StayFits DEF RefreshPCs
  <2> QED
    BY <1>2, <2>2, <2>3, SharedKept DEF Base
<1> QED
  BY <1>3, <1>4

LEMMA PostBase ==
  ASSUME Base, NEW p \in Callers \cup {ReAdmit}, Admit(p) \/ Refuse(p)
  PROVE  Base'
<1>1. pc[p] = "post" /\ loc[p].target \in Models \cup {NoModel}
  BY RefresherOf DEF Admit, Refuse, Locals
<1>2. UNCHANGED <<cache, store, persist, flight, ferr, tried, unav, calls>>
  BY DEF Admit, Refuse
<1>3. events' \in 0 .. MaxEvents
  <2>1. NoEvent \/ Event("err") \/ Event("answer")
    BY DEF Admit, Refuse
  <2> QED
    BY <2>1, EventsCounted DEF AllEnvOps
<1>4. CASE Admit(p)
  <2>1. PICK i \in Insts :
          /\ bound' = [bound EXCEPT ![i] = loc[p].target]
          /\ \/ age' = [age EXCEPT ![i] = "fresh"] /\ live' = i /\ Answer(p, "active", i)
             \/ age' = [age EXCEPT ![i] = "queued"] /\ UNCHANGED live /\ Answer(p, "queued", i)
    BY <1>4 DEF Admit
  <2>2. ProcsOK'
    BY <1>1, <2>1, AnswerFits DEF Answers, RefreshPCs
  <2>3. SharedOK'
    BY <1>1, <1>2, <1>3, <2>1, UpTypes, SharedMoves
  <2> QED
    BY <2>2, <2>3 DEF Base
<1>5. CASE Refuse(p)
  <2>1. UNCHANGED upVars
    BY <1>5 DEF Refuse
  <2>2. PICK a \in {"gone", "refused", "disabled", "ended", "locked", "unavail", "err"},
            i \in Insts \cup {NoInst} : Answer(p, a, i)
    BY <1>5, UpTypes DEF Refuse
  <2>3. ProcsOK'
    BY <1>1, <2>2, AnswerFits DEF Answers, RefreshPCs
  <2>4. SharedOK'
    BY <1>2, <1>3, <2>1, UpTypes, SharedMoves DEF upVars
  <2> QED
    BY <2>3, <2>4 DEF Base
<1> QED
  BY <1>4, <1>5

LEMMA RowFits ==
  ASSUME Base, NEW st \in {"active", "ended", "queued"}, NEW i \in Insts,
         NEW m \in Models \cup {NoModel}
  PROVE  /\ Row(st, i, m) \in Rows /\ RowSound(Row(st, i, m))
         /\ bound[i] \in Models \cup {NoModel}
<1>1. bound[i] \in Models \cup {NoModel}
  BY UpTypes
<1>2. i # NoInst
  BY SessionAssumption
<1> QED
  BY <1>1, <1>2 DEF Row, Rows, RowSound

LEMMA AnswerBase ==
  ASSUME Base, NEW p \in Callers \cup {ReAdmit},
         \/ Failed(p) \/ WaitingRoomGone(p) \/ Admitted(p) \/ Queued(p) \/ Ended(p)
         \/ Locked(p) \/ Unavailable(p)
  PROVE  Base'
<1>1. /\ pc[p] = "answer" /\ loc[p] \in Locals
      /\ loc[p].inst \in Insts \cup {NoInst}
      /\ loc[p].ans \in {"active", "queued"} => loc[p].inst \in Insts
  BY RefresherOf DEF Fits, Locals, Failed, WaitingRoomGone, Admitted, Queued, Ended, Locked,
                     Unavailable
<1>2. Loop(loc[p]) \in Locals /\ Same(Loop(loc[p]), loc[p])
  BY <1>1, LoopFits
<1>3. /\ UNCHANGED <<store, upVars, flight, ferr, tried, events, calls>>
      /\ unav' \subseteq Models \/ Unavailable(p)
  BY UpTypes DEF Failed, WaitingRoomGone, Admitted, Queued, Ended, Locked, Unavailable, memVars
<1>4. ASSUME NEW a \in {"", "err"}, Finish(p, a), UNCHANGED <<cache, persist, unav>>
      PROVE  Base'
  <2>1. ProcsOK'
    BY <1>1, <1>4, FinishFits DEF Answers, RefreshPCs
  <2>2. SharedOK'
    BY <1>3, <1>4, SharedKept DEF memVars
  <2> QED
    BY <2>1, <2>2 DEF Base
<1>5. ASSUME NEW c \in Rows, RowSound(c), NEW next \in {"loop", "post", "unlock", "land"},
             NEW l \in Locals, Same(l, loc[p]), Commit(p, c, next, l), unav' \subseteq Models
      PROVE  Base'
  BY <1>1, <1>3, <1>5, RefreshCommits DEF RefreshPCs
<1>6. CASE Failed(p)
  BY <1>4, <1>6 DEF Failed, memVars
<1>7. CASE WaitingRoomGone(p)
  <2>1. /\ [Loop(loc[p]) EXCEPT !.ans = "err"] \in Locals
        /\ Same([Loop(loc[p]) EXCEPT !.ans = "err"], loc[p])
    BY <1>2 DEF Same, Locals, Answers
  <2> QED
    BY <1>3, <1>4, <1>5, <1>7, <2>1, NoRowFits, UpTypes DEF WaitingRoomGone, memVars
<1>8. CASE Admitted(p)
  <2>1. CASE loc[p].ans = "active"
    <3>1. bound[loc[p].inst] \in Models \cup {NoModel}
      BY <1>1, <2>1, UpTypes
    <3>2. Commit(p, Row("active", loc[p].inst, bound[loc[p].inst]), "land", Loop(loc[p]))
      BY <1>8, <2>1 DEF Admitted
    <3> QED
      BY <1>1, <1>2, <1>5, <1>8, <2>1, <3>1, <3>2, RowFits, UpTypes DEF Admitted, memVars
  <2>2. CASE loc[p].ans # "active"
    <3>1. Row("disabled", NoInst, NoModel) \in Rows /\ RowSound(Row("disabled", NoInst, NoModel))
      BY DEF Row, Rows, RowSound
    <3>2. Commit(p, Row("disabled", NoInst, NoModel), "land", Loop(loc[p]))
      BY <1>8, <2>2 DEF Admitted
    <3> QED
      BY <1>2, <1>5, <1>8, <3>1, <3>2, UpTypes DEF Admitted, memVars
  <2> QED
    BY <2>1, <2>2
<1>9. CASE Queued(p)
  <2>1. CASE Preemptive(p)
    BY <1>4, <1>9, <2>1 DEF Queued, memVars
  <2>2. CASE ~Preemptive(p)
    <3>1. loc[p].inst \in Insts /\ bound[loc[p].inst] \in Models \cup {NoModel}
      BY <1>1, <1>9, UpTypes DEF Queued
    <3>2. Commit(p, Row("queued", loc[p].inst, bound[loc[p].inst]), "land", Loop(loc[p]))
      BY <1>9, <2>2 DEF Queued
    <3> QED
      BY <1>2, <1>5, <1>9, <3>1, <3>2, RowFits, UpTypes DEF Queued, memVars
  <2> QED
    BY <2>1, <2>2
<1>10. CASE Ended(p)
  <2>1. CASE Preemptive(p)
    BY <1>4, <1>10, <2>1 DEF Ended, memVars
  <2>2. CASE ~Preemptive(p) /\ loc[p].ans = "ended" /\ InGrace(loc[p].inst)
    <3>1. loc[p].inst \in Insts /\ bound[loc[p].inst] \in Models \cup {NoModel}
      BY <1>1, <2>2, UpTypes DEF InGrace
    <3>2. Commit(p, Row("ended", loc[p].inst, bound[loc[p].inst]), "land", Loop(loc[p]))
      BY <1>10, <2>2 DEF Ended
    <3> QED
      BY <1>2, <1>5, <1>10, <3>1, <3>2, RowFits, UpTypes DEF Ended, memVars
  <2>3. CASE ~Preemptive(p) /\ ~(loc[p].ans = "ended" /\ InGrace(loc[p].inst))
    <3>1. Commit(p, NoRow, "loop", Loop(loc[p]))
      BY <1>10, <2>3 DEF Ended
    <3> QED
      BY <1>2, <1>5, <1>10, <3>1, NoRowFits, UpTypes DEF Ended, memVars
  <2> QED
    BY <2>1, <2>2, <2>3
<1>11. CASE Locked(p)
  <2> DEFINE l == [loc[p] EXCEPT !.inst = IF @ = NoInst THEN cache.inst ELSE @]
  <2>1. cache.inst \in Insts \cup {NoInst}
    BY RefresherOf, LocalsOf
  <2>2. l \in Locals /\ Same(l, loc[p])
    BY <1>1, <2>1 DEF Same, Locals
  <2>3. Commit(p, NoRow, "unlock", l) /\ unav' \subseteq Models
    BY <1>11, UpTypes DEF Locked, memVars
  <2> HIDE DEF l
  <2> QED
    BY <1>5, <2>2, <2>3, NoRowFits
<1>12. CASE Unavailable(p)
  <2> DEFINE l == [Loop(loc[p]) EXCEPT !.target = Fallback]
  <2>1. l \in Locals /\ Same(l, loc[p])
    BY <1>2, SessionAssumption DEF Same, Locals
  <2>2. Commit(p, NoRow, "loop", l)
    BY <1>12 DEF Unavailable
  <2> HIDE DEF l
  <2>3. unav' \subseteq Models
    BY <1>1, <1>12, RefresherOf, UpTypes DEF Unavailable, Fits, InRefresh, RefreshPCs
  <2> QED
    BY <1>5, <2>1, <2>2, <2>3, NoRowFits
<1> QED
  BY <1>6, <1>7, <1>8, <1>9, <1>10, <1>11, <1>12

-----------------------------------------------------------------------------
(* The turn, the poll, the end of the session, and what happens outside.    *)

\* A commit outside the refresh.
LEMMA OtherCommits ==
  ASSUME Base, NEW p \in Procs, NEW c \in Rows, RowSound(c),
         NEW next \in Returns(p) \ RefreshPCs, NEW l \in Locals, l.tries < MaxOuter,
         Commit(p, c, next, l),
         UNCHANGED <<store, upVars, flight, ferr, tried, unav, calls>>,
         events' \in 0 .. MaxEvents
  PROVE  Base'
<1>1. ProcsOK' /\ cache' = c /\ persist' = p
  BY CommitFits
<1>2. SharedOK'
  BY <1>1 DEF Base, SharedOK, RowSound, upVars
<1> QED
  BY <1>1, <1>2 DEF Base

LEMMA DisownBase ==
  ASSUME Base, NEW p \in Callers, Disown(p)
  PROVE  Base'
<1>1. "idle" \in Returns(p) \ RefreshPCs /\ p \in Procs
  BY DEF Returns, RefreshPCs, Procs
<1>2. Commit(p, NoRow, "idle", NoLoc)
  BY DEF Disown
<1>3. UNCHANGED <<store, upVars, flight, ferr, tried, unav, calls>> /\ events' \in 0 .. MaxEvents
  BY UpTypes DEF Disown, memVars
<1> QED
  BY <1>1, <1>2, <1>3, NoLocFits, NoRowFits, OtherCommits

LEMMA PollerHere ==
  /\ Poller \in Procs /\ Ender \in Procs
  /\ Places(Poller) = {"idle", "polled", "write", "logged", "panic"}
  /\ Places(Ender) = {"idle", "write", "delete"}
  /\ {"idle", "logged"} \subseteq Returns(Poller) \ RefreshPCs
  /\ {"idle", "delete"} \subseteq Returns(Ender) \ RefreshPCs
BY ProcsDiffer DEF Procs, Places, Returns, RefreshPCs

LEMMA PollBase ==
  ASSUME Base, PollGet \/ PollCommit \/ PollLog
  PROVE  Base'
<1>1. /\ loc[Poller] \in Locals /\ Fits(Poller, pc[Poller], loc[Poller])
      /\ cache.inst \in Insts \cup {NoInst} /\ cache.model \in Models \cup {NoModel}
  BY PollerHere, LocalsOf
<1>2. CASE PollGet
  <2>1. PICK a \in {"active", "ended", "gone"} :
          IF a = "active" THEN Out(Poller)
          ELSE To(Poller, "polled", [NoLoc EXCEPT !.inst = cache.inst, !.ans = a])
    BY <1>2 DEF PollGet
  <2> DEFINE l == [NoLoc EXCEPT !.inst = cache.inst, !.ans = a]
  <2>2. cache.inst \in Insts
    BY <1>1, <1>2 DEF PollGet
  <2>3. l \in Locals /\ l.tries < MaxOuter /\ l.inst = cache.inst
    BY <2>2, NoLocFits DEF Locals, Answers
  <2>4. Fits(Poller, "polled", l)
    BY <2>2, <2>3, PollerHere DEF Fits, InRefresh, RefreshPCs
  <2>5. ProcsOK'
    BY <2>1, <2>4, PollerHere, OutFits, MoveFits DEF Base
  <2>6. events' \in 0 .. MaxEvents
    BY <1>2, EventsCounted DEF PollGet, AllEnvOps
  <2>7. SharedOK'
    BY <1>2, <2>6, SharedStays DEF PollGet, Base, SharedOK
  <2> QED
    BY <2>5, <2>7 DEF Base
<1>3. CASE PollCommit
  <2>1. /\ loc[Poller].inst \in Insts /\ loc[Poller].tries < MaxOuter
        /\ UNCHANGED <<store, upVars, flight, ferr, tried, unav, calls>> /\ events' \in 0 .. MaxEvents
    BY <1>1, <1>3, UpTypes DEF PollCommit, Fits, memVars
  <2>2. CASE cache.inst # loc[Poller].inst
    <3>1. ProcsOK'
      BY <1>3, <2>2, PollerHere, OutFits DEF PollCommit, Base
    <3>2. SharedOK'
      BY <1>3, <2>2, SharedKept DEF PollCommit
    <3> QED
      BY <3>1, <3>2 DEF Base
  <2>3. CASE cache.inst = loc[Poller].inst
    <3> DEFINE c == Row("ended", loc[Poller].inst, cache.model)
    <3>1. c \in Rows /\ RowSound(c)
      BY <1>1, <2>1, RowFits
    <3>2. \/ Commit(Poller, c, "logged", loc[Poller])
          \/ Commit(Poller, NoRow, "idle", NoLoc)
      BY <1>3, <2>3 DEF PollCommit
    <3> HIDE DEF c
    <3> QED
      BY <1>1, <2>1, <3>1, <3>2, PollerHere, NoRowFits, NoLocFits, OtherCommits
  <2> QED
    BY <2>2, <2>3
<1>4. CASE PollLog
  <2>1. Fits(Poller, "panic", NoLoc)
    BY NoLocFits, PollerHere DEF Fits, InRefresh, RefreshPCs
  <2>2. ProcsOK'
    BY <1>4, <2>1, PollerHere, OutFits, MoveFits DEF PollLog, Base
  <2>3. SharedOK'
    BY <1>4, SharedKept DEF PollLog
  <2> QED
    BY <2>2, <2>3 DEF Base
<1> QED
  BY <1>2, <1>3, <1>4

LEMMA EndBase ==
  ASSUME Base, EndSession \/ Delete \/ ClearQueued
  PROVE  Base'
<1>1. CASE Delete
  <2>1. ProcsOK'
    BY <1>1, PollerHere, OutFits DEF Delete, Base
  <2>2. live' \in {live, NoInst}
    BY <1>1 DEF Delete, Gone
  <2>3. SharedOK'
    BY <1>1, <2>2, UpTypes, SharedMoves DEF Delete, memVars
  <2> QED
    BY <2>1, <2>3 DEF Base
<1>2. CASE EndSession \/ ClearQueued
  <2> DEFINE l == [NoLoc EXCEPT !.inst = live]
  <2>1. l \in Locals /\ l.tries < MaxOuter
    BY NoLocFits, UpTypes DEF Locals
  <2>2. \/ Commit(Ender, NoRow, "delete", l)
        \/ Commit(Ender, NoRow, "idle", NoLoc)
    BY <1>2 DEF EndSession, ClearQueued
  <2>3. events' \in 0 .. MaxEvents
    BY <1>2, EventsCounted DEF EndSession, ClearQueued, AllEnvOps
  <2>4. UNCHANGED <<store, upVars, flight, ferr, tried, unav, calls>>
    BY <1>2 DEF EndSession, ClearQueued
  <2> HIDE DEF l
  <2> QED
    BY <2>1, <2>2, <2>3, <2>4, PollerHere, NoRowFits, NoLocFits, OtherCommits
<1> QED
  BY <1>1, <1>2

LEMMA OutsideBase ==
  ASSUME Base, Restart \/ Crash \/ Age \/ PollAt \/ Kill \/ Expire
  PROVE  Base'
<1>1. CASE Restart \/ Crash
  <2>1. /\ pc' = [p \in Procs |-> "idle"] /\ loc' = [p \in Procs |-> NoLoc]
        /\ cache' = NoRow /\ persist' = NoProc /\ flight' = NoProc /\ ferr' = ""
        /\ tried' = NoInst /\ unav' = {} /\ UNCHANGED <<age, bound, calls>>
        /\ store' \in {store, cache} /\ live' \in {live, NoInst}
    BY <1>1 DEF Restart, Crash, Fresh
  <2>2. events' \in 0 .. MaxEvents
    BY <1>1, EventsCounted DEF Restart, Crash, AllEnvOps
  <2>3. ProcsOK'
    BY <2>1, NoLocFits DEF ProcsOK, PCs
  <2>4. SharedOK'
    BY <2>1, <2>2, NoRowFits DEF Base, SharedOK, RowSound
  <2> QED
    BY <2>3, <2>4 DEF Base
<1>2. CASE Age
  <2>1. PICK i \in Insts \cup {NoInst} : age[i] \in DOMAIN Older /\ age' = [age EXCEPT ![i] = Older[@]]
    BY <1>2, LocalsOf, PollerHere, UpTypes DEF Age
  <2>2. Older[age[i]] \in {"lead", "grace", "over"}
    BY <2>1 DEF Older
  <2>3. age' \in [Insts -> {"unborn", "queued", "fresh", "lead", "grace", "over"}]
    BY <2>1, <2>2, UpTypes
  <2>4. ProcsOK' /\ UNCHANGED <<cache, store, persist, bound, live, flight, ferr, memVars>>
    BY <1>2 DEF Age, Base, ProcsOK
  <2>5. SharedOK'
    BY <2>3, <2>4, UpTypes, SharedMoves DEF memVars
  <2> QED
    BY <2>4, <2>5 DEF Base
<1>3. CASE PollAt
  <2>1. cache' = [cache EXCEPT !.due = TRUE] /\ cache \in Rows /\ RowSound(cache)
    BY <1>3 DEF PollAt, Base, SharedOK
  <2>2. cache' \in Rows /\ cache'.inst = cache.inst /\ cache'.st = cache.st
    BY <2>1 DEF Rows
  <2>3. ProcsOK' /\ UNCHANGED <<store, persist, upVars, flight, ferr, memVars>>
    BY <1>3 DEF PollAt, Base, ProcsOK
  <2>4. SharedOK'
    BY <2>1, <2>2, <2>3 DEF Base, SharedOK, RowSound, upVars, memVars
  <2> QED
    BY <2>3, <2>4 DEF Base
<1>4. CASE Kill \/ Expire
  <2>1. events' \in 0 .. MaxEvents
    BY <1>4, EventsCounted DEF Kill, Expire, AllEnvOps
  <2>2. /\ ProcsOK' /\ UNCHANGED <<cache, store, persist, age, bound, flight, ferr, tried, calls>>
        /\ live' \in {live, NoInst} /\ unav' \subseteq Models
    BY <1>4, UpTypes DEF Kill, Expire, Base, ProcsOK, upVars
  <2>3. SharedOK'
    BY <2>1, <2>2, UpTypes, SharedMoves
  <2> QED
    BY <2>2, <2>3 DEF Base
<1> QED
  BY <1>1, <1>2, <1>3, <1>4

LEMMA BaseStep == Base /\ [Next]_vars => Base'
<1> SUFFICES ASSUME Base, [Next]_vars PROVE Base'
  OBVIOUS
<1>1. CASE \E p \in Callers : Ensure(p) \/ CallerStep(p) \/ Disown(p)
  BY <1>1, EnsureBase, CallerBase, DisownBase
<1>2. CASE \E p \in Callers \cup {ReAdmit} : RefreshStep(p)
  <2>1. PICK p \in Callers \cup {ReAdmit} : RefreshStep(p)
    BY <1>2
  <2>2. CASE Write(p)
    BY <2>2, RefresherOf, WriteBase
  <2>3. CASE Land(p)
    <3>1. SharedOK'
      BY <2>3, RefresherOf, SharedStays DEF Land, Base, SharedOK, Locals, memVars
    <3> QED
      BY <2>3, <3>1, LandFits DEF Base
  <2>4. CASE ~Write(p) /\ ~Land(p)
    BY <2>1, <2>4, ShortBase, RoundBase, GetBase, ResumeBase, ReleaseBase, ReleasedBase, PostBase,
       AnswerBase DEF RefreshStep
  <2> QED
    BY <2>2, <2>3, <2>4
<1>3. CASE PollGet \/ PollStep \/ EndSession \/ ClearQueued \/ EndStep
  BY <1>3, PollerHere, PollBase, EndBase, WriteBase DEF PollStep, EndStep
<1>4. CASE Restart \/ Crash \/ Age \/ PollAt \/ Kill \/ Expire
  BY <1>4, OutsideBase
<1>5. CASE UNCHANGED vars
  BY <1>5 DEF vars, upVars, Base, SharedOK, ProcsOK, RowSound
<1> QED
  BY <1>1, <1>2, <1>3, <1>4, <1>5 DEF Next

LEMMA BaseInit == Init => Base
<1> SUFFICES ASSUME Init PROVE Base
  OBVIOUS
<1>1. ProcsOK
  BY NoLocFits DEF Init, ProcsOK, PCs
<1>2. NoProc \notin Procs /\ NoInst \notin Insts
  BY ProcsDiffer, SessionAssumption
<1>3. cache \in Rows /\ RowSound(cache)
  <2>1. ASSUME NEW i \in Insts, NEW m \in Models
        PROVE  Row("active", i, m) \in Rows /\ RowSound(Row("active", i, m))
    BY <1>2 DEF Row, Rows, RowSound
  <2> QED
    BY <2>1, NoRowFits DEF Init
<1>4. /\ age \in [Insts -> {"unborn", "queued", "fresh", "lead", "grace", "over"}]
      /\ bound \in [Insts -> Models \cup {NoModel}] /\ live \in Insts \cup {NoInst}
  BY DEF Init
<1>5. 0 \in 0 .. MaxEvents /\ 0 \in 0 .. MaxCalls
  BY BoundsKnown
<1>6. SharedOK
  BY <1>3, <1>4, <1>5 DEF Init, SharedOK
<1> QED
  BY <1>1, <1>6 DEF Base

LEMMA BaseInvariant == Spec => []Base
BY BaseInit, BaseStep, PTL DEF Spec

\* Every variable keeps its type; in particular no process uses an instance,
\* a model or a budget it has not been given.
THEOREM TypeCorrect == Spec => []TypeOK
<1>1. Base => TypeOK
  BY DEF Base, SharedOK, ProcsOK, TypeOK
<1> QED
  BY <1>1, BaseInvariant, PTL

-----------------------------------------------------------------------------
(* One refresh at a time.                                                   *)

\* Everybody but p is where they were.
Alone(p) == \A q \in Procs : q # p => pc'[q] = pc[q] /\ loc'[q] = loc[q]

LEMMA Moved ==
  ASSUME Base, NEW p \in Procs, NEW s, NEW l, To(p, s, l)
  PROVE  pc'[p] = s /\ loc'[p] = l /\ Alone(p)
BY DEF To, Alone, Base, ProcsOK

LEMMA Committed ==
  ASSUME Base, Base', NEW p \in Procs, NEW c, NEW next, NEW l, Commit(p, c, next, l)
  PROVE  /\ pc'[p] = "write" /\ loc'[p].next = next /\ loc'[p].row = c /\ Alone(p)
         /\ persist = NoProc /\ persist' = p /\ cache' = c
<1> DEFINE k == [l EXCEPT !.row = c, !.drop = cache.inst, !.next = next]
<1>1. /\ pc'[p] = "write" /\ loc'[p] = k /\ Alone(p)
      /\ persist = NoProc /\ persist' = p /\ cache' = c
  BY Moved DEF Commit
<1>2. loc'[p] \in Locals
  BY DEF Base, ProcsOK
<1>3. DOMAIN k = DOMAIN l /\ {"row", "next", "drop"} \subseteq DOMAIN k
  BY <1>1, <1>2 DEF Locals
<1>4. k.next = next /\ k.row = c
  BY <1>3
<1> QED
  BY <1>1, <1>4

\* A step of one process that starts and ends no flight.
LEMMA FlightStays ==
  ASSUME SingleFlight, NEW p \in Procs, Alone(p), flight' = flight,
         p \in Callers \cup {ReAdmit} => (Refreshing(p)' <=> Refreshing(p)),
         pc'[p] = "parked" => flight # NoProc
  PROVE  SingleFlight'
<1>1. ASSUME NEW q \in Callers \cup {ReAdmit} PROVE Refreshing(q)' <=> Refreshing(q)
  BY DEF Alone, Refreshing, Procs
<1>2. ASSUME NEW q \in Callers, pc'[q] = "parked" PROVE flight # NoProc
  BY <1>2 DEF Alone, SingleFlight, Procs
<1> QED
  BY <1>1, <1>2 DEF SingleFlight

\* Inside refresh, nothing but a landing ends it.
LEMMA RefreshStays ==
  ASSUME Base, Base', NEW p \in Callers \cup {ReAdmit}, RefreshStep(p), ~Write(p), ~Land(p)
  PROVE  /\ pc[p] \in RefreshPCs \ {"write", "land"} /\ pc'[p] \in RefreshPCs
         /\ Refreshing(p) /\ Refreshing(p)' /\ Alone(p)
         /\ flight' = flight /\ tried' = tried
<1>1. /\ pc[p] \in RefreshPCs \ {"write", "land"} /\ p \in Procs
      /\ flight' = flight /\ tried' = tried
  BY DEF RefreshStep, RefreshPCs, Procs, memVars, ShortPass, ShortReuse, ShortDrop, Stop, Round,
         GetQueued, Resume, Release, Released, Admit, Refuse, Failed, WaitingRoomGone, Admitted,
         Queued, Ended, Locked, Unlock, Unavailable
<1> DEFINE Stays == pc'[p] \in RefreshPCs /\ Refreshing(p)' /\ Alone(p)
<1>2. ASSUME NEW s \in {"loop", "get", "resume", "release", "post", "answer", "unlock", "land"},
             NEW l, To(p, s, l)
      PROVE  Stays
  BY <1>1, <1>2, Moved DEF Refreshing, RefreshPCs
<1>3. ASSUME NEW c, NEW l, NEW s \in {"loop", "post", "unlock", "land"}, Commit(p, c, s, l)
      PROVE  Stays
  BY <1>1, <1>3, Committed DEF Refreshing, RefreshPCs
<1> SUFFICES Stays
  BY <1>1 DEF Refreshing
<1> HIDE DEF Stays
<1>4. ASSUME NEW a, Finish(p, a) PROVE Stays
  BY <1>2, <1>4 DEF Finish
<1>5. ASSUME NEW a, NEW i, Answer(p, a, i) PROVE Stays
  BY <1>2, <1>5 DEF Answer
<1>6. CASE ShortPass(p) \/ ShortReuse(p)
  BY <1>2, <1>4, <1>6 DEF ShortPass, ShortReuse
<1>7. CASE ShortDrop(p) \/ Stop(p)
  BY <1>3, <1>4, <1>7 DEF ShortDrop, Stop
<1>8. CASE Round(p)
  BY <1>2, <1>8 DEF Round
<1>9. CASE GetQueued(p)
  BY <1>5, <1>9 DEF GetQueued
<1>10. CASE Resume(p)
  BY <1>2, <1>4, <1>5, <1>10 DEF Resume
<1>11. CASE Release(p) \/ Released(p)
  BY <1>2, <1>3, <1>11 DEF Release, Released
<1>12. CASE Admit(p) \/ Refuse(p)
  BY <1>5, <1>12 DEF Admit, Refuse
<1>13. CASE Failed(p) \/ WaitingRoomGone(p)
  BY <1>3, <1>4, <1>13 DEF Failed, WaitingRoomGone
<1>14. CASE Queued(p) \/ Ended(p)
  BY <1>3, <1>4, <1>14 DEF Queued, Ended
<1>15. CASE Admitted(p) \/ Locked(p) \/ Unavailable(p)
  BY <1>3, <1>15 DEF Admitted, Locked, Unavailable
<1>16. CASE Unlock(p)
  BY <1>2, <1>16 DEF Unlock, NextRound
<1> QED
  BY <1>6, <1>7, <1>8, <1>9, <1>10, <1>11, <1>12, <1>13, <1>14, <1>15, <1>16 DEF RefreshStep

\* The second half of a commit.
LEMMA WriteMoves ==
  ASSUME Base, NEW p \in Procs, Write(p)
  PROVE  /\ pc[p] = "write" /\ loc[p].next \in Returns(p) /\ pc'[p] = loc[p].next /\ Alone(p)
         /\ p \in Callers \cup {ReAdmit} => (Refreshing(p)' <=> Refreshing(p))
         /\ flight' = flight
<1>1. pc[p] = "write" /\ loc[p].next \in Returns(p)
  BY LocalsOf DEF Write, Fits
<1>2. pc'[p] = loc[p].next /\ Alone(p)
  BY Moved DEF Write, Out
<1>3. loc[p].next # "write"
  BY <1>1 DEF Returns
<1> QED
  BY <1>1, <1>2, <1>3 DEF Refreshing, Write, RefreshPCs

\* A caller that neither starts nor leads a flight.
LEMMA CallerQuiet ==
  ASSUME Base, Base', NEW p \in Callers,
         Ensure(p) \/ (CallerStep(p) /\ ~Trigger(p) /\ ~Refresh(p)) \/ Disown(p)
  PROVE  /\ Alone(p) /\ ~Refreshing(p) /\ ~Refreshing(p)' /\ flight' = flight
         /\ pc'[p] = "parked" => flight # NoProc
<1>1. p \in Procs
  BY DEF Procs
<1>2. CASE Disown(p)
  <2>1. Commit(p, NoRow, "idle", NoLoc)
    BY <1>2 DEF Disown
  <2> QED
    BY <1>1, <1>2, <2>1, Committed DEF Disown, Refreshing, RefreshPCs
<1>3. CASE Ensure(p) \/ (CallerStep(p) /\ ~Trigger(p) /\ ~Refresh(p))
  <2>1. pc[p] \in {"idle", "top", "parked", "woken", "trust", "turn"} /\ flight' = flight
    BY <1>3 DEF Ensure, CallerStep, GiveUp, Reuse, NoSession, Park, Wake, Trust, TurnOver, AtTop
  <2>2. \E s \in {"idle", "top", "parked", "woken", "trust", "turn"} : \E l :
          To(p, s, l) /\ (s = "parked" => flight # NoProc)
    BY <1>3 DEF Ensure, CallerStep, GiveUp, Reuse, NoSession, Park, Wake, Trust, TurnOver, Out,
                Ride, Again
  <2> QED
    BY <1>1, <2>1, <2>2, Moved DEF Refreshing, RefreshPCs
<1> QED
  BY <1>2, <1>3

\* The poller and the ender.
LEMMA OthersQuiet ==
  ASSUME Base, Base', PollGet \/ PollCommit \/ PollLog \/ EndSession \/ Delete \/ ClearQueued
  PROVE  \E p \in {Poller, Ender} : Alone(p) /\ pc'[p] # "parked" /\ flight' = flight
<1>1. flight' = flight
  BY DEF PollGet, PollCommit, PollLog, EndSession, Delete, ClearQueued
<1>2. \/ \E p \in {Poller, Ender}, s \in {"idle", "polled", "panic"} : \E l : To(p, s, l)
      \/ \E p \in {Poller, Ender} : \E c, s, l : Commit(p, c, s, l)
  <2>1. CASE PollGet
    BY <2>1 DEF PollGet, Out
  <2>2. CASE PollCommit \/ PollLog
    BY <2>2 DEF PollCommit, PollLog, Out
  <2>3. CASE EndSession \/ Delete \/ ClearQueued
    BY <2>3 DEF EndSession, Delete, ClearQueued, Out
  <2> QED
    BY <2>1, <2>2, <2>3
<1> QED
  BY <1>1, <1>2, PollerHere, Moved, Committed

LEMMA FlightStep == Base /\ Base' /\ SingleFlight /\ [Next]_vars => SingleFlight'
<1> SUFFICES ASSUME Base, Base', SingleFlight, [Next]_vars PROVE SingleFlight'
  OBVIOUS
<1>1. ASSUME NEW p \in Callers,
             Ensure(p) \/ (CallerStep(p) /\ ~Trigger(p) /\ ~Refresh(p)) \/ Disown(p)
      PROVE  SingleFlight'
  BY <1>1, CallerQuiet, FlightStays DEF Procs
<1>2. ASSUME NEW p \in Callers, Refresh(p)
      PROVE  SingleFlight'
  <2>1. /\ pc'[p] = "short" /\ Alone(p) /\ flight = NoProc /\ flight' = p /\ p \in Procs
    BY <1>2, Moved DEF Refresh, Procs
  <2>2. \A q \in Callers \cup {ReAdmit} : ~Refreshing(q)
    BY <2>1, ProcsDiffer DEF SingleFlight, Procs
  <2>3. Refreshing(p)' /\ \A q \in Callers \cup {ReAdmit} : q # p => ~Refreshing(q)'
    BY <2>1, <2>2 DEF Refreshing, RefreshPCs, Alone, Procs
  <2>4. flight' # NoProc
    BY <2>1, ProcsDiffer
  <2> QED
    BY <2>1, <2>3, <2>4 DEF SingleFlight
<1>3. ASSUME NEW p \in Callers, Trigger(p)
      PROVE  SingleFlight'
  <2>1. /\ flight = NoProc /\ flight' = ReAdmit /\ pc[p] = "top"
        /\ pc' = [pc EXCEPT ![ReAdmit] = "short"]
        /\ \A q \in Procs : q \notin {p, ReAdmit} => loc'[q] = loc[q]
    BY <1>3 DEF Trigger, AtTop, Base, ProcsOK
  <2>2. pc'[ReAdmit] = "short" /\ \A q \in Procs : q # ReAdmit => pc'[q] = pc[q]
    BY <2>1 DEF Base, ProcsOK, Procs
  <2>3. \A q \in Callers \cup {ReAdmit} : ~Refreshing(q)
    BY <2>1, ProcsDiffer DEF SingleFlight, Procs
  <2>4. Refreshing(ReAdmit)' /\ \A q \in Callers : ~Refreshing(q)'
    BY <2>1, <2>2, <2>3, ProcsDiffer DEF Refreshing, RefreshPCs, Procs
  <2>5. flight' # NoProc /\ ReAdmit \notin Callers
    BY <2>1, ProcsDiffer DEF Procs
  <2> QED
    BY <2>1, <2>4, <2>5 DEF SingleFlight
<1>4. ASSUME NEW p \in Callers \cup {ReAdmit}, RefreshStep(p), ~Write(p), ~Land(p)
      PROVE  SingleFlight'
  BY <1>4, RefreshStays, FlightStays DEF Procs, RefreshPCs
<1>5. ASSUME NEW p \in Procs, Write(p)
      PROVE  SingleFlight'
  BY <1>5, WriteMoves, FlightStays DEF Returns
<1>6. ASSUME NEW p \in Callers \cup {ReAdmit}, Land(p)
      PROVE  SingleFlight'
  <2>1. /\ pc[p] = "land" /\ flight' = NoProc /\ p \in Procs
        /\ pc'[p] \in {"idle", "trust"}
        /\ \A q \in Procs : q # p => /\ pc'[q] = (IF pc[q] = "parked" THEN "woken" ELSE pc[q])
                                     /\ loc'[q] = loc[q]
    BY <1>6 DEF Land, Base, ProcsOK, Procs
  <2>2. flight = p
    BY <2>1 DEF SingleFlight, Refreshing, RefreshPCs
  <2>3. \A q \in Callers \cup {ReAdmit} : ~Refreshing(q)'
    BY <2>1, <2>2 DEF SingleFlight, Refreshing, RefreshPCs, Procs
  <2>4. \A q \in Callers : pc'[q] # "parked"
    BY <2>1 DEF Procs
  <2> QED
    BY <2>1, <2>3, <2>4, ProcsDiffer DEF SingleFlight, Procs
<1>7. CASE PollGet \/ PollCommit \/ PollLog \/ EndSession \/ Delete \/ ClearQueued
  BY <1>7, OthersQuiet, FlightStays, PollerHere, ProcsDiffer
<1>8. CASE Restart \/ Crash
  <2>1. flight' = NoProc /\ \A q \in Procs : pc'[q] = "idle"
    BY <1>8 DEF Restart, Crash, Fresh
  <2> QED
    BY <2>1, ProcsDiffer DEF SingleFlight, Refreshing, RefreshPCs, Procs
<1>9. CASE UNCHANGED <<pc, loc, flight>>
  BY <1>9 DEF SingleFlight, Refreshing
<1>10. Age \/ PollAt \/ Kill \/ Expire \/ UNCHANGED vars => UNCHANGED <<pc, loc, flight>>
  BY DEF Age, PollAt, Kill, Expire, vars
<1> QED
  BY <1>1, <1>2, <1>3, <1>4, <1>5, <1>6, <1>7, <1>8, <1>9, <1>10, PollerHere
     DEF Next, PollStep, EndStep, Procs

\* Admissions are single-flight for every number of callers: whoever is inside
\* refresh is the one the flag names, also between the halves of a commit and
\* through every failure, and nobody waits for a flight that has landed
\* (session.go:290, session_manager.go).
THEOREM OneFlight == Spec => []SingleFlight
<1>1. Init => SingleFlight
  BY ZenonT(60), ProcsDiffer DEF Init, SingleFlight, Refreshing, RefreshPCs, Procs
<1> QED
  BY <1>1, FlightStep, BaseInvariant, PTL DEF Spec

-----------------------------------------------------------------------------
(* The store follows the cache.                                             *)

\* Who writes holds persistMu and writes what the cache has; who resumes a
\* persisted session found the cache empty, and it still is.
StoreSound ==
  /\ \A p \in Procs : pc[p] = "write" <=> persist = p
  /\ \A p \in Procs : pc[p] = "write" => /\ loc[p].row.st = cache.st
                                         /\ loc[p].row.inst = cache.inst
  /\ \A p \in Callers \cup {ReAdmit} : pc[p] = "resume" => cache.st = "none"
  /\ StoreMirrors

\* No commit: the cache keeps its session, and the store too unless the cache
\* has none.
LEMMA NoCommit ==
  ASSUME StoreSound, persist' = persist, cache'.st = cache.st, cache'.inst = cache.inst,
         store' = store \/ cache.inst = NoInst,
         \A q \in Procs : /\ pc'[q] = "write" <=> pc[q] = "write"
                          /\ pc[q] = "write" => loc'[q] = loc[q]
                          /\ pc'[q] = "resume" => pc[q] = "resume" \/ cache.st = "none"
  PROVE  StoreSound'
<1>1. \A p \in Procs : pc'[p] = "write" <=> persist' = p
  BY DEF StoreSound
<1>2. \A p \in Procs : pc'[p] = "write" => loc'[p].row.st = cache'.st /\ loc'[p].row.inst = cache'.inst
  BY DEF StoreSound
<1>3. \A p \in Callers \cup {ReAdmit} : pc'[p] = "resume" => cache'.st = "none"
  BY DEF StoreSound, Procs
<1>4. StoreMirrors'
  BY DEF StoreSound, StoreMirrors
<1> QED
  BY <1>1, <1>2, <1>3, <1>4 DEF StoreSound

\* A commit: of nothing, by the only refresher, or onto a session.
LEMMA CommitMirrors ==
  ASSUME Base, Base', SingleFlight, StoreSound, NEW p \in Procs, NEW c, NEW next, NEW l,
         Commit(p, c, next, l),
         c.st = "none" \/ cache.st # "none" \/ (p \in Callers \cup {ReAdmit} /\ Refreshing(p))
  PROVE  StoreSound'
<1>1. /\ pc'[p] = "write" /\ loc'[p].row = c /\ Alone(p)
      /\ persist = NoProc /\ persist' = p /\ cache' = c
  BY Committed
<1>2. \A q \in Procs : pc'[q] = "write" <=> persist' = q
  BY <1>1, ProcsDiffer DEF StoreSound, Alone
<1>3. ASSUME NEW q \in Callers \cup {ReAdmit}, pc'[q] = "resume"
      PROVE  cache'.st = "none"
  <2>1. q # p /\ q \in Procs /\ pc[q] = "resume" /\ cache.st = "none"
    BY <1>1, <1>3 DEF Alone, Procs, StoreSound
  <2>2. Refreshing(q)
    BY <2>1 DEF Refreshing, RefreshPCs
  <2> QED
    BY <1>1, <1>3, <2>1, <2>2 DEF SingleFlight
<1>4. StoreMirrors'
  BY <1>1 DEF StoreMirrors
<1> QED
  BY <1>1, <1>2, <1>3, <1>4 DEF StoreSound

LEMMA WriteMirrors ==
  ASSUME Base, StoreSound, NEW p \in Procs, Write(p)
  PROVE  StoreSound'
<1>1. /\ pc[p] = "write" /\ loc[p].next \in Returns(p) /\ pc'[p] = loc[p].next /\ Alone(p)
      /\ pc'[p] \notin {"write", "resume"}
  BY WriteMoves DEF Returns
<1>2. persist = p /\ loc[p].row.st = cache.st /\ loc[p].row.inst = cache.inst
  BY <1>1 DEF StoreSound
<1>3. persist' = NoProc /\ cache' = cache /\ NoProc \notin Procs
  BY <1>2, ProcsDiffer DEF Write
<1>4. cache.inst # NoInst => store'.inst = cache.inst /\ store'.st = cache.st
  <2>1. cache.inst # NoInst => cache.st # "none"
    BY DEF Base, SharedOK, RowSound
  <2> QED
    BY <1>2, <2>1 DEF Write
<1>5. \A q \in Procs : pc'[q] # "write"
  BY <1>1, <1>2 DEF StoreSound, Alone
<1>6. \A q \in Callers \cup {ReAdmit} : pc'[q] = "resume" => cache'.st = "none"
  BY <1>1, <1>3 DEF StoreSound, Alone, Procs
<1> QED
  BY <1>3, <1>4, <1>5, <1>6 DEF StoreSound, StoreMirrors

\* A round commits, or leaves cache and store alone unless both are to be empty.
LEMMA RefreshMirrors ==
  ASSUME Base, Base', SingleFlight, StoreSound, NEW p \in Callers \cup {ReAdmit}, RefreshStep(p),
         ~Write(p), ~Land(p)
  PROVE  StoreSound'
<1>1. /\ pc[p] \in RefreshPCs \ {"write"} /\ Refreshing(p) /\ Alone(p) /\ p \in Procs
  BY RefreshStays DEF Procs
<1>2. ASSUME NEW c, NEW next, NEW l, Commit(p, c, next, l)
      PROVE  StoreSound'
  BY <1>1, <1>2, CommitMirrors
<1>3. cache.st = "none" => cache.inst = NoInst
  BY DEF Base, SharedOK, RowSound
<1>4. ASSUME NEW s, NEW l, To(p, s, l), s # "write", s = "resume" => cache.st = "none",
             UNCHANGED <<cache, persist>>, store' = store \/ cache.st = "none"
      PROVE  StoreSound'
  BY <1>1, <1>3, <1>4, Moved, NoCommit DEF Alone
<1>5. ASSUME NEW a, Finish(p, a), UNCHANGED <<cache, persist>>, store' = store \/ cache.st = "none"
      PROVE  StoreSound'
  BY <1>4, <1>5 DEF Finish
<1>6. ASSUME NEW a, NEW i, Answer(p, a, i), UNCHANGED <<cache, store, persist>>
      PROVE  StoreSound'
  BY <1>4, <1>6 DEF Answer
<1>7. CASE ShortPass(p) \/ ShortReuse(p)
  BY <1>4, <1>5, <1>7 DEF ShortPass, ShortReuse
<1>8. CASE ShortDrop(p) \/ Stop(p)
  BY <1>2, <1>5, <1>8 DEF ShortDrop, Stop
<1>9. CASE Round(p)
  BY <1>4, <1>9 DEF Round
<1>10. CASE GetQueued(p)
  BY <1>6, <1>10 DEF GetQueued
<1>11. CASE Resume(p)
  <2>1. cache.st = "none"
    BY <1>11 DEF Resume, StoreSound
  <2> QED
    BY <1>4, <1>5, <1>6, <1>11, <2>1 DEF Resume
<1>12. CASE Release(p) \/ Released(p)
  BY <1>2, <1>4, <1>12 DEF Release, Released
<1>13. CASE Admit(p) \/ Refuse(p)
  BY <1>6, <1>13 DEF Admit, Refuse
<1>14. CASE Failed(p) \/ WaitingRoomGone(p)
  BY <1>2, <1>5, <1>14 DEF Failed, WaitingRoomGone
<1>15. CASE Queued(p) \/ Ended(p)
  BY <1>2, <1>5, <1>15 DEF Queued, Ended
<1>16. CASE Admitted(p) \/ Locked(p) \/ Unavailable(p)
  BY <1>2, <1>16 DEF Admitted, Locked, Unavailable
<1>17. CASE Unlock(p)
  BY <1>4, <1>17 DEF Unlock, NextRound
<1> QED
  BY <1>7, <1>8, <1>9, <1>10, <1>11, <1>12, <1>13, <1>14, <1>15, <1>16, <1>17 DEF RefreshStep

\* A landing wakes the waiters, and nobody writes or resumes who did not.
LEMMA LandMoves ==
  ASSUME Base, NEW p \in Callers \cup {ReAdmit}, Land(p)
  PROVE  /\ pc[p] = "land" /\ p \in Procs /\ pc'[p] \in {"idle", "trust"}
         /\ \A q \in Procs : q # p => /\ pc'[q] = (IF pc[q] = "parked" THEN "woken" ELSE pc[q])
                                      /\ loc'[q] = loc[q]
         /\ flight' = NoProc /\ UNCHANGED <<cache, store, persist, live>>
BY DEF Land, Base, ProcsOK, Procs, upVars

LEMMA TriggerMoves ==
  ASSUME Base, NEW p \in Callers, Trigger(p)
  PROVE  /\ flight = NoProc /\ flight' = ReAdmit /\ pc[p] = "top" /\ pc'[ReAdmit] = "short"
         /\ \A q \in Procs : q # ReAdmit => pc'[q] = pc[q]
         /\ \A q \in Procs : q \notin {p, ReAdmit} => loc'[q] = loc[q]
         /\ UNCHANGED <<cache, store, persist, live>> /\ SeatIdle
BY DEF Trigger, AtTop, Base, ProcsOK, Procs, upVars

LEMMA StoreStep == Base /\ Base' /\ SingleFlight /\ StoreSound /\ [Next]_vars => StoreSound'
<1> SUFFICES ASSUME Base, Base', SingleFlight, StoreSound, [Next]_vars PROVE StoreSound'
  OBVIOUS
<1>1. ASSUME NEW p \in Callers, Disown(p)
      PROVE  StoreSound'
  <2>1. Commit(p, NoRow, "idle", NoLoc) /\ p \in Procs /\ NoRow.st = "none"
    BY <1>1 DEF Disown, Procs, NoRow
  <2> QED
    BY <2>1, CommitMirrors
<1>2. ASSUME NEW p \in Callers, Ensure(p) \/ (CallerStep(p) /\ ~Trigger(p))
      PROVE  StoreSound'
  <2>1. /\ pc[p] \in {"idle", "top", "parked", "woken", "trust", "turn"} /\ p \in Procs
        /\ UNCHANGED <<cache, store, persist>>
    BY <1>2 DEF Ensure, CallerStep, GiveUp, Reuse, NoSession, Park, Refresh, Wake, Trust, TurnOver,
                AtTop, Procs
  <2>2. \E s \in {"idle", "top", "parked", "woken", "trust", "turn", "short"} : \E l : To(p, s, l)
    BY <1>2 DEF Ensure, CallerStep, GiveUp, Reuse, NoSession, Park, Refresh, Wake, Trust, TurnOver,
                Out, Ride, Again
  <2>3. pc'[p] \in {"idle", "top", "parked", "woken", "trust", "turn", "short"} /\ Alone(p)
    BY <2>1, <2>2, Moved
  <2> QED
    BY <2>1, <2>3, NoCommit DEF Alone
<1>3. ASSUME NEW p \in Callers, Trigger(p)
      PROVE  StoreSound'
  <2>1. pc[ReAdmit] # "write" /\ pc[ReAdmit] # "resume"
    <3>1. ~Refreshing(ReAdmit)
      BY <1>3, TriggerMoves, ProcsDiffer DEF SingleFlight, Procs
    <3>2. pc[ReAdmit] = "write" => loc[ReAdmit].next \in RefreshPCs
      BY LocalsOf, ProcsDiffer DEF Fits, Returns, RefreshPCs, Procs
    <3> QED
      BY <3>1, <3>2 DEF Refreshing, RefreshPCs
  <2> QED
    BY <1>3, <2>1, TriggerMoves, NoCommit
<1>4. ASSUME NEW p \in Callers \cup {ReAdmit}, RefreshStep(p), ~Write(p), ~Land(p)
      PROVE  StoreSound'
  BY <1>4, RefreshMirrors
<1>5. ASSUME NEW p \in Procs, Write(p)
      PROVE  StoreSound'
  BY <1>5, WriteMirrors
<1>6. ASSUME NEW p \in Callers \cup {ReAdmit}, Land(p)
      PROVE  StoreSound'
  BY <1>6, LandMoves, NoCommit
<1>7. ASSUME NEW p \in {Poller, Ender}, NEW s \in {"idle", "polled", "panic"}, NEW l, To(p, s, l),
             pc[p] # "write", UNCHANGED <<cache, store, persist>>
      PROVE  StoreSound'
  BY <1>7, PollerHere, Moved, NoCommit DEF Alone
<1>8. ASSUME NEW p \in {Poller, Ender}, NEW c, NEW s, NEW l, Commit(p, c, s, l),
             c = NoRow \/ cache.st # "none"
      PROVE  StoreSound'
  BY <1>8, PollerHere, CommitMirrors DEF NoRow
<1>9. CASE PollGet \/ PollLog
  BY <1>7, <1>9 DEF PollGet, PollLog, Out
<1>10. CASE PollCommit
  <2>1. pc[Poller] = "polled" /\ loc[Poller].inst # NoInst
    BY <1>10, PollerHere, LocalsOf, SessionAssumption DEF PollCommit, Fits
  <2>2. cache.inst = loc[Poller].inst => cache.st # "none"
    BY <2>1 DEF Base, SharedOK, RowSound
  <2> QED
    BY <1>7, <1>8, <1>10, <2>1, <2>2 DEF PollCommit, Out
<1>11. CASE EndSession \/ Delete \/ ClearQueued
  BY <1>7, <1>8, <1>11 DEF EndSession, Delete, ClearQueued, Out
<1>12. CASE Restart \/ Crash
  <2>1. cache' = NoRow /\ persist' = NoProc /\ \A q \in Procs : pc'[q] = "idle"
    BY <1>12 DEF Restart, Crash, Fresh
  <2> QED
    BY <2>1, ProcsDiffer DEF StoreSound, StoreMirrors, NoRow, Procs
<1>13. CASE Age \/ PollAt \/ Kill \/ Expire \/ UNCHANGED vars
  <2>1. UNCHANGED <<store, persist, pc, loc>>
    BY <1>13 DEF Age, PollAt, Kill, Expire, vars
  <2>2. cache'.st = cache.st /\ cache'.inst = cache.inst
    BY <1>13 DEF Age, PollAt, Kill, Expire, vars, Base, SharedOK, Rows
  <2> QED
    BY <2>1, <2>2, NoCommit
<1> QED
  BY <1>1, <1>2, <1>3, <1>4, <1>5, <1>6, <1>9, <1>10, <1>11, <1>12, <1>13, PollerHere
     DEF Next, PollStep, EndStep, Procs

\* With no write under way, the store has the session the cache has: writes
\* reach it in the order of the commits although mu is not held for them, and
\* neither a resumed nor a dropped row is written over (session.go:376).
THEOREM StoreFollows == Spec => []StoreMirrors
<1>1. Init => StoreSound
  BY ZenonT(60), ProcsDiffer DEF Init, StoreSound, StoreMirrors, Procs
<1>2. StoreSound => StoreMirrors
  BY DEF StoreSound
<1> QED
  BY <1>1, <1>2, StoreStep, OneFlight, BaseInvariant, PTL DEF Spec

-----------------------------------------------------------------------------
(* The seat gate.                                                           *)

\* While the session is re-admitted pre-emptively, no caller dispatches,
\* refreshes or writes: the gate saw one seat, and whoever came since parks.
GateSound ==
  flight = ReAdmit => \A p \in Callers : pc[p] \in {"idle", "top", "parked"}

LEMMA OneSeat ==
  ASSUME Seatless = {}, SeatIdle, NEW p \in Callers, pc[p] # "idle"
  PROVE  \A q \in Callers : q # p => pc[q] = "idle"
<1> DEFINE S == {q \in Callers \ Seatless : pc[q] # "idle"}
<1>1. IsFiniteSet(Callers) /\ S \subseteq Callers
  BY SessionAssumption
<1>2. IsFiniteSet(S) /\ p \in S /\ Cardinality(S) <= 1
  BY <1>1, FS_Subset DEF SeatIdle, Seats
<1>3. IsFiniteSet(S \ {p}) /\ Cardinality(S \ {p}) = Cardinality(S) - 1 /\ Cardinality(S) \in Nat
  BY <1>2, FS_RemoveElement, FS_CardinalityType
<1>4. Cardinality(S \ {p}) = 0
  BY <1>2, <1>3, FS_CardinalityType
<1>5. S \ {p} = {}
  BY <1>3, <1>4, FS_EmptySet
<1> QED
  BY <1>5

\* Nobody else moves a caller.
LEMMA GateStays ==
  ASSUME GateSound, flight' = flight, NEW p, Alone(p),
         p \in Callers /\ flight = ReAdmit => pc'[p] \in {"idle", "top", "parked"}
  PROVE  GateSound'
BY DEF GateSound, Alone, Procs

\* A step by which the re-admission disowns an instance.
Disowns == pc'[ReAdmit] # pc[ReAdmit] /\ live' # live

LEMMA GateStep ==
  ASSUME Seatless = {}, Base, Base', SingleFlight, GateSound, [Next]_vars
  PROVE  GateSound' /\ (Disowns => flight = ReAdmit)
<1> DEFINE Goal == GateSound' /\ (Disowns => flight = ReAdmit)
<1> HIDE DEF Goal
<1> SUFFICES Goal
  BY DEF Goal
<1>0. ReAdmit \in Procs /\ ReAdmit \notin Callers /\ ReAdmit # NoProc /\ Callers \subseteq Procs
  BY ProcsDiffer DEF Procs
<1>1. ASSUME NEW p \in Callers,
             Ensure(p) \/ (CallerStep(p) /\ ~Trigger(p) /\ ~Refresh(p)) \/ Disown(p)
      PROVE  Goal
  <2>1. Alone(p) /\ flight' = flight
    BY <1>1, CallerQuiet
  <2>2. CASE pc[p] \in {"idle", "top", "parked"}
    <3>1. flight # NoProc => Ensure(p) \/ GiveUp(p) \/ Park(p)
      BY <1>1, <2>2 DEF CallerStep, Reuse, NoSession, Wake, Trust, TurnOver, Disown
    <3>2. flight # NoProc => pc'[p] \in {"idle", "top", "parked"}
      BY <1>0, <3>1, Moved DEF Ensure, GiveUp, Park, Out
    <3> QED
      BY <1>0, <2>1, <3>2, GateStays DEF Goal, Disowns, Alone
  <2>3. CASE pc[p] \notin {"idle", "top", "parked"}
    BY <1>0, <2>1, <2>3, GateStays DEF GateSound, Goal, Disowns, Alone
  <2> QED
    BY <2>2, <2>3
<1>2. ASSUME NEW p \in Callers, Refresh(p)
      PROVE  Goal
  BY <1>0, <1>2, Moved DEF Refresh, GateSound, Goal, Disowns, Alone
<1>3. ASSUME NEW p \in Callers, Trigger(p)
      PROVE  Goal
  <2>1. \A q \in Callers : q # p => pc[q] = "idle"
    BY <1>3, TriggerMoves, OneSeat
  <2> QED
    BY <1>0, <1>3, <2>1, TriggerMoves DEF GateSound, Goal, Disowns
<1>4. ASSUME NEW p \in Callers \cup {ReAdmit}, RefreshStep(p), ~Write(p), ~Land(p)
      PROVE  Goal
  <2>1. Alone(p) /\ flight' = flight /\ flight = p
    BY <1>4, RefreshStays DEF SingleFlight
  <2> QED
    BY <1>0, <2>1, GateStays DEF Goal, Disowns, Alone
<1>5. ASSUME NEW p \in Procs, Write(p)
      PROVE  Goal
  <2>1. Alone(p) /\ flight' = flight /\ live' = live /\ pc[p] = "write"
    BY <1>5, WriteMoves DEF Write, upVars
  <2> QED
    BY <2>1, GateStays DEF GateSound, Goal, Disowns
<1>6. ASSUME NEW p \in Callers \cup {ReAdmit}, Land(p)
      PROVE  Goal
  BY <1>0, <1>6, LandMoves DEF GateSound, Goal, Disowns
<1>7. CASE PollGet \/ PollCommit \/ PollLog \/ EndSession \/ Delete \/ ClearQueued
  <2>1. PICK p \in {Poller, Ender} : Alone(p) /\ flight' = flight
    BY <1>7, OthersQuiet
  <2> QED
    BY <1>0, <2>1, ProcsDiffer, GateStays DEF Goal, Disowns, Alone
<1>8. CASE Restart \/ Crash
  <2>1. flight' = NoProc /\ pc'[ReAdmit] = "idle"
    BY <1>0, <1>8 DEF Restart, Crash, Fresh
  <2>2. Restart => pc[ReAdmit] = "idle"
    BY <1>0, LocalsOf DEF Restart, Fits, Places, RefreshPCs
  <2>3. Crash => live' = live
    BY DEF Crash
  <2> QED
    BY <1>0, <1>8, <2>1, <2>2, <2>3 DEF GateSound, Goal, Disowns
<1>9. CASE Age \/ PollAt \/ Kill \/ Expire \/ UNCHANGED vars
  <2>1. UNCHANGED <<pc, flight>>
    BY <1>9 DEF Age, PollAt, Kill, Expire, vars
  <2> QED
    BY <2>1 DEF GateSound, Goal, Disowns
<1> QED
  BY <1>1, <1>2, <1>3, <1>4, <1>5, <1>6, <1>7, <1>8, <1>9, PollerHere
     DEF Next, PollStep, EndStep, Procs

\* As long as every caller takes a seat first, a pre-emptive re-admission never
\* disowns the instance a turn dispatches on (seat.go:57).
THEOREM GateHolds ==
  ASSUME Seatless = {}
  PROVE  Spec => SeatGate
<1>1. Init => GateSound
  BY ProcsDiffer DEF Init, GateSound, Procs
<1>2. Base /\ Base' /\ SingleFlight /\ GateSound /\ [Next]_vars => GateSound'
  BY GateStep
<1>3. Base /\ Base' /\ SingleFlight /\ GateSound /\ [Next]_vars =>
        [pc'[ReAdmit] # pc[ReAdmit] /\ live' # live =>
           \A p \in Callers : pc[p] = "turn" => loc[p].inst # live]_vars
  BY GateStep DEF Disowns, GateSound
<1> QED
  BY <1>1, <1>2, <1>3, OneFlight, BaseInvariant, PTL DEF Spec, SeatGate
=============================================================================
