-------------------------- MODULE RunManager_proofs --------------------------
(***************************************************************************)
(* The run manager is sound for every number of callers, runs and agents,  *)
(* with a store or without, whatever the environment does: type            *)
(* correctness, the lease counts, single flight, the draining list, one    *)
(* FINISH at a time, a closed manager that stays closed, and no orphan.    *)
(***************************************************************************)
EXTENDS RunManager, FiniteSetTheorems, SequenceTheorems, TLAPS

\* The objects runs have been made of.
Made == {r \in Runs : origin[r] # NoRun}

\* Where a process may be, and where its calls may return to.
Places(p) ==
  IF p \in Callers
  THEN RotatePCs \cup FinishPCs \cup {"idle", "check", "lease", "leased", "invalid"}
  ELSE IF p = Maint THEN RotatePCs \cup FinishPCs \cup {"rest", "turn"}
  ELSE IF p = Drainer THEN {"rest", "each", "finish", "dispatch", "call"}
  ELSE IF p = Worker THEN {"work", "exited", "finish", "dispatch", "call"}
  ELSE {"rest", "flagged", "waiting", "save", "last", "done"}

Returns(p) ==
  IF p \in Callers THEN {"idle", "lease", "invalid"}
  ELSE IF p = Maint THEN {"rest", "turn"}
  ELSE IF p = Drainer THEN {"rest", "each"}
  ELSE {Home(p)}

\* Process p may be at s with the locals l when the objects of M are made:
\* what it is going to use there has been set.
Fits(M, p, s, l) ==
  /\ s \in Places(p)
  /\ l \in Locals
  /\ l.ret \in Returns(p)
  /\ s \in RotatePCs \cup {"check", "lease", "invalid"} => l.agent \in Agents
  /\ l.ret \in {"lease", "invalid"} => l.agent \in Agents
  /\ s \in RotatePCs \cup {"check", "lease"} => l.ret # "invalid"
  /\ s \in FinishPCs => l.job \in M
  /\ s \in {"leased", "persist", "discard", "adopt", "purge"} => l.run \in M
  /\ s = "persist" => l.job \in M \cup {NoRun}
  /\ l.plan \subseteq M
  /\ l.todo \subseteq M
  /\ p = Drainer /\ s \in {"finish", "dispatch", "call"} => l.ret = "each"
  /\ p = Drainer /\ s = "rest" => l.todo = {}

AllFit == \A p \in Procs : Fits(Made, p, pc[p], loc[p])

\* Everything that names a run names one that was made, current runs are of
\* their agent, and an upstream id is that of an object.
MadeSound ==
  /\ \A r \in Made : agentOf[r] \in Agents /\ origin[r] \in Made
  /\ \A a \in Agents : current[a] # NoRun => current[a] \in Made /\ agentOf[current[a]] = a
  /\ \A a \in Agents : record[a] # NoRun => record[a] \in Made
  /\ draining \subseteq Made
  /\ queued \subseteq Made
  /\ finishing \subseteq Made
  /\ \A i \in DOMAIN jobs : jobs[i] \in Made

\* What every other invariant below stands on.
Base == TypeOK /\ AllFit /\ MadeSound

\* TypeOK without the processes.
SharedTypes ==
  /\ current \in [Agents -> Runs \cup {NoRun}]
  /\ flight \in [Agents -> Procs \cup {NoProc}]
  /\ draining \subseteq Runs
  /\ inflight \in [Runs -> Nat]
  /\ finishing \subseteq Runs
  /\ queued \subseteq Runs
  /\ jobs \in Seq(Runs)
  /\ stopping \in BOOLEAN
  /\ cooling \in BOOLEAN
  /\ origin \in [Runs -> Runs \cup {NoRun}]
  /\ agentOf \in [Runs -> Agents \cup {NoAgent}]
  /\ aged \subseteq Runs
  /\ up \in [Runs -> {"none", "running", "ended"}]
  /\ record \in [Agents -> Runs \cup {NoRun}]
  /\ dropped \subseteq Runs

SharedOK == SharedTypes /\ MadeSound
ProcsOK == pc \in [Procs -> PCs] /\ loc \in [Procs -> Locals] /\ AllFit

LEMMA BaseParts == /\ Base <=> SharedOK /\ ProcsOK
                   /\ Base' <=> SharedOK' /\ ProcsOK'
BY DEF Base, SharedOK, ProcsOK, SharedTypes, TypeOK

-----------------------------------------------------------------------------
(* The processes.                                                           *)

LEMMA ThreeAtMost ==
  ASSUME NEW a, NEW b, NEW c
  PROVE  Cardinality({a, b, c}) <= 3
<1>1. IsFiniteSet({a}) /\ Cardinality({a}) = 1
  BY FS_Singleton
<1>2. IsFiniteSet({a} \cup {b}) /\ Cardinality({a} \cup {b}) \in {1, 2}
  <2>1. /\ IsFiniteSet({a} \cup {b})
        /\ Cardinality({a} \cup {b}) = IF b \in {a} THEN Cardinality({a})
                                      ELSE Cardinality({a}) + 1
    BY <1>1, FS_AddElement
  <2> QED
    BY <1>1, <2>1
<1>3. Cardinality(({a} \cup {b}) \cup {c}) \in {1, 2, 3}
  <2> DEFINE S == {a} \cup {b}
  <2> HIDE DEF S
  <2>1. Cardinality(S \cup {c}) = IF c \in S THEN Cardinality(S) ELSE Cardinality(S) + 1
    BY <1>2, FS_AddElement DEF S
  <2>2. Cardinality(S) \in {1, 2}
    BY <1>2 DEF S
  <2>3. Cardinality(S \cup {c}) \in {1, 2, 3}
    BY <2>1, <2>2
  <2> QED
    BY <2>3 DEF S
<1>4. ({a} \cup {b}) \cup {c} = {a, b, c}
  OBVIOUS
<1> QED
  BY <1>3, <1>4

LEMMA ProcsDiffer ==
  /\ Maint \notin Callers /\ Drainer \notin Callers /\ Worker \notin Callers
  /\ Stopper \notin Callers
  /\ Maint # Drainer /\ Maint # Worker /\ Maint # Stopper
  /\ Drainer # Worker /\ Drainer # Stopper /\ Worker # Stopper
<1>1. ASSUME NEW a, NEW b, NEW c, {Maint, Drainer, Worker, Stopper} = {a, b, c}
      PROVE  FALSE
  <2>1. Cardinality({a, b, c}) = 4
    BY <1>1, RunAssumption
  <2>2. Cardinality({a, b, c}) <= 3
    BY ThreeAtMost
  <2> QED
    BY <2>1, <2>2
<1>2. Maint # Drainer
  <2>1. Maint = Drainer => {Maint, Drainer, Worker, Stopper} = {Drainer, Worker, Stopper}
    OBVIOUS
  <2> QED
    BY <1>1, <2>1
<1>3. Maint # Worker
  <2>1. Maint = Worker => {Maint, Drainer, Worker, Stopper} = {Drainer, Worker, Stopper}
    OBVIOUS
  <2> QED
    BY <1>1, <2>1
<1>4. Maint # Stopper
  <2>1. Maint = Stopper => {Maint, Drainer, Worker, Stopper} = {Drainer, Worker, Stopper}
    OBVIOUS
  <2> QED
    BY <1>1, <2>1
<1>5. Drainer # Worker
  <2>1. Drainer = Worker => {Maint, Drainer, Worker, Stopper} = {Maint, Worker, Stopper}
    OBVIOUS
  <2> QED
    BY <1>1, <2>1
<1>6. Drainer # Stopper
  <2>1. Drainer = Stopper => {Maint, Drainer, Worker, Stopper} = {Maint, Worker, Stopper}
    OBVIOUS
  <2> QED
    BY <1>1, <2>1
<1>7. Worker # Stopper
  <2>1. Worker = Stopper => {Maint, Drainer, Worker, Stopper} = {Maint, Drainer, Stopper}
    OBVIOUS
  <2> QED
    BY <1>1, <2>1
<1> QED
  BY <1>2, <1>3, <1>4, <1>5, <1>6, <1>7, RunAssumption

\* Who can be at a place.
LEMMA WhoIsWhere ==
  ASSUME NEW p \in Procs, NEW s \in Places(p)
  PROVE  /\ s \in PCs
         /\ s \in {"idle", "check", "lease", "leased", "invalid"} => p \in Callers
         /\ s \in RotatePCs \cup {"mark", "send"} => p \in Callers \cup {Maint}
         /\ s \in {"finish", "dispatch", "call"} => p # Stopper
         /\ s = "turn" => p = Maint
         /\ s = "each" => p = Drainer
         /\ s \in {"work", "exited"} => p = Worker
         /\ s \in {"flagged", "waiting", "save", "last", "done"} => p = Stopper
BY ProcsDiffer DEF Places, PCs, RotatePCs, FinishPCs, Procs

LEMMA HomeFits ==
  ASSUME NEW M, NEW p \in Procs
  PROVE  /\ NoLoc(p) \in Locals
         /\ Fits(M, p, Home(p), NoLoc(p))
<1>1. NoLoc(p) \in Locals
  <2>1. Home(p) \in PCs
    BY DEF Home, PCs
  <2> QED
    BY <2>1 DEF NoLoc, Locals
<1>2. Home(p) \in Places(p) \cap Returns(p)
  BY ProcsDiffer DEF Home, Places, Returns, Procs
<1>3. /\ Home(p) \notin RotatePCs \cup FinishPCs
      /\ Home(p) \notin {"check", "lease", "invalid", "leased"}
  BY DEF Home, RotatePCs, FinishPCs
<1>4. NoLoc(p).ret = Home(p) /\ NoLoc(p).plan = {} /\ NoLoc(p).todo = {}
  BY DEF NoLoc
<1>5. Home(p) \notin {"persist", "discard", "adopt", "purge", "finish", "dispatch", "call"}
  BY <1>3 DEF RotatePCs, FinishPCs
<1> QED
  BY <1>1, <1>2, <1>3, <1>4, <1>5 DEF Fits

LEMMA FitsGrows ==
  ASSUME NEW M, NEW N, M \subseteq N, NEW p, NEW s, NEW l, Fits(M, p, s, l)
  PROVE  Fits(N, p, s, l)
BY DEF Fits

\* A move of one process to a place that fits.
LEMMA MoveFits ==
  ASSUME ProcsOK, Made \subseteq Made', NEW p \in Procs, NEW s, NEW l,
         To(p, s, l), Fits(Made', p, s, l)
  PROVE  /\ ProcsOK'
         /\ pc'[p] = s /\ loc'[p] = l
         /\ \A q \in Procs \ {p} : pc'[q] = pc[q] /\ loc'[q] = loc[q]
<1>1. s \in PCs /\ l \in Locals
  BY WhoIsWhere DEF Fits
<1>2. /\ pc'[p] = s /\ loc'[p] = l
      /\ \A q \in Procs \ {p} : pc'[q] = pc[q] /\ loc'[q] = loc[q]
      /\ pc' \in [Procs -> PCs] /\ loc' \in [Procs -> Locals]
  BY <1>1 DEF To, ProcsOK
<1>3. ASSUME NEW q \in Procs
      PROVE  Fits(Made', q, pc'[q], loc'[q])
  BY <1>2, FitsGrows DEF ProcsOK, AllFit
<1> QED
  BY <1>2, <1>3 DEF ProcsOK, AllFit

\* Where Back goes fits, and it is no place of the lease or the FINISH.
LEMMA BackFits ==
  ASSUME NEW M, NEW p \in Procs, Fits(M, p, pc[p], loc[p]),
         pc[p] \in RotatePCs \cup FinishPCs, Back(p)
  PROVE  \E s, l : /\ To(p, s, l) /\ Fits(M, p, s, l)
                   /\ s \in {"idle", "lease", "invalid", "rest", "turn", "each", "work"}
                   /\ s = loc[p].ret
                   /\ s = "each" => l.todo = loc[p].todo
<1> DEFINE s == loc[p].ret
           l == IF s = Home(p) THEN NoLoc(p) ELSE [loc[p] EXCEPT !.job = NoRun, !.run = NoRun]
<1>1. To(p, s, l)
  BY DEF Back
<1>2. CASE s = Home(p)
  <2>1. s \in {"idle", "rest", "work"}
    BY <1>2 DEF Home
  <2> QED
    BY <1>1, <1>2, <2>1, HomeFits
<1>3. CASE s # Home(p)
  <2>1. l = [loc[p] EXCEPT !.job = NoRun, !.run = NoRun]
    BY <1>3
  <2>2. loc[p] \in Locals /\ s \in Returns(p)
    BY DEF Fits
  <2>3. /\ l \in Locals
        /\ l.ret = loc[p].ret /\ l.agent = loc[p].agent
        /\ l.plan = loc[p].plan /\ l.todo = loc[p].todo
    BY <2>1, <2>2 DEF Locals
  <2>4. \/ p \in Callers /\ s \in {"lease", "invalid"}
        \/ p = Maint /\ s = "turn"
        \/ p = Drainer /\ s = "each"
    BY <1>3, <2>2, ProcsDiffer DEF Returns, Home, Procs
  <2> HIDE DEF l
  <2>5. Fits(M, p, s, l)
    BY <2>3, <2>4, ProcsDiffer DEF Fits, Places, Returns, RotatePCs, FinishPCs
  <2> QED
    BY <1>1, <2>3, <2>4, <2>5
<1> QED
  BY <1>2, <1>3

LEMMA FailFits ==
  ASSUME NEW M, NEW p \in Procs, Fits(M, p, pc[p], loc[p]), pc[p] \in RotatePCs \cup {"check"}
  PROVE  /\ Fits(M, p, FailPc(p), FailLoc(p))
         /\ FailPc(p) \in {"idle", "rest", "turn"}
<1>1. p \in Callers \cup {Maint}
  BY WhoIsWhere DEF Fits
<1>2. loc[p] \in Locals /\ loc[p].ret \in Returns(p)
  BY DEF Fits
<1>3. CASE FailPc(p) = Home(p)
  BY <1>3, HomeFits, <1>1, ProcsDiffer DEF FailLoc, Home
<1>4. CASE FailPc(p) # Home(p)
  <2> DEFINE l == [loc[p] EXCEPT !.job = NoRun, !.run = NoRun]
  <2>1. p = Maint /\ FailPc(p) = "turn" /\ loc[p].ret = "turn" /\ FailLoc(p) = l
    BY <1>1, <1>2, <1>4, ProcsDiffer DEF FailPc, FailLoc, Home, Returns
  <2>2. /\ l \in Locals
        /\ l.ret = loc[p].ret /\ l.agent = loc[p].agent
        /\ l.plan = loc[p].plan /\ l.todo = loc[p].todo
    BY <1>2 DEF Locals
  <2> HIDE DEF l
  <2>3. Fits(M, p, "turn", l)
    BY <2>1, <2>2, ProcsDiffer DEF Fits, Places, Returns, RotatePCs, FinishPCs
  <2> QED
    BY <2>1, <2>3
<1> QED
  BY <1>3, <1>4

\* Everybody but p stays, or is woken by the flight p has landed.
OthersStay(p) == \A q \in Procs \ {p} : pc'[q] = pc[q] /\ loc'[q] = loc[q]
Woken(q) == pc[q] = "await" /\ pc'[q] \in {"idle", "lease", "rest", "turn", "rotate"}
OthersWait(p) == \A q \in Procs \ {p} : \/ pc'[q] = pc[q] /\ loc'[q] = loc[q]
                                        \/ Woken(q)

\* Where a call ends.
Ends == {"idle", "lease", "invalid", "rest", "turn", "each", "work"}

\* The flight p has led is over, and nobody waits for it any more.
Landed(p) == /\ flight' = [flight EXCEPT ![loc[p].agent] = NoProc]
             /\ pc'[p] \in Ends \cup {"mark", "persist", "discard"}
             /\ \A q \in Procs : pc'[q] = "await" =>
                  q # p /\ pc[q] = "await" /\ loc'[q] = loc[q] /\ loc[q].agent # loc[p].agent

\* A landing: the leader goes where it fits, and so do those it wakes.
LEMMA LandFits ==
  ASSUME ProcsOK, Made \subseteq Made', NEW p \in Procs, NEW s, NEW l,
         NEW wake \in {"ok", "err", "retry"},
         Land(p, s, l, wake), Fits(Made', p, s, l), s \in Ends \cup {"mark", "persist", "discard"}
  PROVE  /\ ProcsOK'
         /\ pc'[p] = s /\ loc'[p] = l
         /\ OthersWait(p)
         /\ Landed(p)
<1>1. /\ pc'[p] = s /\ loc'[p] = l
      /\ (\A q \in Procs : pc'[q] \in PCs) => pc' \in [Procs -> PCs]
      /\ (\A q \in Procs : loc'[q] \in Locals) => loc' \in [Procs -> Locals]
  <2> DEFINE f(q) == CASE q = p -> s
                       [] Waits(p, q) /\ wake = "ok" -> loc[q].ret
                       [] Waits(p, q) /\ wake = "err" -> FailPc(q)
                       [] Waits(p, q) /\ wake = "retry" -> "rotate"
                       [] OTHER -> pc[q]
             g(q) == CASE q = p -> l
                       [] Waits(p, q) /\ wake = "ok" /\ loc[q].ret = Home(q) -> NoLoc(q)
                       [] Waits(p, q) /\ wake = "err" -> FailLoc(q)
                       [] OTHER -> loc[q]
  <2>1. pc' = [q \in Procs |-> f(q)] /\ loc' = [q \in Procs |-> g(q)]
    BY DEF Land
  <2>2. f(p) = s /\ g(p) = l
    BY DEF Waits
  <2> HIDE DEF f, g
  <2>3. (\A q \in Procs : pc'[q] \in PCs) => pc' \in [Procs -> PCs]
    BY <2>1
  <2>4. (\A q \in Procs : loc'[q] \in Locals) => loc' \in [Procs -> Locals]
    BY <2>1
  <2> QED
    BY <2>1, <2>2, <2>3, <2>4
<1>2. ASSUME NEW q \in Procs \ {p}, ~Waits(p, q)
      PROVE  pc'[q] = pc[q] /\ loc'[q] = loc[q]
  BY <1>2 DEF Land
<1>3. ASSUME NEW q \in Procs \ {p}, Waits(p, q)
      PROVE  Woken(q) /\ Fits(Made', q, pc'[q], loc'[q])
  <2>1. pc[q] = "await" /\ Fits(Made', q, pc[q], loc[q])
    BY <1>3, FitsGrows DEF Waits, ProcsOK, AllFit
  <2>2. q \in Callers \cup {Maint} /\ "await" \in RotatePCs
    BY <2>1, WhoIsWhere DEF Fits, RotatePCs
  <2>3. CASE wake = "ok"
    <3>1. /\ pc'[q] = loc[q].ret
          /\ loc'[q] = IF loc[q].ret = Home(q) THEN NoLoc(q) ELSE loc[q]
      BY <1>3, <2>3 DEF Land
    <3>2. \/ q \in Callers /\ loc[q].ret \in {"idle", "lease"}
          \/ q = Maint /\ loc[q].ret \in {"rest", "turn"}
      BY <2>1, <2>2, ProcsDiffer DEF Fits, Returns
    <3>3. CASE loc[q].ret = Home(q)
      BY <2>1, <3>1, <3>2, <3>3, HomeFits DEF Woken
    <3>4. CASE loc[q].ret # Home(q)
      <4>1. loc[q].ret \in {"lease", "turn"} /\ loc'[q] = loc[q]
        BY <3>1, <3>2, <3>4, ProcsDiffer DEF Home
      <4>2. loc[q].ret \in Places(q)
        BY <3>2, ProcsDiffer DEF Places
      <4> QED
        BY <2>1, <2>2, <3>1, <3>2, <4>1, <4>2, ProcsDiffer DEF Fits, RotatePCs, FinishPCs, Woken
    <3> QED
      BY <3>3, <3>4
  <2>4. CASE wake = "err"
    BY <1>3, <2>1, <2>2, <2>4, FailFits DEF Land, Woken
  <2>5. CASE wake = "retry"
    <3>1. pc'[q] = "rotate" /\ loc'[q] = loc[q]
      BY <1>3, <2>5 DEF Land
    <3>2. "rotate" \in Places(q)
      BY <2>2, ProcsDiffer DEF Places, RotatePCs
    <3> QED
      BY <2>1, <2>2, <3>1, <3>2, ProcsDiffer DEF Fits, RotatePCs, FinishPCs, Woken
  <2> QED
    BY <2>3, <2>4, <2>5
<1>4. ASSUME NEW q \in Procs
      PROVE  Fits(Made', q, pc'[q], loc'[q])
  <2>1. CASE q # p /\ ~Waits(p, q)
    BY <1>2, <2>1, FitsGrows DEF ProcsOK, AllFit
  <2> QED
    BY <1>1, <1>3, <2>1
<1>5. ProcsOK'
  <2>1. \A q \in Procs : pc'[q] \in PCs /\ loc'[q] \in Locals
    BY <1>4, WhoIsWhere DEF Fits
  <2> QED
    BY <1>1, <1>4, <2>1 DEF ProcsOK, AllFit
<1>6. \A q \in Procs \ {p} : ~Waits(p, q) /\ pc[q] = "await" => loc[q].agent # loc[p].agent
  BY DEF Waits
<1>7. flight' = [flight EXCEPT ![loc[p].agent] = NoProc] /\ s # "await"
  BY DEF Land, Ends
<1> QED
  BY <1>1, <1>2, <1>3, <1>5, <1>6, <1>7 DEF OthersWait, Woken, Landed

-----------------------------------------------------------------------------
(* The shared variables.                                                    *)

\* A step that makes nothing and touches neither sets nor records.
LEMMA SharedStays ==
  ASSUME SharedOK, UNCHANGED <<current, draining, queued, finishing, jobs, bornVars, record>>,
         flight' \in [Agents -> Procs \cup {NoProc}],
         inflight' \in [Runs -> Nat], stopping' \in BOOLEAN, cooling' \in BOOLEAN,
         aged' \subseteq Runs, up' \in [Runs -> {"none", "running", "ended"}],
         dropped' \subseteq Runs
  PROVE  SharedOK' /\ Made' = Made
BY DEF SharedOK, SharedTypes, MadeSound, Made, bornVars

\* The draining list and what is let go are made of what was there.
LEMMA DrainToTypes ==
  ASSUME NEW base, NEW new, base \subseteq Runs, new \subseteq Runs,
         dropped \subseteq Runs, DrainTo(base, new)
  PROVE  /\ draining' \subseteq base \cup new
         /\ dropped' \subseteq Runs
         /\ dropped \subseteq dropped'
         /\ base \cup new \subseteq draining' \cup dropped'
BY DEF DrainTo

LEMMA AppendTypes ==
  ASSUME NEW r \in Runs, draining \subseteq Runs, dropped \subseteq Runs, AppendDraining(r)
  PROVE  /\ draining' \subseteq draining \cup {r}
         /\ dropped' \subseteq Runs
         /\ dropped \subseteq dropped'
         /\ draining \cup {r} \subseteq draining' \cup dropped'
BY DrainToTypes DEF AppendDraining

-----------------------------------------------------------------------------
(* Acquire, rotate.                                                         *)

LEMMA EntryKeeps ==
  ASSUME Base, NEW p \in Procs,
         \/ \E a \in Agents : Acquire(p, a) /\ p \in Callers
         \/ \E a \in Agents : Precreate(p, a) /\ p \in Callers \cup {Maint}
         \/ Check(p) \/ Lease(p) \/ Cancelled(p)
  PROVE  Base' /\ OthersStay(p)
<1>0. SharedOK /\ ProcsOK /\ Fits(Made, p, pc[p], loc[p])
  BY BaseParts DEF ProcsOK, AllFit
<1>1. SharedOK' /\ Made' = Made
  <2>1. inflight' \in [Runs -> Nat]
    <3>1. CASE Lease(p)
      <4>1. \A r \in Runs : inflight[r] + 1 \in Nat
        BY <1>0 DEF SharedOK, SharedTypes
      <4>2. pc[p] = "lease"
        BY <3>1 DEF Lease
      <4>3. loc[p].agent \in Agents
        BY <1>0, <4>2 DEF Fits
      <4>4. \/ UNCHANGED inflight
            \/ \E r \in Runs : inflight' = [inflight EXCEPT ![r] = @ + 1]
        BY <1>0, <3>1, <4>3 DEF Lease, Leased, SharedOK, SharedTypes
      <4> QED
        BY <1>0, <4>1, <4>4 DEF SharedOK, SharedTypes
    <3>2. CASE ~Lease(p)
      BY <1>0, <3>2 DEF Acquire, Precreate, Check, Cancelled, markVars, SharedOK, SharedTypes
    <3> QED
      BY <3>1, <3>2
  <2>2. /\ UNCHANGED <<current, draining, queued, finishing, jobs, bornVars, record>>
        /\ UNCHANGED <<flight, stopping, cooling, aged, up, dropped>>
    BY DEF Acquire, Precreate, Check, Lease, Cancelled, setVars, markVars, outerVars
  <2> QED
    BY <1>0, <2>1, <2>2, SharedStays DEF SharedOK, SharedTypes
<1>2. \E s, l : To(p, s, l) /\ Fits(Made, p, s, l)
  <2>1. CASE \E a \in Agents : Acquire(p, a) /\ p \in Callers
    <3>1. PICK a \in Agents : Acquire(p, a) /\ p \in Callers
      BY <2>1
    <3> DEFINE l == [NoLoc(p) EXCEPT !.agent = a, !.ret = "lease"]
    <3>2. To(p, "check", l)
      BY <3>1 DEF Acquire
    <3>3. /\ l \in Locals /\ l.agent = a /\ l.ret = "lease"
          /\ l.plan = {} /\ l.todo = {}
      BY HomeFits DEF NoLoc, Locals, PCs
    <3> HIDE DEF l
    <3>4. Fits(Made, p, "check", l)
      BY <3>1, <3>3, ProcsDiffer DEF Fits, Places, Returns, RotatePCs, FinishPCs
    <3> QED
      BY <3>2, <3>4
  <2>2. CASE \E a \in Agents : Precreate(p, a) /\ p \in Callers \cup {Maint}
    <3>1. PICK a \in Agents : Precreate(p, a) /\ p \in Callers \cup {Maint}
      BY <2>2
    <3> DEFINE l == [NoLoc(p) EXCEPT !.agent = a]
    <3>2. To(p, "rotate", l)
      BY <3>1 DEF Precreate
    <3>3. /\ l \in Locals /\ l.agent = a /\ l.ret = Home(p)
          /\ l.plan = {} /\ l.todo = {}
      BY HomeFits DEF NoLoc, Locals, PCs
    <3> HIDE DEF l
    <3>4. Fits(Made, p, "rotate", l)
      BY <3>1, <3>3, ProcsDiffer DEF Fits, Places, Returns, Home, RotatePCs, FinishPCs
    <3> QED
      BY <3>2, <3>4
  <2>3. CASE Check(p)
    <3>1. pc[p] = "check"
      BY <2>3 DEF Check
    <3>2. CASE Fail(p)
      BY <1>0, <3>1, <3>2, FailFits DEF Fail
    <3>3. CASE \E s \in {"lease", "rotate"} : To(p, s, loc[p])
      <4>1. p \in Callers
        BY <1>0, <3>1, WhoIsWhere DEF Fits
      <4>2. \A s \in {"lease", "rotate"} : Fits(Made, p, s, loc[p])
        BY <1>0, <3>1, <4>1, ProcsDiffer DEF Fits, Places, RotatePCs, FinishPCs
      <4> QED
        BY <3>3, <4>2
    <3> QED
      BY <2>3, <3>2, <3>3 DEF Check
  <2>4. CASE Lease(p)
    <3> DEFINE r == current[loc[p].agent]
               l == [NoLoc(p) EXCEPT !.run = r]
    <3>1. pc[p] = "lease"
      BY <2>4 DEF Lease
    <3>2. p \in Callers /\ loc[p].agent \in Agents
      BY <1>0, <3>1, WhoIsWhere DEF Fits
    <3>3. CASE r = NoRun
      <4>1. To(p, "check", loc[p])
        BY <2>4, <3>3 DEF Lease
      <4>2. loc[p].ret # "invalid"
        BY <1>0, <3>1 DEF Fits
      <4> QED
        BY <1>0, <3>1, <3>2, <4>1, <4>2, ProcsDiffer DEF Fits, Places, RotatePCs, FinishPCs
    <3>4. CASE r # NoRun
      <4>1. To(p, "leased", l)
        BY <2>4, <3>4 DEF Lease
      <4>2. r \in Made
        BY <1>0, <3>2, <3>4 DEF SharedOK, MadeSound
      <4>3. l \in Locals /\ l.run = r /\ l.ret = "idle" /\ l.plan = {} /\ l.todo = {}
        BY <3>2, <4>2, HomeFits DEF NoLoc, Locals, Home, Made
      <4> HIDE DEF l
      <4>4. Fits(Made, p, "leased", l)
        BY <3>2, <4>2, <4>3, ProcsDiffer DEF Fits, Places, Returns, RotatePCs, FinishPCs
      <4> QED
        BY <4>1, <4>4
    <3> QED
      BY <3>3, <3>4
  <2>5. CASE Cancelled(p)
    BY <1>0, <2>5, FailFits DEF Cancelled, Fail, RotatePCs
  <2> QED
    BY <2>1, <2>2, <2>3, <2>4, <2>5
<1> QED
  BY <1>0, <1>1, <1>2, MoveFits, BaseParts DEF OthersStay

\* A step that makes nothing: what it names was named before.
LEMMA NothingMade ==
  ASSUME SharedOK, UNCHANGED bornVars,
         flight' \in [Agents -> Procs \cup {NoProc}],
         inflight' \in [Runs -> Nat], stopping' \in BOOLEAN, cooling' \in BOOLEAN,
         aged' \subseteq Runs, up' \in [Runs -> {"none", "running", "ended"}],
         dropped' \subseteq Runs,
         current' \in [Agents -> Runs \cup {NoRun}],
         \A a \in Agents : current'[a] \in {current[a], NoRun},
         record' \in [Agents -> Runs \cup {NoRun}],
         \A a \in Agents : record'[a] \in Made \cup {NoRun},
         draining' \subseteq Made, queued' \subseteq Made, finishing' \subseteq Made,
         jobs' \in Seq(Runs), \A i \in DOMAIN jobs' : jobs'[i] \in Made
  PROVE  SharedOK' /\ Made' = Made
<1>1. Made' = Made /\ Made \subseteq Runs
  BY DEF Made, bornVars
<1>2. SharedTypes'
  BY <1>1 DEF SharedOK, SharedTypes, bornVars
<1>3. MadeSound'
  BY <1>1 DEF SharedOK, MadeSound, bornVars
<1> QED
  BY <1>1, <1>2, <1>3 DEF SharedOK

LEMMA RecordChanges ==
  ASSUME SharedOK, UNCHANGED <<current, draining, queued, finishing, jobs, bornVars>>,
         UNCHANGED <<flight, inflight, stopping, cooling, aged, up, dropped>>,
         NEW a, NEW r \in Made \cup {NoRun}, record' = [record EXCEPT ![a] = r]
  PROVE  SharedOK' /\ Made' = Made
<1>1. /\ record' \in [Agents -> Runs \cup {NoRun}]
      /\ \A b \in Agents : record'[b] \in Made \cup {NoRun}
  BY DEF SharedOK, SharedTypes, MadeSound, Made
<1> QED
  BY <1>1, NothingMade DEF SharedOK, SharedTypes, MadeSound

\* The moves of one process inside a rotation.
LEMMA RotateKeeps ==
  ASSUME Base, NEW p \in Procs,
         \/ RotateRefused(p) \/ RotateNotNeeded(p) \/ RotateWait(p) \/ RotateLead(p)
         \/ Lookup(p) \/ Purge(p) \/ Discard(p) \/ PersistNew(p)
  PROVE  Base' /\ OthersStay(p)
<1>0. SharedOK /\ ProcsOK /\ Fits(Made, p, pc[p], loc[p])
  BY BaseParts DEF ProcsOK, AllFit
<1>1. pc[p] \in RotatePCs
  BY DEF RotateRefused, RotateNotNeeded, RotateWait, RotateLead, Lookup, Purge, Discard,
         PersistNew, RotatePCs
<1>2. p \in Callers \cup {Maint} /\ loc[p].agent \in Agents /\ loc[p] \in Locals
  BY <1>0, <1>1, WhoIsWhere DEF Fits
<1>3. /\ RotatePCs \subseteq Places(p)
      /\ loc[p].ret \in Returns(p) /\ loc[p].ret # "invalid"
      /\ loc[p].plan \subseteq Made /\ loc[p].todo \subseteq Made
      /\ p # Drainer
  BY <1>0, <1>1, <1>2, ProcsDiffer DEF Fits, Places
\* Inside the rotation only the run and the job have to fit the place.
<1>4. ASSUME NEW s \in RotatePCs, NEW l \in Locals,
             l.agent = loc[p].agent, l.ret = loc[p].ret, l.plan = loc[p].plan, l.todo = loc[p].todo,
             s \in {"persist", "discard", "adopt", "purge"} => l.run \in Made,
             s = "persist" => l.job \in Made \cup {NoRun}
      PROVE  Fits(Made, p, s, l)
  <2>1. s \notin FinishPCs /\ s # "leased"
    BY DEF RotatePCs, FinishPCs
  <2> QED
    BY <1>2, <1>3, <1>4, <2>1 DEF Fits
<1>5. CASE RotateRefused(p) \/ RotateNotNeeded(p) \/ RotateWait(p) \/ RotateLead(p) \/ Lookup(p)
  <2>1. SharedOK' /\ Made' = Made
    <3>1. flight' \in [Agents -> Procs \cup {NoProc}]
      BY <1>0, <1>2, <1>5 DEF RotateRefused, RotateNotNeeded, RotateWait, RotateLead, Lookup,
                              SharedOK, SharedTypes
    <3>2. /\ UNCHANGED <<current, draining, queued, finishing, jobs, bornVars, record>>
          /\ UNCHANGED <<inflight, stopping, cooling, aged, up, dropped>>
      BY <1>5 DEF RotateRefused, RotateNotNeeded, RotateWait, RotateLead, Lookup, setVars,
                  markVars, outerVars
    <3> QED
      BY <1>0, <3>1, <3>2, SharedStays DEF SharedOK, SharedTypes
  <2>2. \E s, l : To(p, s, l) /\ Fits(Made, p, s, l)
    <3>1. CASE Fail(p)
      BY <1>0, <1>1, <3>1, FailFits DEF Fail
    <3>2. CASE Back(p)
      BY <1>0, <1>1, <3>2, BackFits
    <3>3. CASE RotateWait(p) \/ RotateLead(p)
      <4>1. \E s \in {"await", "lookup", "start"} : To(p, s, loc[p])
        BY <3>3 DEF RotateWait, RotateLead
      <4>2. \A s \in {"await", "lookup", "start"} : Fits(Made, p, s, loc[p])
        BY <1>2, <1>4 DEF RotatePCs
      <4> QED
        BY <4>1, <4>2
    <3>4. CASE Lookup(p)
      <4> DEFINE r == record[loc[p].agent]
                 l == [loc[p] EXCEPT !.run = r]
      <4>1. r \in Made \cup {NoRun} /\ r \in Runs \cup {NoRun}
        BY <1>0, <1>2 DEF SharedOK, SharedTypes, MadeSound, Made
      <4>2. /\ l \in Locals /\ l.run = r
            /\ l.agent = loc[p].agent /\ l.ret = loc[p].ret
            /\ l.plan = loc[p].plan /\ l.todo = loc[p].todo
        BY <1>2, <4>1 DEF Locals
      <4>3. PICK s \in {"adopt", "start", "purge"} :
              /\ To(p, s, l)
              /\ s # "start" => r # NoRun
        BY <3>4 DEF Lookup, Adoptable
      <4> HIDE DEF l
      <4>4. Fits(Made, p, s, l)
        BY <1>4, <4>1, <4>2, <4>3 DEF RotatePCs
      <4> QED
        BY <4>3, <4>4
    <3> QED
      BY <1>5, <3>1, <3>2, <3>3, <3>4 DEF RotateRefused, RotateNotNeeded
  <2> QED
    BY <1>0, <2>1, <2>2, MoveFits, BaseParts DEF OthersStay
<1>6. CASE Purge(p)
  <2> DEFINE l == [loc[p] EXCEPT !.run = NoRun]
  <2>1. SharedOK' /\ Made' = Made
    BY <1>0, <1>6, RecordChanges DEF Purge, setVars, markVars, outerVars
  <2>2. /\ l \in Locals
        /\ l.agent = loc[p].agent /\ l.ret = loc[p].ret
        /\ l.plan = loc[p].plan /\ l.todo = loc[p].todo
    BY <1>2 DEF Locals
  <2>3. To(p, "start", l)
    BY <1>6 DEF Purge
  <2> HIDE DEF l
  <2>4. Fits(Made, p, "start", l)
    BY <1>4, <2>2 DEF RotatePCs
  <2> QED
    BY <1>0, <2>1, <2>3, <2>4, MoveFits, BaseParts DEF OthersStay
<1>7. CASE Discard(p)
  <2>1. loc[p].run \in Made /\ loc[p].run \in Runs
    BY <1>0, <1>7 DEF Discard, Fits, Made
  <2>2. up' \in [Runs -> {"none", "running", "ended"}] /\ dropped' \subseteq Runs
    BY <1>0, <1>7, <2>1 DEF Discard, SharedOK, SharedTypes
  <2>3. SharedOK' /\ Made' = Made
    <3>1. /\ UNCHANGED <<current, draining, queued, finishing, jobs, bornVars, record>>
          /\ UNCHANGED <<flight, inflight, stopping, cooling, aged>>
      BY <1>7 DEF Discard, markVars, outerVars
    <3> QED
      BY <1>0, <2>2, <3>1, SharedStays DEF SharedOK, SharedTypes
  <2>4. To(p, FailPc(p), FailLoc(p)) /\ Fits(Made, p, FailPc(p), FailLoc(p))
    BY <1>0, <1>1, <1>7, FailFits DEF Discard, Fail
  <2> QED
    BY <1>0, <2>3, <2>4, MoveFits, BaseParts DEF OthersStay
<1>8. CASE PersistNew(p)
  <2>1. pc[p] = "persist" /\ loc[p].run \in Made /\ loc[p].job \in Made \cup {NoRun}
    BY <1>0, <1>8 DEF PersistNew, Fits
  <2>2. SharedOK' /\ Made' = Made
    BY <1>0, <1>8, <2>1, RecordChanges DEF PersistNew, setVars, markVars, outerVars
  <2>3. \E s, l : To(p, s, l) /\ Fits(Made, p, s, l)
    <3>1. CASE loc[p].job = NoRun
      BY <1>0, <1>1, <1>8, <3>1, BackFits DEF PersistNew
    <3>2. CASE loc[p].job # NoRun
      <4> DEFINE l == [loc[p] EXCEPT !.run = NoRun]
      <4>1. To(p, "mark", l)
        BY <1>8, <3>2 DEF PersistNew
      <4>2. /\ l \in Locals /\ l.job \in Made
            /\ l.agent = loc[p].agent /\ l.ret = loc[p].ret
            /\ l.plan = loc[p].plan /\ l.todo = loc[p].todo
        BY <1>2, <2>1, <3>2 DEF Locals
      <4>3. "mark" \in Places(p)
        BY <1>2, ProcsDiffer DEF Places, FinishPCs
      <4> HIDE DEF l
      <4>4. Fits(Made, p, "mark", l)
        BY <1>2, <1>3, <4>2, <4>3 DEF Fits, RotatePCs, FinishPCs
      <4> QED
        BY <4>1, <4>4
    <3> QED
      BY <3>1, <3>2
  <2> QED
    BY <1>0, <2>2, <2>3, MoveFits, BaseParts DEF OthersStay
<1> QED
  BY <1>5, <1>6, <1>7, <1>8

\* The flight fails.
LEMMA FlightFails ==
  ASSUME Base, NEW p \in Procs, AdoptRefused(p) \/ StartErr(p)
  PROVE  Base' /\ OthersWait(p) /\ Landed(p)
<1>0. SharedOK /\ ProcsOK /\ Fits(Made, p, pc[p], loc[p])
  BY BaseParts DEF ProcsOK, AllFit
<1>1. /\ pc[p] \in RotatePCs
      /\ \E wake \in {"err", "retry"} : Land(p, FailPc(p), FailLoc(p), wake)
  BY DEF AdoptRefused, StartErr, RotatePCs
<1>2. loc[p].agent \in Agents
  BY <1>0, <1>1 DEF Fits
<1>3. SharedOK' /\ Made' = Made
  <2>1. flight' \in [Agents -> Procs \cup {NoProc}]
    BY <1>0, <1>1, <1>2 DEF Land, SharedOK, SharedTypes
  <2>2. /\ UNCHANGED <<current, draining, queued, finishing, jobs, bornVars, record>>
        /\ UNCHANGED <<inflight, stopping, cooling, aged, up, dropped>>
    BY DEF AdoptRefused, StartErr, setVars, markVars, outerVars
  <2> QED
    BY <1>0, <2>1, <2>2, SharedStays DEF SharedOK, SharedTypes
<1>4. Fits(Made', p, FailPc(p), FailLoc(p)) /\ FailPc(p) \in Ends
  BY <1>0, <1>1, <1>3, FailFits DEF Ends
<1> QED
  BY <1>0, <1>1, <1>3, <1>4, LandFits, BaseParts

\* One object is made, for the agent of the flight.
Makes(p, r, from) == /\ r \in Unmade
                     /\ origin' = [origin EXCEPT ![r] = from]
                     /\ agentOf' = [agentOf EXCEPT ![r] = loc[p].agent]

LEMMA MakesOne ==
  ASSUME SharedOK, NEW p \in Procs, loc[p].agent \in Agents,
         NEW r \in Runs, NEW from \in Made \cup {r}, Makes(p, r, from)
  PROVE  /\ Made' = Made \cup {r}
         /\ r \notin Made
         /\ origin' \in [Runs -> Runs \cup {NoRun}]
         /\ agentOf' \in [Runs -> Agents \cup {NoAgent}]
         /\ \A x \in Made' : agentOf'[x] \in Agents /\ origin'[x] \in Made'
         /\ agentOf'[r] = loc[p].agent /\ origin'[r] = from
         /\ \A x \in Made : agentOf'[x] = agentOf[x] /\ origin'[x] = origin[x]
<1>1. from \in Runs /\ from # NoRun /\ r \notin Made
  BY RunAssumption DEF Makes, Unmade, Made
<1>2. /\ origin' \in [Runs -> Runs \cup {NoRun}]
      /\ agentOf' \in [Runs -> Agents \cup {NoAgent}]
      /\ agentOf'[r] = loc[p].agent /\ origin'[r] = from
      /\ \A x \in Runs \ {r} : agentOf'[x] = agentOf[x] /\ origin'[x] = origin[x]
  BY <1>1 DEF Makes, SharedOK, SharedTypes
<1>3. Made' = Made \cup {r}
  BY <1>1, <1>2 DEF Made
<1>4. Made \subseteq Runs
  BY DEF Made
<1> QED
  BY <1>1, <1>2, <1>3, <1>4 DEF SharedOK, MadeSound

\* The new object becomes current, and the run it replaces drains.
LEMMA InstallKeeps ==
  ASSUME SharedOK, NEW p \in Procs, loc[p].agent \in Agents,
         NEW r \in Runs, NEW from \in Made \cup {r}, Install(p, r, from),
         flight' = [flight EXCEPT ![loc[p].agent] = NoProc],
         up' \in [Runs -> {"none", "running", "ended"}],
         UNCHANGED <<inflight, finishing, queued, jobs, stopping, cooling, aged, record>>
  PROVE  SharedOK' /\ Made' = Made \cup {r}
<1> DEFINE a == loc[p].agent
           old == current[a]
<1>1. Makes(p, r, from)
  BY DEF Install, Makes
<1>2. current' = [current EXCEPT ![a] = r] /\ current \in [Agents -> Runs \cup {NoRun}]
  BY DEF Install, SharedOK, SharedTypes
<1>3. /\ current' \in [Agents -> Runs \cup {NoRun}]
      /\ current'[a] = r
      /\ \A b \in Agents \ {a} : current'[b] = current[b]
  BY <1>2
<1>4. old # NoRun => old \in Made /\ old \in Runs
  BY DEF SharedOK, MadeSound, Made
<1>5. draining' \subseteq Made /\ dropped' \subseteq Runs
  <2>1. CASE old = NoRun
    BY <2>1 DEF Install, SharedOK, SharedTypes, MadeSound
  <2>2. CASE old # NoRun
    <3>1. AppendDraining(old) /\ draining \subseteq Runs /\ dropped \subseteq Runs
      BY <2>2 DEF Install, SharedOK, SharedTypes
    <3>2. draining' \subseteq draining \cup {old} /\ dropped' \subseteq Runs
      BY <1>4, <2>2, <3>1, AppendTypes
    <3> QED
      BY <1>4, <2>2, <3>2 DEF SharedOK, MadeSound
  <2> QED
    BY <2>1, <2>2
<1>6. /\ Made' = Made \cup {r} /\ Made \subseteq Runs
      /\ origin' \in [Runs -> Runs \cup {NoRun}]
      /\ agentOf' \in [Runs -> Agents \cup {NoAgent}]
      /\ \A x \in Made' : agentOf'[x] \in Agents /\ origin'[x] \in Made'
      /\ agentOf'[r] = a
      /\ \A x \in Made : agentOf'[x] = agentOf[x]
  BY <1>1, MakesOne DEF Made
<1>7. SharedTypes'
  BY <1>3, <1>5, <1>6 DEF SharedOK, SharedTypes
<1>8. MadeSound'
  BY <1>3, <1>5, <1>6 DEF SharedOK, MadeSound
<1> QED
  BY <1>6, <1>7, <1>8 DEF SharedOK

\* Where a rotation goes on fits.
LEMMA AfterInstallFits ==
  ASSUME SharedOK, NEW p \in Procs, Fits(Made, p, pc[p], loc[p]), pc[p] \in RotatePCs
  PROVE  /\ Fits(Made, p, AfterInstall(p), AfterInstallLoc(p))
         /\ AfterInstall(p) \in {"idle", "lease", "rest", "turn", "mark"}
         /\ AfterInstall(p) = "mark" =>
              /\ current[loc[p].agent] # NoRun
              /\ AfterInstallLoc(p).job = current[loc[p].agent]
<1> DEFINE old == current[loc[p].agent]
<1>1. p \in Callers \cup {Maint} /\ loc[p] \in Locals /\ loc[p].agent \in Agents
  BY WhoIsWhere DEF Fits
<1>2. loc[p].ret \in Returns(p) /\ loc[p].ret # "invalid"
  BY DEF Fits
<1>3. \/ p \in Callers /\ loc[p].ret \in {"idle", "lease"} /\ Home(p) = "idle"
      \/ p = Maint /\ loc[p].ret \in {"rest", "turn"} /\ Home(p) = "rest"
  BY <1>1, <1>2, ProcsDiffer DEF Returns, Home
<1>4. old \in Made \cup {NoRun} /\ old \in Runs \cup {NoRun}
  BY <1>1 DEF SharedOK, SharedTypes, MadeSound
<1>5. CASE AfterInstall(p) = Home(p)
  <2>1. AfterInstallLoc(p) = NoLoc(p) /\ Home(p) \in {"idle", "rest"}
    BY <1>3, <1>5 DEF AfterInstallLoc
  <2> QED
    BY <1>5, <2>1, HomeFits
<1>6. CASE AfterInstall(p) # Home(p)
  <2> DEFINE l == [loc[p] EXCEPT !.run = NoRun, !.job = old]
  <2>1. AfterInstallLoc(p) = l
    BY <1>6 DEF AfterInstallLoc
  <2>2. /\ l \in Locals /\ l.job = old
        /\ l.agent = loc[p].agent /\ l.ret = loc[p].ret
        /\ l.plan = loc[p].plan /\ l.todo = loc[p].todo
    BY <1>1, <1>4 DEF Locals
  <2>3. \/ AfterInstall(p) = "mark" /\ old # NoRun
        \/ AfterInstall(p) = loc[p].ret /\ loc[p].ret \in {"lease", "turn"}
    BY <1>3, <1>6 DEF AfterInstall
  <2>4. AfterInstall(p) \in Places(p)
    BY <1>3, <2>3, ProcsDiffer DEF Places, FinishPCs
  <2> HIDE DEF l
  <2>5. Fits(Made, p, AfterInstall(p), l)
    BY <1>1, <1>2, <1>3, <1>4, <2>2, <2>3, <2>4, ProcsDiffer DEF Fits, RotatePCs, FinishPCs
  <2> QED
    BY <2>1, <2>2, <2>3, <2>5
<1> QED
  BY <1>5, <1>6

LEMMA FlightLands ==
  ASSUME Base, NEW p \in Procs, Adopt(p) \/ StartOk(p) \/ StartLate(p)
  PROVE  Base' /\ OthersWait(p) /\ Landed(p)
<1>0. SharedOK /\ ProcsOK /\ Fits(Made, p, pc[p], loc[p]) /\ Made \subseteq Runs
  BY BaseParts DEF ProcsOK, AllFit, Made
<1>1. pc[p] \in {"adopt", "start"} /\ pc[p] \in RotatePCs
  BY DEF Adopt, StartOk, StartLate, RotatePCs
<1>2. p \in Callers \cup {Maint} /\ loc[p].agent \in Agents /\ loc[p] \in Locals
  BY <1>0, <1>1, WhoIsWhere DEF Fits
<1>3. CASE Adopt(p)
  <2>1. PICK r \in Runs : Install(p, r, loc[p].run)
    BY <1>3 DEF Adopt
  <2>2. loc[p].run \in Made
    BY <1>0, <1>3 DEF Adopt, Fits
  <2>3. /\ Land(p, AfterInstall(p), AfterInstallLoc(p), "ok")
        /\ flight' = [flight EXCEPT ![loc[p].agent] = NoProc]
        /\ UNCHANGED <<inflight, finishing, queued, jobs, stopping, cooling, aged, record, up>>
    BY <1>3 DEF Adopt, Land, markVars, outerVars
  <2>4. SharedOK' /\ Made' = Made \cup {r}
    BY <1>0, <1>2, <2>1, <2>2, <2>3, InstallKeeps DEF SharedOK, SharedTypes
  <2>5. /\ Fits(Made', p, AfterInstall(p), AfterInstallLoc(p))
        /\ AfterInstall(p) \in Ends \cup {"mark"}
    BY <1>0, <1>1, <2>4, AfterInstallFits, FitsGrows DEF Ends
  <2> QED
    BY <1>0, <2>3, <2>4, <2>5, LandFits, BaseParts
<1>4. CASE StartOk(p)
  <2>1. PICK r \in Runs :
          /\ Install(p, r, r)
          /\ up' = [up EXCEPT ![r] = "running"]
          /\ \/ Land(p, "persist", [loc[p] EXCEPT !.run = r, !.job = current[loc[p].agent]], "ok")
             \/ Land(p, AfterInstall(p), AfterInstallLoc(p), "ok")
    BY <1>4 DEF StartOk
  <2>2. /\ flight' = [flight EXCEPT ![loc[p].agent] = NoProc]
        /\ UNCHANGED <<inflight, finishing, queued, jobs, stopping, cooling, aged, record>>
    BY <1>4, <2>1 DEF StartOk, Land, markVars, outerVars
  <2>3. up' \in [Runs -> {"none", "running", "ended"}]
    BY <1>0, <2>1 DEF SharedOK, SharedTypes
  <2>4. SharedOK' /\ Made' = Made \cup {r}
    BY <1>0, <1>2, <2>1, <2>2, <2>3, InstallKeeps
  <2>5. CASE Land(p, AfterInstall(p), AfterInstallLoc(p), "ok")
    <3>1. /\ Fits(Made', p, AfterInstall(p), AfterInstallLoc(p))
          /\ AfterInstall(p) \in Ends \cup {"mark"}
      BY <1>0, <1>1, <2>4, AfterInstallFits, FitsGrows DEF Ends
    <3> QED
      BY <1>0, <2>4, <2>5, <3>1, LandFits, BaseParts
  <2>6. CASE Land(p, "persist", [loc[p] EXCEPT !.run = r, !.job = current[loc[p].agent]], "ok")
    <3> DEFINE l == [loc[p] EXCEPT !.run = r, !.job = current[loc[p].agent]]
    <3>1. current[loc[p].agent] \in Made \cup {NoRun}
      BY <1>0, <1>2 DEF SharedOK, MadeSound
    <3>2. /\ l \in Locals /\ l.run = r /\ l.job \in Made \cup {NoRun}
          /\ l.agent = loc[p].agent /\ l.ret = loc[p].ret
          /\ l.plan = loc[p].plan /\ l.todo = loc[p].todo
      BY <1>0, <1>2, <3>1 DEF Locals
    <3>3. "persist" \in Places(p) /\ p # Drainer
      BY <1>2, ProcsDiffer DEF Places, RotatePCs
    <3>4. Land(p, "persist", l, "ok")
      BY <2>6
    <3> HIDE DEF l
    <3>5. Fits(Made', p, "persist", l)
      BY <1>0, <1>1, <1>2, <2>4, <3>2, <3>3 DEF Fits, RotatePCs, FinishPCs
    <3> QED
      BY <1>0, <2>4, <3>4, <3>5, LandFits, BaseParts
  <2> QED
    BY <2>1, <2>5, <2>6
<1>5. CASE StartLate(p)
  <2>1. PICK r \in Runs :
          /\ Makes(p, r, r)
          /\ up' = [up EXCEPT ![r] = "running"]
          /\ Land(p, "discard", [loc[p] EXCEPT !.run = r], "ok")
    BY <1>5 DEF StartLate, Makes, Unmade
  <2>2. /\ flight' = [flight EXCEPT ![loc[p].agent] = NoProc]
        /\ UNCHANGED <<current, draining, dropped>>
        /\ UNCHANGED <<inflight, finishing, queued, jobs, stopping, cooling, aged, record>>
    BY <1>5, <2>1 DEF StartLate, Land, markVars, outerVars, setVars
  <2>3. /\ up' \in [Runs -> {"none", "running", "ended"}]
        /\ flight' \in [Agents -> Procs \cup {NoProc}]
    BY <1>0, <1>2, <2>1, <2>2 DEF SharedOK, SharedTypes
  <2>4. /\ Made' = Made \cup {r}
        /\ origin' \in [Runs -> Runs \cup {NoRun}]
        /\ agentOf' \in [Runs -> Agents \cup {NoAgent}]
        /\ \A x \in Made' : agentOf'[x] \in Agents /\ origin'[x] \in Made'
        /\ \A x \in Made : agentOf'[x] = agentOf[x]
    BY <1>0, <1>2, <2>1, MakesOne
  <2>5. SharedOK'
    <3>1. SharedTypes'
      BY <1>0, <2>2, <2>3, <2>4 DEF SharedOK, SharedTypes
    <3>2. MadeSound'
      BY <1>0, <2>2, <2>4 DEF SharedOK, MadeSound
    <3> QED
      BY <3>1, <3>2 DEF SharedOK
  <2> DEFINE l == [loc[p] EXCEPT !.run = r]
  <2>6. /\ l \in Locals /\ l.run = r
        /\ l.agent = loc[p].agent /\ l.ret = loc[p].ret
        /\ l.plan = loc[p].plan /\ l.todo = loc[p].todo
    BY <1>2 DEF Locals
  <2>7. "discard" \in Places(p) /\ p # Drainer
    BY <1>2, ProcsDiffer DEF Places, RotatePCs
  <2>8. Land(p, "discard", l, "ok")
    BY <2>1
  <2> HIDE DEF l
  <2>9. Fits(Made', p, "discard", l)
    BY <1>0, <1>1, <1>2, <2>4, <2>6, <2>7 DEF Fits, RotatePCs, FinishPCs
  <2> QED
    BY <1>0, <2>4, <2>5, <2>8, <2>9, LandFits, BaseParts
<1> QED
  BY <1>3, <1>4, <1>5

-----------------------------------------------------------------------------
(* Release, FINISH.                                                         *)

\* No run becomes current; those of a set stop being it.
Clears(S) == current' = [a \in Agents |-> IF current[a] \in S THEN NoRun ELSE current[a]]

LEMMA ClearsTypes ==
  ASSUME SharedOK, NEW S, Clears(S)
  PROVE  /\ current' \in [Agents -> Runs \cup {NoRun}]
         /\ \A a \in Agents : current'[a] \in {current[a], NoRun}
         /\ \A a \in Agents : current'[a] = IF current[a] \in S THEN NoRun ELSE current[a]
BY DEF Clears, SharedOK, SharedTypes

LEMMA DetachClears ==
  ASSUME NEW r, Detach(r)
  PROVE  Clears({r})
BY DEF Detach, Clears

LEMMA LeftTypes ==
  ASSUME SharedOK, NEW r \in Runs, inflight' = [inflight EXCEPT ![r] = Left(r)]
  PROVE  /\ inflight' \in [Runs -> Nat]
         /\ inflight'[r] = Left(r) /\ Left(r) \in Nat /\ Left(r) <= inflight[r]
         /\ \A s \in Runs \ {r} : inflight'[s] = inflight[s]
<1>1. Left(r) \in Nat /\ Left(r) <= inflight[r] /\ inflight \in [Runs -> Nat]
  BY DEF SharedOK, SharedTypes, Left
<1> QED
  BY <1>1

LEMMA ReleaseKeeps ==
  ASSUME Base, NEW p \in Procs, Release(p) \/ ReleaseAbandoned(p) \/ Invalidate(p)
  PROVE  Base' /\ OthersStay(p)
<1>0. SharedOK /\ ProcsOK /\ Fits(Made, p, pc[p], loc[p]) /\ Made \subseteq Runs
  BY BaseParts DEF ProcsOK, AllFit, Made
<1>1. p \in Callers /\ (pc[p] = "leased" => loc[p].run \in Made)
  BY <1>0, WhoIsWhere DEF Release, ReleaseAbandoned, Invalidate, Fits
<1>2. Home(p) = "idle" /\ NoLoc(p) \in Locals
  BY <1>1, HomeFits DEF Home
<1> DEFINE r == loc[p].run
\* The release of the last lease, on its way to the FINISH.
<1>3. ASSUME NEW l \in Locals, r \in Made,
             l = [NoLoc(p) EXCEPT !.job = r]
             \/ l = [NoLoc(p) EXCEPT !.agent = agentOf[r], !.ret = "invalid", !.job = r]
      PROVE  Fits(Made, p, "mark", l)
  <2>1. agentOf[r] \in Agents
    BY <1>0, <1>3 DEF SharedOK, MadeSound
  <2>2. /\ l.job = r /\ l.plan = {} /\ l.todo = {}
        /\ l.ret \in {"idle", "invalid"}
        /\ l.ret = "invalid" => l.agent \in Agents
    BY <1>2, <1>3, <2>1 DEF NoLoc
  <2>3. /\ "mark" \in Places(p) /\ l.ret \in Returns(p)
        /\ "mark" \notin RotatePCs
    BY <1>1, <2>2 DEF Places, Returns, RotatePCs, FinishPCs
  <2> QED
    BY <1>1, <1>3, <2>2, <2>3, ProcsDiffer DEF Fits, Places, Returns, RotatePCs, FinishPCs
<1>4. CASE Release(p)
  <2>1. r \in Made /\ r \in Runs
    BY <1>0, <1>1, <1>4 DEF Release
  <2>2. PICK refused \in {FALSE, up[origin[loc[p].run]] = "ended"} :
          LET l == IF refused THEN [NoLoc(p) EXCEPT !.agent = agentOf[r], !.ret = "invalid"]
                   ELSE NoLoc(p)
          IN /\ inflight' = [inflight EXCEPT ![r] = Left(r)]
             /\ IF LastOfDraining(r)
                THEN ReleaseDetaches(r) /\ To(p, "mark", [l EXCEPT !.job = r])
                ELSE UNCHANGED current /\ To(p, l.ret, l)
    BY <1>4 DEF Release
  <2> DEFINE l == IF refused THEN [NoLoc(p) EXCEPT !.agent = agentOf[r], !.ret = "invalid"]
                  ELSE NoLoc(p)
  <2>3. /\ inflight' \in [Runs -> Nat]
        /\ Clears({r}) \/ UNCHANGED current
    BY <1>0, <2>1, <2>2, LeftTypes, DetachClears DEF ReleaseDetaches
  <2>4. /\ current' \in [Agents -> Runs \cup {NoRun}]
        /\ \A a \in Agents : current'[a] \in {current[a], NoRun}
    BY <1>0, <2>3, ClearsTypes DEF SharedOK, SharedTypes
  <2>5. SharedOK' /\ Made' = Made
    <3>1. /\ UNCHANGED <<draining, dropped, finishing, queued, bornVars, flight, jobs>>
          /\ UNCHANGED <<aged, cooling, stopping, up, record>>
      BY <1>4 DEF Release, outerVars
    <3> QED
      BY <1>0, <2>3, <2>4, <3>1, NothingMade DEF SharedOK, SharedTypes, MadeSound
  <2>6. agentOf[r] \in Agents
    BY <1>0, <2>1 DEF SharedOK, MadeSound
  <2>7. /\ [NoLoc(p) EXCEPT !.agent = agentOf[r], !.ret = "invalid"] \in Locals
        /\ [NoLoc(p) EXCEPT !.agent = agentOf[r], !.ret = "invalid"].ret = "invalid"
        /\ [NoLoc(p) EXCEPT !.agent = agentOf[r], !.ret = "invalid", !.job = r] \in Locals
        /\ [NoLoc(p) EXCEPT !.job = r] \in Locals
    BY <1>2, <2>1, <2>6 DEF Locals, PCs
  <2>8. \E s, m : To(p, s, m) /\ Fits(Made, p, s, m)
    <3>1. CASE LastOfDraining(r)
      <4>1. To(p, "mark", [l EXCEPT !.job = r])
        BY <2>2, <3>1
      <4>2. \/ [l EXCEPT !.job = r] = [NoLoc(p) EXCEPT !.job = r]
            \/ [l EXCEPT !.job = r] =
                 [NoLoc(p) EXCEPT !.agent = agentOf[r], !.ret = "invalid", !.job = r]
        BY DEF NoLoc
      <4> QED
        BY <1>3, <2>1, <2>7, <4>1, <4>2
    <3>2. CASE ~LastOfDraining(r)
      <4>1. To(p, l.ret, l)
        BY <2>2, <3>2
      <4>2. CASE refused
        <5> DEFINE m == [NoLoc(p) EXCEPT !.agent = agentOf[r], !.ret = "invalid"]
        <5>1. To(p, "invalid", m)
          BY <2>7, <4>1, <4>2
        <5>2. /\ m \in Locals /\ m.ret = "invalid" /\ m.agent \in Agents
              /\ m.plan = {} /\ m.todo = {}
          BY <2>6, <2>7 DEF NoLoc
        <5> HIDE DEF m
        <5>3. Fits(Made, p, "invalid", m)
          BY <1>1, <5>2, ProcsDiffer DEF Fits, Places, Returns, RotatePCs, FinishPCs
        <5> QED
          BY <5>1, <5>3
      <4>3. CASE ~refused
        <5>1. To(p, NoLoc(p).ret, NoLoc(p)) /\ NoLoc(p).ret = Home(p)
          BY <4>1, <4>3 DEF NoLoc
        <5> QED
          BY <5>1, HomeFits
      <4> QED
        BY <4>2, <4>3
    <3> QED
      BY <3>1, <3>2
  <2> QED
    BY <1>0, <2>5, <2>8, MoveFits, BaseParts DEF OthersStay
<1>5. CASE ReleaseAbandoned(p)
  <2>1. r \in Made /\ r \in Runs
    BY <1>0, <1>1, <1>5 DEF ReleaseAbandoned
  <2>2. /\ inflight' = [inflight EXCEPT ![r] = Left(r)]
        /\ (Detach(r) /\ AppendDraining(r)) \/ UNCHANGED setVars
        /\ To(p, "mark", [NoLoc(p) EXCEPT !.job = r]) \/ To(p, "idle", NoLoc(p))
    BY <1>5 DEF ReleaseAbandoned
  <2>3. inflight' \in [Runs -> Nat]
    BY <1>0, <2>1, <2>2, LeftTypes
  <2>4. /\ current' \in [Agents -> Runs \cup {NoRun}]
        /\ \A a \in Agents : current'[a] \in {current[a], NoRun}
        /\ draining' \subseteq Made
        /\ dropped' \subseteq Runs
    <3>1. CASE Detach(r) /\ AppendDraining(r)
      <4>1. draining' \subseteq draining \cup {r} /\ dropped' \subseteq Runs
        BY <1>0, <2>1, <3>1, AppendTypes DEF SharedOK, SharedTypes
      <4> QED
        BY <1>0, <2>1, <3>1, <4>1, DetachClears, ClearsTypes DEF SharedOK, MadeSound
    <3>2. CASE UNCHANGED setVars
      BY <1>0, <3>2 DEF setVars, SharedOK, SharedTypes, MadeSound
    <3> QED
      BY <2>2, <3>1, <3>2
  <2>5. SharedOK' /\ Made' = Made
    <3>1. /\ UNCHANGED <<finishing, queued, bornVars, flight, jobs>>
          /\ UNCHANGED <<aged, cooling, stopping, up, record>>
      BY <1>5 DEF ReleaseAbandoned, outerVars
    <3> QED
      BY <1>0, <2>3, <2>4, <3>1, NothingMade DEF SharedOK, SharedTypes, MadeSound
  <2>6. [NoLoc(p) EXCEPT !.job = r] \in Locals
    BY <1>2, <2>1 DEF Locals
  <2>7. \E s, m : To(p, s, m) /\ Fits(Made, p, s, m)
    BY <1>2, <1>3, <2>1, <2>2, <2>6, HomeFits
  <2> QED
    BY <1>0, <2>5, <2>7, MoveFits, BaseParts DEF OthersStay
<1>6. CASE Invalidate(p)
  <2> DEFINE a == loc[p].agent
  <2>1. /\ dropped' = dropped \cup ({current[a]} \ {NoRun})
        /\ current' = [current EXCEPT ![a] = NoRun]
        /\ record' = [record EXCEPT ![a] = NoRun]
        /\ To(p, "idle", NoLoc(p))
    BY <1>6 DEF Invalidate
  <2>2. a \in Agents
    BY <1>0, <1>6 DEF Invalidate, Fits
  <2>3. /\ current' \in [Agents -> Runs \cup {NoRun}]
        /\ \A b \in Agents : current'[b] \in {current[b], NoRun}
        /\ record' \in [Agents -> Runs \cup {NoRun}]
        /\ \A b \in Agents : record'[b] \in Made \cup {NoRun}
        /\ dropped' \subseteq Runs
    BY <1>0, <2>1, <2>2 DEF SharedOK, SharedTypes, MadeSound
  <2>4. SharedOK' /\ Made' = Made
    <3>1. UNCHANGED <<draining, markVars, bornVars, outerVars, flight, jobs, stopping, up>>
      BY <1>6 DEF Invalidate
    <3> QED
      BY <1>0, <2>3, <3>1, NothingMade DEF SharedOK, SharedTypes, MadeSound, markVars, outerVars
  <2> QED
    BY <1>0, <1>2, <2>1, <2>4, HomeFits, MoveFits, BaseParts DEF OthersStay
<1> QED
  BY <1>4, <1>5, <1>6

LEMMA FinishKeeps ==
  ASSUME Base, NEW p \in Procs,
         \/ Mark(p) \/ Send(p) \/ Claim(p) \/ Dispatch(p) \/ CallOk(p) \/ CallErr(p)
  PROVE  Base' /\ OthersStay(p)
<1>0. SharedOK /\ ProcsOK /\ Fits(Made, p, pc[p], loc[p]) /\ Made \subseteq Runs
  BY BaseParts DEF ProcsOK, AllFit, Made
<1>1. pc[p] \in FinishPCs /\ loc[p].job \in Made /\ loc[p].job \in Runs
  BY <1>0 DEF Mark, Send, Claim, Dispatch, CallOk, CallErr, FinishPCs, Fits
\* A FINISH goes on where it may, and ends where the call came from.
<1>2. ASSUME \/ Back(p)
             \/ pc[p] = "mark" /\ To(p, "send", loc[p])
             \/ pc[p] # "call" /\ \E s \in {"finish", "dispatch", "call"} : To(p, s, loc[p])
      PROVE  \E s, l : To(p, s, l) /\ Fits(Made, p, s, l)
  <2>1. CASE Back(p)
    BY <1>0, <1>1, <2>1, BackFits
  <2>2. CASE pc[p] = "mark" /\ To(p, "send", loc[p])
    <3>1. p \in Callers \cup {Maint}
      BY <1>0, <2>2, WhoIsWhere DEF Fits
    <3>2. "send" \in Places(p) /\ "send" \notin RotatePCs /\ "send" \in FinishPCs
      BY <3>1, ProcsDiffer DEF Places, RotatePCs, FinishPCs
    <3>3. Fits(Made, p, "send", loc[p])
      BY <1>0, <1>1, <2>2, <3>1, <3>2, ProcsDiffer DEF Fits
    <3> QED
      BY <2>2, <3>3
  <2>3. CASE \E s \in {"finish", "dispatch", "call"} : To(p, s, loc[p])
    <3>1. PICK s \in {"finish", "dispatch", "call"} : To(p, s, loc[p])
      BY <2>3
    <3>2. pc[p] \in Places(p) /\ p # Stopper
      BY <1>0, <1>1, ProcsDiffer DEF Fits, Places, FinishPCs
    <3>3. s \in Places(p) /\ s \notin RotatePCs /\ s \in FinishPCs
      BY <3>1, <3>2, ProcsDiffer DEF Places, RotatePCs, FinishPCs, Procs
    <3>4. p = Drainer => pc[p] \in {"finish", "dispatch", "call"}
      BY <1>1, <3>2, ProcsDiffer DEF Places, FinishPCs
    <3>5. Fits(Made, p, s, loc[p])
      BY <1>0, <1>1, <3>1, <3>3, <3>4 DEF Fits
    <3> QED
      BY <3>1, <3>5
  <2> QED
    BY <1>2, <2>1, <2>2, <2>3
<1>3. CASE Mark(p) \/ Claim(p)
  <2>1. /\ queued' \subseteq Made /\ finishing' \subseteq Made
        /\ UNCHANGED <<setVars, inflight, bornVars, outerVars, flight, jobs, stopping, up, record>>
    BY <1>0, <1>1, <1>3 DEF Mark, Claim, SharedOK, MadeSound
  <2>2. SharedOK' /\ Made' = Made
    BY <1>0, <2>1, NothingMade DEF SharedOK, SharedTypes, MadeSound, setVars, outerVars
  <2>3. \E s, l : To(p, s, l) /\ Fits(Made, p, s, l)
    BY <1>2, <1>3 DEF Mark, Claim
  <2> QED
    BY <1>0, <2>2, <2>3, MoveFits, BaseParts DEF OthersStay
<1>4. CASE Send(p)
  <2>1. jobs' = Append(jobs, loc[p].job) \/ jobs' = jobs
    BY <1>4 DEF Send
  <2>2. jobs' \in Seq(Runs) /\ \A i \in DOMAIN jobs' : jobs'[i] \in Made
    <3>1. jobs \in Seq(Runs) /\ \A i \in DOMAIN jobs : jobs[i] \in Made
      BY <1>0 DEF SharedOK, SharedTypes, MadeSound
    <3> QED
      BY <1>1, <2>1, <3>1
  <2>3. SharedOK' /\ Made' = Made
    <3>1. UNCHANGED <<setVars, markVars, bornVars, outerVars, flight, stopping, up, record>>
      BY <1>4 DEF Send
    <3> QED
      BY <1>0, <2>2, <3>1, NothingMade DEF SharedOK, SharedTypes, MadeSound, setVars, markVars,
                                           outerVars
  <2>4. \E s, l : To(p, s, l) /\ Fits(Made, p, s, l)
    BY <1>2, <1>4 DEF Send
  <2> QED
    BY <1>0, <2>3, <2>4, MoveFits, BaseParts DEF OthersStay
<1>5. CASE Dispatch(p)
  <2>1. SharedOK' /\ Made' = Made
    BY <1>0, <1>5, RecordChanges DEF Dispatch, setVars, markVars, outerVars
  <2>2. \E s, l : To(p, s, l) /\ Fits(Made, p, s, l)
    BY <1>2, <1>5 DEF Dispatch
  <2> QED
    BY <1>0, <2>1, <2>2, MoveFits, BaseParts DEF OthersStay
<1>6. CASE CallOk(p)
  <2>1. origin[loc[p].job] \in Runs
    BY <1>0, <1>1 DEF SharedOK, MadeSound
  <2>2. /\ up' \in [Runs -> {"none", "running", "ended"}]
        /\ draining' \subseteq Made
    BY <1>0, <1>6, <2>1 DEF CallOk, SharedOK, SharedTypes, MadeSound
  <2>3. SharedOK' /\ Made' = Made
    <3>1. UNCHANGED <<current, dropped, markVars, bornVars, outerVars, flight, jobs, stopping, record>>
      BY <1>6 DEF CallOk
    <3> QED
      BY <1>0, <2>2, <3>1, NothingMade DEF SharedOK, SharedTypes, MadeSound, markVars, outerVars
  <2>4. \E s, l : To(p, s, l) /\ Fits(Made, p, s, l)
    BY <1>2, <1>6 DEF CallOk
  <2> QED
    BY <1>0, <2>3, <2>4, MoveFits, BaseParts DEF OthersStay
<1>7. CASE CallErr(p)
  <2>1. draining' \subseteq draining \cup {loc[p].job} /\ dropped' \subseteq Runs
    BY <1>0, <1>1, <1>7, AppendTypes DEF CallErr, CallRetries, SharedOK, SharedTypes
  <2>2. draining' \subseteq Made /\ finishing' \subseteq Made
    BY <1>0, <1>1, <1>7, <2>1 DEF CallErr, SharedOK, MadeSound
  <2>3. SharedOK' /\ Made' = Made
    <3>1. UNCHANGED <<current, inflight, queued, bornVars, outerVars, flight, jobs, stopping, up, record>>
      BY <1>7 DEF CallErr
    <3> QED
      BY <1>0, <2>1, <2>2, <3>1, NothingMade DEF SharedOK, SharedTypes, MadeSound, outerVars
  <2>4. \E s, l : To(p, s, l) /\ Fits(Made, p, s, l)
    BY <1>2, <1>7 DEF CallErr
  <2> QED
    BY <1>0, <2>3, <2>4, MoveFits, BaseParts DEF OthersStay
<1> QED
  BY <1>3, <1>4, <1>5, <1>6, <1>7

-----------------------------------------------------------------------------
(* The loops.                                                               *)

LEMMA LoopsKeep ==
  ASSUME Base, NEW p \in Procs,
         \/ p = Worker /\ (WorkerTake \/ WorkerExit)
         \/ p = Maint /\ (Maintain \/ MaintainTurn)
         \/ p = Drainer /\ (FinishAllRuns \/ FinishEach)
  PROVE  Base' /\ OthersStay(p)
<1>0. SharedOK /\ ProcsOK /\ Fits(Made, p, pc[p], loc[p]) /\ Made \subseteq Runs
  BY BaseParts DEF ProcsOK, AllFit, Made
<1>1. /\ NoLoc(p) \in Locals /\ NoLoc(p).todo = {} /\ NoLoc(p).plan = {}
      /\ NoLoc(p).ret = Home(p) /\ Fits(Made, p, Home(p), NoLoc(p))
  BY HomeFits DEF NoLoc
<1>2. Currents \subseteq Made
  BY <1>0 DEF Currents, SharedOK, MadeSound
<1>3. CASE p = Worker /\ WorkerTake
  <2>1. /\ jobs' = Tail(jobs) /\ jobs # <<>> /\ jobs \in Seq(Runs)
        /\ \A i \in DOMAIN jobs : jobs[i] \in Made
    BY <1>0, <1>3 DEF WorkerTake, SharedOK, SharedTypes, MadeSound
  <2>2. jobs' \in Seq(Runs) /\ Head(jobs) \in Made /\ \A i \in DOMAIN jobs' : jobs'[i] \in Made
    BY <2>1
  <2>3. SharedOK' /\ Made' = Made
    <3>1. UNCHANGED <<setVars, markVars, bornVars, outerVars, flight, stopping, up, record>>
      BY <1>3 DEF WorkerTake
    <3> QED
      BY <1>0, <2>2, <3>1, NothingMade DEF SharedOK, SharedTypes, MadeSound, setVars, markVars,
                                           outerVars
  <2> DEFINE l == [NoLoc(Worker) EXCEPT !.job = Head(jobs)]
  <2>4. To(p, "finish", l)
    BY <1>3 DEF WorkerTake
  <2>5. l \in Locals /\ l.job \in Made /\ l.plan = {} /\ l.todo = {} /\ l.ret = "work"
    BY <1>0, <1>1, <1>3, <2>2, ProcsDiffer DEF NoLoc, Locals, Home
  <2> HIDE DEF l
  <2>6. Fits(Made, p, "finish", l)
    BY <1>3, <2>5, ProcsDiffer DEF Fits, Places, Returns, Home, RotatePCs, FinishPCs
  <2> QED
    BY <1>0, <2>3, <2>4, <2>6, MoveFits, BaseParts DEF OthersStay
<1>4. CASE p = Worker /\ WorkerExit
  <2>1. SharedOK' /\ Made' = Made
    BY <1>0, <1>4, SharedStays DEF WorkerExit, SharedOK, SharedTypes, setVars, markVars, outerVars
  <2>2. To(p, "exited", NoLoc(p))
    BY <1>4 DEF WorkerExit
  <2>3. Fits(Made, p, "exited", NoLoc(p))
    BY <1>1, <1>4, ProcsDiffer DEF Fits, Places, Returns, Home, RotatePCs, FinishPCs
  <2> QED
    BY <1>0, <2>1, <2>2, <2>3, MoveFits, BaseParts DEF OthersStay
<1>5. CASE p = Maint /\ Maintain
  <2>1. draining' \subseteq draining /\ dropped' \subseteq Runs
    <3>1. DrainTo(draining, {})
      BY <1>5 DEF Maintain
    <3>2. draining \subseteq Runs /\ dropped \subseteq Runs /\ {} \subseteq Runs
      BY <1>0 DEF SharedOK, SharedTypes
    <3>3. draining' \subseteq draining \cup {} /\ dropped' \subseteq Runs
      BY <3>1, <3>2, DrainToTypes
    <3> QED
      BY <3>3
  <2>2. SharedOK' /\ Made' = Made
    <3>1. UNCHANGED <<current, markVars, bornVars, outerVars, flight, jobs, stopping, up, record>>
      BY <1>5 DEF Maintain
    <3> QED
      BY <1>0, <2>1, <3>1, NothingMade DEF SharedOK, SharedTypes, MadeSound, markVars, outerVars
  <2> DEFINE l == [NoLoc(Maint) EXCEPT !.plan = {r \in Currents : origin[r] \in aged},
                                       !.todo = draining']
  <2>3. To(p, "turn", l)
    BY <1>5 DEF Maintain
  <2>4. l.plan \subseteq Made /\ l.todo \subseteq Made /\ l.ret = "rest" /\ l \in Locals
    BY <1>0, <1>1, <1>2, <1>5, <2>1, ProcsDiffer DEF NoLoc, Locals, Home, SharedOK, MadeSound
  <2> HIDE DEF l
  <2>5. Fits(Made, p, "turn", l)
    BY <1>5, <2>4, ProcsDiffer DEF Fits, Places, Returns, RotatePCs, FinishPCs
  <2> QED
    BY <1>0, <2>2, <2>3, <2>5, MoveFits, BaseParts DEF OthersStay
<1>6. CASE p = Maint /\ MaintainTurn
  <2>1. SharedOK' /\ Made' = Made
    BY <1>0, <1>6, SharedStays DEF MaintainTurn, SharedOK, SharedTypes, setVars, markVars, outerVars
  <2> DEFINE m == loc[p]
  <2>2. /\ m \in Locals /\ m.ret \in Returns(p) /\ m.plan \subseteq Made /\ m.todo \subseteq Made
        /\ m.plan \subseteq Runs /\ m.todo \subseteq Runs
    BY <1>0 DEF Fits
  <2>3. CASE \E r \in m.plan : To(Maint, "rotate", [m EXCEPT !.plan = @ \ {r}, !.agent = agentOf[r],
                                                             !.ret = "turn"])
    <3>1. PICK r \in m.plan : To(Maint, "rotate", [m EXCEPT !.plan = @ \ {r}, !.agent = agentOf[r],
                                                             !.ret = "turn"])
      BY <2>3
    <3> DEFINE l == [m EXCEPT !.plan = @ \ {r}, !.agent = agentOf[r], !.ret = "turn"]
    <3>2. To(p, "rotate", l)
      BY <1>6, <3>1
    <3>3. agentOf[r] \in Agents
      BY <1>0, <2>2 DEF SharedOK, MadeSound
    <3>4. /\ l \in Locals /\ l.plan \subseteq Made /\ l.todo \subseteq Made
          /\ l.agent \in Agents /\ l.ret = "turn"
      BY <2>2, <3>3 DEF Locals, PCs
    <3> HIDE DEF l
    <3>5. Fits(Made, p, "rotate", l)
      BY <1>6, <3>4, ProcsDiffer DEF Fits, Places, Returns, RotatePCs, FinishPCs
    <3> QED
      BY <1>0, <2>1, <3>2, <3>5, MoveFits, BaseParts DEF OthersStay
  <2>4. CASE \E r \in m.todo : To(Maint, "mark", [m EXCEPT !.todo = @ \ {r}, !.job = r, !.ret = "turn"])
    <3>1. PICK r \in m.todo : To(Maint, "mark", [m EXCEPT !.todo = @ \ {r}, !.job = r, !.ret = "turn"])
      BY <2>4
    <3> DEFINE l == [m EXCEPT !.todo = @ \ {r}, !.job = r, !.ret = "turn"]
    <3>2. To(p, "mark", l)
      BY <1>6, <3>1
    <3>3. /\ l \in Locals /\ l.plan \subseteq Made /\ l.todo \subseteq Made
          /\ l.job \in Made /\ l.ret = "turn"
      BY <2>2 DEF Locals, PCs
    <3> HIDE DEF l
    <3>4. Fits(Made, p, "mark", l)
      BY <1>6, <3>3, ProcsDiffer DEF Fits, Places, Returns, RotatePCs, FinishPCs
    <3> QED
      BY <1>0, <2>1, <3>2, <3>4, MoveFits, BaseParts DEF OthersStay
  <2>5. CASE To(Maint, "rest", NoLoc(Maint))
    <3>1. To(p, Home(p), NoLoc(p))
      BY <1>6, <2>5, ProcsDiffer DEF Home
    <3> QED
      BY <1>0, <1>1, <2>1, <3>1, MoveFits, BaseParts DEF OthersStay
  <2> QED
    BY <1>6, <2>3, <2>4, <2>5 DEF MaintainTurn
<1>7. CASE p = Drainer /\ FinishAllRuns
  <2> DEFINE idle(S) == {r \in S : inflight[r] = 0}
             kept == draining \ idle(draining)
             busy == Currents \ idle(Currents)
             all == idle(Currents) \cup idle(draining)
  <2>1. /\ Clears(idle(Currents))
        /\ DrainTo(kept, busy \ kept)
        /\ To(p, "each", [NoLoc(p) EXCEPT !.todo = all])
    BY <1>7 DEF FinishAllRuns, Clears
  <2>2. draining \subseteq Made /\ all \subseteq Made
    BY <1>0, <1>2 DEF SharedOK, MadeSound
  <2>3. draining' \subseteq Made /\ dropped' \subseteq Runs
    <3>1. kept \subseteq Made /\ busy \ kept \subseteq Made
      BY <1>2, <2>2
    <3> HIDE DEF kept, busy
    <3>2. draining' \subseteq kept \cup (busy \ kept) /\ dropped' \subseteq Runs
      BY <1>0, <2>1, <3>1, DrainToTypes DEF SharedOK, SharedTypes
    <3> QED
      BY <3>1, <3>2
  <2>4. SharedOK' /\ Made' = Made
    <3>1. UNCHANGED <<markVars, bornVars, outerVars, flight, jobs, stopping, up, record>>
      BY <1>7 DEF FinishAllRuns
    <3>2. /\ current' \in [Agents -> Runs \cup {NoRun}]
          /\ \A a \in Agents : current'[a] \in {current[a], NoRun}
      BY <1>0, <2>1, ClearsTypes
    <3> QED
      BY <1>0, <2>3, <3>1, <3>2, NothingMade DEF SharedOK, SharedTypes, MadeSound, markVars, outerVars
  <2> DEFINE l == [NoLoc(p) EXCEPT !.todo = all]
  <2>5. l \in Locals /\ l.todo = all /\ l.plan = {} /\ l.ret = "rest"
    BY <1>0, <1>1, <1>7, <2>2, ProcsDiffer DEF NoLoc, Locals, Home
  <2>6. Fits(Made, p, "each", l)
    <3> HIDE DEF l, all
    <3> QED
      BY <1>7, <2>2, <2>5, ProcsDiffer DEF Fits, Places, Returns, RotatePCs, FinishPCs
  <2> QED
    BY <1>0, <2>1, <2>4, <2>6, MoveFits, BaseParts DEF OthersStay
<1>8. CASE p = Drainer /\ FinishEach
  <2>1. SharedOK' /\ Made' = Made
    BY <1>0, <1>8, SharedStays DEF FinishEach, SharedOK, SharedTypes, setVars, markVars, outerVars
  <2> DEFINE m == loc[p]
  <2>2. m \in Locals /\ m.plan \subseteq Made /\ m.todo \subseteq Made /\ m.todo \subseteq Runs
    BY <1>0 DEF Fits
  <2>3. CASE m.todo = {}
    <3>1. To(p, Home(p), NoLoc(p))
      BY <1>8, <2>3, ProcsDiffer DEF FinishEach, Home
    <3> QED
      BY <1>0, <1>1, <2>1, <3>1, MoveFits, BaseParts DEF OthersStay
  <2>4. CASE m.todo # {}
    <3>1. PICK r \in m.todo : To(p, "finish", [m EXCEPT !.todo = @ \ {r}, !.job = r, !.ret = "each"])
      BY <1>8, <2>4 DEF FinishEach
    <3> DEFINE l == [m EXCEPT !.todo = @ \ {r}, !.job = r, !.ret = "each"]
    <3>2. /\ l \in Locals /\ l.plan \subseteq Made /\ l.todo \subseteq Made
          /\ l.job \in Made /\ l.ret = "each"
      BY <2>2 DEF Locals, PCs
    <3> HIDE DEF l
    <3>3. Fits(Made, p, "finish", l)
      BY <1>8, <3>2, ProcsDiffer DEF Fits, Places, Returns, RotatePCs, FinishPCs
    <3>4. To(p, "finish", l)
      BY <3>1 DEF l
    <3> QED
      BY <1>0, <2>1, <3>3, <3>4, MoveFits, BaseParts DEF OthersStay
  <2> QED
    BY <2>3, <2>4
<1> QED
  BY <1>3, <1>4, <1>5, <1>6, <1>7, <1>8

-----------------------------------------------------------------------------
(* Shutdown, and the outside.                                               *)

LEMMA ShutdownKeeps ==
  ASSUME Base, ShutdownBegin \/ ShutdownStop \/ ShutdownClaim \/ ShutdownSave \/ ShutdownLast
  PROVE  Base' /\ OthersStay(Stopper)
<1> DEFINE p == Stopper
           m == loc[p]
<1>0. p \in Procs
  BY DEF Procs
<1>1. SharedOK /\ ProcsOK /\ Fits(Made, p, pc[p], m) /\ Made \subseteq Runs
  BY <1>0, BaseParts DEF ProcsOK, AllFit, Made
<1>2. /\ NoLoc(p) \in Locals /\ NoLoc(p).todo = {} /\ NoLoc(p).plan = {}
      /\ NoLoc(p).ret = "rest" /\ Home(p) = "rest"
  BY <1>0, HomeFits, ProcsDiffer DEF NoLoc, Home
<1>3. Currents \subseteq Made
  BY <1>1 DEF Currents, SharedOK, MadeSound
\* The only places of the stopper, and what it takes to be there.
<1>4. ASSUME NEW s \in {"rest", "flagged", "waiting", "save", "last", "done"}, NEW l \in Locals,
             l.ret = "rest", l.plan \subseteq Made, l.todo \subseteq Made
      PROVE  Fits(Made, p, s, l)
  BY <1>2, <1>4, ProcsDiffer DEF Fits, Places, Returns, RotatePCs, FinishPCs
<1>5. m \in Locals /\ m.ret = "rest" /\ m.plan \subseteq Made /\ m.todo \subseteq Made
  BY <1>1, <1>2, ProcsDiffer DEF Fits, Returns
<1>6. CASE ShutdownBegin \/ ShutdownStop
  <2>1. SharedOK' /\ Made' = Made
    BY <1>1, <1>6, SharedStays DEF ShutdownBegin, ShutdownStop, SharedOK, SharedTypes, setVars,
                                   markVars, outerVars
  <2>2. \E s \in {"flagged", "waiting"} : To(p, s, NoLoc(p))
    BY <1>6 DEF ShutdownBegin, ShutdownStop
  <2>3. \A s \in {"flagged", "waiting"} : Fits(Made, p, s, NoLoc(p))
    BY <1>2, <1>4
  <2> QED
    BY <1>0, <1>1, <2>1, <2>2, <2>3, MoveFits, BaseParts DEF OthersStay
<1>7. CASE ShutdownClaim
  <2>1. draining \subseteq Made /\ finishing \subseteq Made
    BY <1>1 DEF SharedOK, MadeSound
  <2> DEFINE l(P, T) == [NoLoc(p) EXCEPT !.plan = P, !.todo = T]
  <2>2. ASSUME NEW P, NEW T, P \subseteq Made, T \subseteq Made
        PROVE  l(P, T) \in Locals /\ l(P, T).plan = P /\ l(P, T).todo = T /\ l(P, T).ret = "rest"
    BY <1>1, <1>2, <2>2 DEF Locals, NoLoc
  <2>3. \/ To(p, "save", l(Currents, draining \ finishing))
        \/ To(p, "last", [NoLoc(p) EXCEPT !.todo = Unfinished \ finishing])
    BY <1>7 DEF ShutdownClaim
  <2>4. Unfinished \subseteq Made
    BY <1>3, <2>1 DEF Unfinished
  <2> DEFINE j == [NoLoc(p) EXCEPT !.todo = Unfinished \ finishing]
  <2>5. j \in Locals /\ j.plan = {} /\ j.todo = Unfinished \ finishing /\ j.ret = "rest"
    BY <1>1, <1>2, <2>4 DEF Locals, NoLoc
  <2>6. \E s, k : To(p, s, k) /\ Fits(Made, p, s, k)
    <3> HIDE DEF l, j
    <3>1. CASE To(p, "save", l(Currents, draining \ finishing))
      BY <1>3, <1>4, <2>1, <2>2, <3>1
    <3>2. CASE To(p, "last", j)
      BY <1>4, <2>4, <2>5, <3>2
    <3>3. To(p, "save", l(Currents, draining \ finishing)) \/ To(p, "last", j)
      BY <2>3 DEF j
    <3> QED
      BY <3>1, <3>2, <3>3
  <2>7. /\ finishing' \subseteq Made /\ draining' \subseteq Made
        /\ current' \in [Agents -> Runs \cup {NoRun}]
        /\ \A a \in Agents : current'[a] \in {current[a], NoRun}
    BY <1>1, <1>7, <2>1, <2>4 DEF ShutdownClaim, SharedOK, SharedTypes
  <2>8. SharedOK' /\ Made' = Made
    <3>1. UNCHANGED <<dropped, inflight, queued, bornVars, outerVars, flight, jobs, stopping, up,
                      record>>
      BY <1>7 DEF ShutdownClaim
    <3> QED
      BY <1>1, <2>7, <3>1, NothingMade DEF SharedOK, SharedTypes, MadeSound, outerVars
  <2> QED
    BY <1>0, <1>1, <2>6, <2>8, MoveFits, BaseParts DEF OthersStay
<1>8. CASE ShutdownSave
  <2>1. UNCHANGED <<setVars, markVars, bornVars, outerVars, flight, jobs, stopping, up>>
    BY <1>8 DEF ShutdownSave
  <2>2. CASE To(p, "last", m) /\ UNCHANGED record
    <3>1. SharedOK' /\ Made' = Made
      BY <1>1, <2>1, <2>2, SharedStays DEF SharedOK, SharedTypes, setVars, markVars, outerVars
    <3>2. Fits(Made, p, "last", m)
      BY <1>4, <1>5
    <3> QED
      BY <1>0, <1>1, <2>2, <3>1, <3>2, MoveFits, BaseParts DEF OthersStay
  <2>3. CASE \E r \in m.plan : /\ record' = [record EXCEPT ![agentOf[r]] = origin[r]]
                               /\ To(p, "save", [m EXCEPT !.plan = @ \ {r}])
    <3>1. PICK r \in m.plan : /\ record' = [record EXCEPT ![agentOf[r]] = origin[r]]
                              /\ To(p, "save", [m EXCEPT !.plan = @ \ {r}])
      BY <2>3
    <3>2. origin[r] \in Made
      BY <1>1, <1>5 DEF SharedOK, MadeSound
    <3>3. SharedOK' /\ Made' = Made
      BY <1>1, <2>1, <3>1, <3>2, RecordChanges DEF setVars, markVars, outerVars
    <3> DEFINE l == [m EXCEPT !.plan = @ \ {r}]
    <3>4. l \in Locals /\ l.ret = "rest" /\ l.plan \subseteq Made /\ l.todo \subseteq Made
      BY <1>5 DEF Locals
    <3>5. To(p, "save", l)
      BY <3>1
    <3> HIDE DEF l
    <3>6. Fits(Made, p, "save", l)
      BY <1>4, <3>4
    <3> QED
      BY <1>0, <1>1, <3>3, <3>5, <3>6, MoveFits, BaseParts DEF OthersStay
  <2> QED
    BY <1>8, <2>2, <2>3 DEF ShutdownSave
<1>9. CASE ShutdownLast
  <2>1. UNCHANGED <<setVars, markVars, bornVars, outerVars, flight, jobs, stopping>>
    BY <1>9 DEF ShutdownLast
  <2>2. CASE To(p, "done", NoLoc(p)) /\ UNCHANGED <<up, record>>
    <3>1. SharedOK' /\ Made' = Made
      BY <1>1, <2>1, <2>2, SharedStays DEF SharedOK, SharedTypes, setVars, markVars, outerVars
    <3>2. Fits(Made, p, "done", NoLoc(p))
      BY <1>2, <1>4
    <3> QED
      BY <1>0, <1>1, <2>2, <3>1, <3>2, MoveFits, BaseParts DEF OthersStay
  <2>3. CASE \E r \in m.todo :
               /\ To(p, "last", [m EXCEPT !.todo = @ \ {r}])
               /\ \/ /\ up' = [up EXCEPT ![origin[r]] = "ended"]
                     /\ record' = IF Persist THEN [record EXCEPT ![agentOf[r]] = NoRun]
                                  ELSE record
                  \/ "err" \in EnvOps /\ UNCHANGED <<up, record>>
    <3>1. PICK r \in m.todo :
               /\ To(p, "last", [m EXCEPT !.todo = @ \ {r}])
               /\ \/ /\ up' = [up EXCEPT ![origin[r]] = "ended"]
                     /\ record' = IF Persist THEN [record EXCEPT ![agentOf[r]] = NoRun]
                                  ELSE record
                  \/ "err" \in EnvOps /\ UNCHANGED <<up, record>>
      BY <2>3
    <3>2. origin[r] \in Runs
      BY <1>1, <1>5 DEF SharedOK, MadeSound
    <3>3. /\ up' \in [Runs -> {"none", "running", "ended"}]
          /\ record' \in [Agents -> Runs \cup {NoRun}]
          /\ \A b \in Agents : record'[b] \in Made \cup {NoRun}
      <4>1. /\ up' = [up EXCEPT ![origin[r]] = "ended"] \/ up' = up
            /\ record' = [record EXCEPT ![agentOf[r]] = NoRun] \/ record' = record
        BY <3>1
      <4>2. up \in [Runs -> {"none", "running", "ended"}] /\ record \in [Agents -> Runs \cup {NoRun}]
        BY <1>1 DEF SharedOK, SharedTypes
      <4>3. \A b \in Agents : record[b] \in Made \cup {NoRun}
        BY <1>1 DEF SharedOK, MadeSound
      <4>4. up' \in [Runs -> {"none", "running", "ended"}]
        BY <3>2, <4>1, <4>2
      <4> QED
        BY <4>1, <4>2, <4>3, <4>4
    <3>4. SharedOK' /\ Made' = Made
      BY <1>1, <2>1, <3>3, NothingMade DEF SharedOK, SharedTypes, MadeSound, setVars, markVars,
                                           outerVars
    <3> DEFINE l == [m EXCEPT !.todo = @ \ {r}]
    <3>5. l \in Locals /\ l.ret = "rest" /\ l.plan \subseteq Made /\ l.todo \subseteq Made
      BY <1>5 DEF Locals
    <3>6. To(p, "last", l)
      BY <3>1
    <3> HIDE DEF l
    <3>7. Fits(Made, p, "last", l)
      BY <1>4, <3>5
    <3> QED
      BY <1>0, <1>1, <3>4, <3>6, <3>7, MoveFits, BaseParts DEF OthersStay
  <2> QED
    BY <1>9, <2>2, <2>3 DEF ShutdownLast
<1> QED
  BY <1>6, <1>7, <1>8, <1>9

\* Nobody is anywhere.
AllHome == /\ pc = [p \in Procs |-> Home(p)]
           /\ loc = [p \in Procs |-> NoLoc(p)]

LEMMA AllHomeFits ==
  ASSUME AllHome
  PROVE  ProcsOK
<1>1. \A p \in Procs : Home(p) \in PCs /\ NoLoc(p) \in Locals /\ Fits(Made, p, Home(p), NoLoc(p))
  BY HomeFits, WhoIsWhere DEF Fits
<1> QED
  BY <1>1 DEF AllHome, ProcsOK, AllFit

LEMMA InitBase == Init => Base
<1> SUFFICES ASSUME Init PROVE Base
  OBVIOUS
<1>1. ProcsOK
  BY AllHomeFits DEF Init, AllHome
<1>2. Made = {}
  BY DEF Init, Made
<1>3. SharedTypes
  <2>1. jobs \in Seq(Runs)
    BY DEF Init
  <2> QED
    BY <2>1 DEF Init, SharedTypes
<1>4. MadeSound
  <2>1. DOMAIN jobs = {}
    BY DEF Init
  <2> QED
    BY <1>2, <2>1 DEF Init, MadeSound
<1> QED
  BY <1>1, <1>3, <1>4, BaseParts DEF SharedOK

LEMMA RestartKeeps ==
  ASSUME Base, Restart
  PROVE  Base'
<1>1. Made' = Made /\ SharedOK
  BY BaseParts DEF Restart, bornVars, Made
<1>2. AllHome'
  BY DEF Restart, AllHome
<1>3. SharedTypes'
  <2>1. jobs' \in Seq(Runs) /\ dropped' \subseteq Runs
    BY DEF Restart, Unmade
  <2> QED
    BY <1>1, <2>1 DEF Restart, SharedOK, SharedTypes, bornVars
<1>4. MadeSound'
  <2>1. DOMAIN jobs' = {}
    BY DEF Restart
  <2>2. UNCHANGED <<agentOf, origin, record>>
    BY DEF Restart, bornVars
  <2> QED
    BY <1>1, <2>1, <2>2 DEF Restart, SharedOK, MadeSound
<1>5. ProcsOK'
  <2>1. \A p \in Procs : Home(p) \in PCs /\ NoLoc(p) \in Locals /\ Fits(Made', p, Home(p), NoLoc(p))
    BY HomeFits, WhoIsWhere DEF Fits
  <2> QED
    BY <1>2, <2>1 DEF AllHome, ProcsOK, AllFit
<1> QED
  BY <1>3, <1>4, <1>5, BaseParts DEF SharedOK

LEMMA OutsideKeeps ==
  ASSUME Base, (\E r \in Runs : GrowOld(r) \/ Gone(r)) \/ ToggleCooling \/ UNCHANGED vars
  PROVE  Base' /\ UNCHANGED <<pc, loc, flight, setVars, markVars, bornVars, jobs, stopping>>
<1>1. UNCHANGED <<pc, loc, flight, setVars, markVars, bornVars, jobs, stopping, record>>
  BY DEF GrowOld, Gone, ToggleCooling, vars, setVars, markVars, bornVars
<1>2. SharedOK
  BY BaseParts
<1>3. /\ aged' \subseteq Runs /\ cooling' \in BOOLEAN
      /\ up' \in [Runs -> {"none", "running", "ended"}]
  <2>1. aged \subseteq Runs /\ cooling \in BOOLEAN /\ up \in [Runs -> {"none", "running", "ended"}]
    BY <1>2 DEF SharedOK, SharedTypes
  <2>2. /\ aged' = aged \/ \E r \in Runs : aged' = aged \cup {r}
        /\ cooling' = cooling \/ cooling' = ~cooling
        /\ up' = up \/ \E r \in Runs : up' = [up EXCEPT ![r] = "ended"]
    BY DEF GrowOld, Gone, ToggleCooling, vars, outerVars
  <2>3. up' \in [Runs -> {"none", "running", "ended"}]
    BY <2>1, <2>2
  <2> QED
    BY <2>1, <2>2, <2>3
<1>4. SharedOK' /\ Made' = Made
  BY <1>1, <1>2, <1>3, SharedStays DEF SharedOK, SharedTypes, setVars, markVars
<1>5. ProcsOK'
  BY <1>1, <1>4, BaseParts DEF ProcsOK, AllFit
<1> QED
  BY <1>1, <1>4, <1>5, BaseParts

\* A step is that of one process, a landing, or the outside's.
LEMMA NextBase ==
  ASSUME Base, [Next]_vars
  PROVE  Base'
<1>1. ASSUME NEW p \in Procs, Step(p) \/ Cancelled(p)
      PROVE  Base'
  BY <1>1, EntryKeeps, RotateKeeps, FlightFails, FlightLands, ReleaseKeeps, FinishKeeps DEF Step
<1>2. ASSUME NEW p \in Callers \cup {Maint}, NEW a \in Agents,
             Precreate(p, a) \/ (p \in Callers /\ Acquire(p, a))
      PROVE  Base'
  BY <1>2, EntryKeeps DEF Procs
<1>3. CASE Background \/ Maintain \/ FinishAllRuns \/ ShutdownBegin
  BY <1>3, LoopsKeep, ShutdownKeeps DEF Background, Procs
<1>4. CASE Env \/ UNCHANGED vars
  BY <1>4, OutsideKeeps, RestartKeeps DEF Env
<1> QED
  BY <1>1, <1>2, <1>3, <1>4 DEF Next

THEOREM BaseInvariant == Spec => []Base
<1>1. Base /\ [Next]_vars => Base'
  BY NextBase
<1> QED
  BY <1>1, InitBase, PTL DEF Spec

-----------------------------------------------------------------------------
(* Where the steps lead.                                                    *)

LEMMA Ending ==
  ASSUME Base, NEW p \in Procs, pc[p] \in RotatePCs \cup FinishPCs \cup {"check"}
  PROVE  /\ FailPc(p) \in Ends /\ Home(p) \in Ends /\ loc[p].ret \in Ends
         /\ Fail(p) => pc'[p] \in Ends
         /\ Back(p) => pc'[p] \in Ends
<1>1. loc[p].ret \in Ends /\ Home(p) \in Ends /\ pc \in [Procs -> PCs]
  <2>1. loc[p].ret \in Returns(p)
    BY DEF Base, AllFit, Fits
  <2> QED
    BY <2>1 DEF Returns, Home, Ends, Base, TypeOK
<1>2. FailPc(p) \in Ends
  BY <1>1 DEF FailPc, Ends
<1> QED
  BY <1>1, <1>2 DEF Fail, Back, To

\* The path of one process through the manager.
LEMMA Path ==
  ASSUME Base, NEW p \in Procs
  PROVE  /\ \A a \in Agents : Acquire(p, a) => pc[p] = "idle" /\ pc'[p] = "check"
         /\ \A a \in Agents : Precreate(p, a) => pc[p] = Home(p) /\ pc'[p] = "rotate"
         /\ Check(p) => pc[p] = "check" /\ pc'[p] \in Ends \cup {"rotate"}
         /\ Lease(p) => pc[p] = "lease" /\ pc'[p] \in {"check", "leased"}
         /\ Cancelled(p) => pc[p] \in {"check", "rotate", "await"} /\ pc'[p] \in Ends
         /\ RotateRefused(p) \/ RotateNotNeeded(p) => pc[p] = "rotate" /\ pc'[p] \in Ends
         /\ RotateWait(p) => pc[p] = "rotate" /\ pc'[p] = "await" /\ loc'[p] = loc[p]
         /\ RotateLead(p) => pc[p] = "rotate" /\ pc'[p] \in {"lookup", "start"} /\ loc'[p] = loc[p]
         /\ Lookup(p) => pc[p] = "lookup" /\ pc'[p] \in {"adopt", "purge", "start"}
         /\ Purge(p) => pc[p] = "purge" /\ pc'[p] = "start"
         /\ AdoptRefused(p) => pc[p] = "adopt"
         /\ Adopt(p) => pc[p] = "adopt"
         /\ StartErr(p) \/ StartOk(p) \/ StartLate(p) => pc[p] = "start"
         /\ Discard(p) => pc[p] = "discard" /\ pc'[p] \in Ends
         /\ PersistNew(p) => pc[p] = "persist" /\ pc'[p] \in Ends \cup {"mark"}
         /\ Release(p) => pc[p] = "leased" /\ pc'[p] \in {"mark", "idle", "invalid"}
         /\ ReleaseAbandoned(p) => pc[p] = "leased" /\ pc'[p] \in {"mark", "idle"}
         /\ Invalidate(p) => pc[p] = "invalid" /\ pc'[p] = "idle"
         /\ Mark(p) => pc[p] = "mark" /\ pc'[p] \in Ends \cup {"send"}
         /\ Send(p) => pc[p] = "send" /\ pc'[p] \in Ends \cup {"finish"}
         /\ Claim(p) => pc[p] = "finish" /\ pc'[p] \in Ends \cup {"dispatch", "call"}
         /\ Dispatch(p) => pc[p] = "dispatch" /\ pc'[p] = "call" /\ loc'[p] = loc[p]
         /\ CallOk(p) \/ CallErr(p) => pc[p] = "call" /\ pc'[p] \in Ends
<1>1. /\ pc \in [Procs -> PCs]
      /\ \A s, l : To(p, s, l) => pc'[p] = s /\ loc'[p] = l
  BY DEF To, Base, TypeOK
<1>2. Home(p) \in Ends /\ NoLoc(p).ret = Home(p)
  BY DEF Home, Ends, NoLoc
<1>3. /\ {"check", "rotate", "await", "lookup", "purge", "adopt", "start", "discard", "persist",
          "mark", "send", "finish", "dispatch", "call"} \subseteq RotatePCs \cup FinishPCs \cup {"check"}
  BY DEF RotatePCs, FinishPCs
<1>4. /\ Check(p) => pc[p] = "check" /\ pc'[p] \in Ends \cup {"rotate"}
      /\ Cancelled(p) => pc[p] \in {"check", "rotate", "await"} /\ pc'[p] \in Ends
      /\ RotateRefused(p) \/ RotateNotNeeded(p) => pc[p] = "rotate" /\ pc'[p] \in Ends
      /\ Discard(p) => pc[p] = "discard" /\ pc'[p] \in Ends
  BY <1>1, <1>3, Ending DEF Check, Cancelled, RotateRefused, RotateNotNeeded, Discard, Ends
<1>5. /\ PersistNew(p) => pc[p] = "persist" /\ pc'[p] \in Ends \cup {"mark"}
      /\ Mark(p) => pc[p] = "mark" /\ pc'[p] \in Ends \cup {"send"}
      /\ Send(p) => pc[p] = "send" /\ pc'[p] \in Ends \cup {"finish"}
      /\ Claim(p) => pc[p] = "finish" /\ pc'[p] \in Ends \cup {"dispatch", "call"}
      /\ CallOk(p) \/ CallErr(p) => pc[p] = "call" /\ pc'[p] \in Ends
  BY <1>1, <1>3, Ending DEF PersistNew, Mark, Send, Claim, CallOk, CallErr
<1>6. /\ \A a \in Agents : Acquire(p, a) => pc[p] = "idle" /\ pc'[p] = "check"
      /\ \A a \in Agents : Precreate(p, a) => pc[p] = Home(p) /\ pc'[p] = "rotate"
      /\ Lease(p) => pc[p] = "lease" /\ pc'[p] \in {"check", "leased"}
      /\ RotateWait(p) => pc[p] = "rotate" /\ pc'[p] = "await" /\ loc'[p] = loc[p]
      /\ RotateLead(p) => pc[p] = "rotate" /\ pc'[p] \in {"lookup", "start"} /\ loc'[p] = loc[p]
  BY <1>1 DEF Acquire, Precreate, Lease, RotateWait, RotateLead
<1>7. /\ Lookup(p) => pc[p] = "lookup" /\ pc'[p] \in {"adopt", "purge", "start"}
      /\ Purge(p) => pc[p] = "purge" /\ pc'[p] = "start"
      /\ AdoptRefused(p) => pc[p] = "adopt"
      /\ Adopt(p) => pc[p] = "adopt"
      /\ StartErr(p) \/ StartOk(p) \/ StartLate(p) => pc[p] = "start"
      /\ Invalidate(p) => pc[p] = "invalid" /\ pc'[p] = "idle"
      /\ Dispatch(p) => pc[p] = "dispatch" /\ pc'[p] = "call" /\ loc'[p] = loc[p]
  BY <1>1 DEF Lookup, Purge, AdoptRefused, Adopt, StartErr, StartOk, StartLate, Invalidate, Dispatch
<1>8. ReleaseAbandoned(p) => pc[p] = "leased" /\ pc'[p] \in {"mark", "idle"}
  BY <1>1 DEF ReleaseAbandoned
<1>9. Release(p) => pc[p] = "leased" /\ pc'[p] \in {"mark", "idle", "invalid"}
  <2>1. SUFFICES ASSUME Release(p) PROVE pc[p] = "leased" /\ pc'[p] \in {"mark", "idle", "invalid"}
    OBVIOUS
  <2>2. Home(p) = "idle"
    <3>1. pc[p] = "leased" /\ pc[p] \in Places(p)
      BY <2>1 DEF Release, Base, AllFit, Fits
    <3> QED
      BY <3>1, WhoIsWhere DEF Home
  <2>3. \A a : [NoLoc(p) EXCEPT !.agent = a, !.ret = "invalid"].ret = "invalid"
    BY DEF NoLoc
  <2>4. pc[p] = "leased" /\ \E s \in {"mark", "idle", "invalid"} : \E l : To(p, s, l)
    BY <2>1, <2>2, <2>3, <1>2 DEF Release
  <2> QED
    BY <1>1, <2>4
<1> QED
  BY <1>4, <1>5, <1>6, <1>7, <1>8, <1>9

\* What the background goroutines do.
LEMMA BackgroundPath ==
  ASSUME Base
  PROVE  /\ WorkerTake \/ WorkerExit => pc[Worker] = "work" /\ pc'[Worker] \in {"finish", "exited"}
         /\ Maintain => pc[Maint] = "rest" /\ pc'[Maint] = "turn"
         /\ MaintainTurn => pc[Maint] = "turn" /\ pc'[Maint] \in {"rotate", "mark", "rest"}
         /\ FinishAllRuns => pc[Drainer] = "rest" /\ pc'[Drainer] = "each"
         /\ FinishEach => pc[Drainer] = "each" /\ pc'[Drainer] \in {"rest", "finish"}
         /\ ShutdownBegin => pc[Stopper] = "rest" /\ pc'[Stopper] = "flagged"
         /\ ShutdownStop => pc[Stopper] = "flagged" /\ pc'[Stopper] = "waiting"
         /\ ShutdownClaim => pc[Stopper] = "waiting" /\ pc'[Stopper] \in {"save", "last"}
         /\ ShutdownSave => pc[Stopper] = "save" /\ pc'[Stopper] \in {"save", "last"}
         /\ ShutdownLast => pc[Stopper] = "last" /\ pc'[Stopper] \in {"last", "done"}
<1>1. /\ pc \in [Procs -> PCs]
      /\ {Worker, Maint, Drainer, Stopper} \subseteq Procs
  BY DEF Base, TypeOK, Procs
<1>2. \A p \in Procs : \A s, l : To(p, s, l) => pc'[p] = s
  BY <1>1 DEF To
<1>3. /\ WorkerTake \/ WorkerExit => pc[Worker] = "work" /\ pc'[Worker] \in {"finish", "exited"}
      /\ Maintain => pc[Maint] = "rest" /\ pc'[Maint] = "turn"
      /\ MaintainTurn => pc[Maint] = "turn" /\ pc'[Maint] \in {"rotate", "mark", "rest"}
  BY <1>1, <1>2 DEF WorkerTake, WorkerExit, Maintain, MaintainTurn
<1>4. /\ FinishAllRuns => pc[Drainer] = "rest" /\ pc'[Drainer] = "each"
      /\ FinishEach => pc[Drainer] = "each" /\ pc'[Drainer] \in {"rest", "finish"}
  BY <1>1, <1>2 DEF FinishAllRuns, FinishEach
<1>5. /\ ShutdownBegin => pc[Stopper] = "rest" /\ pc'[Stopper] = "flagged"
      /\ ShutdownStop => pc[Stopper] = "flagged" /\ pc'[Stopper] = "waiting"
      /\ ShutdownClaim => pc[Stopper] = "waiting" /\ pc'[Stopper] \in {"save", "last"}
      /\ ShutdownSave => pc[Stopper] = "save" /\ pc'[Stopper] \in {"save", "last"}
      /\ ShutdownLast => pc[Stopper] = "last" /\ pc'[Stopper] \in {"last", "done"}
  BY <1>1, <1>2 DEF ShutdownBegin, ShutdownStop, ShutdownClaim, ShutdownSave, ShutdownLast
<1> QED
  BY <1>3, <1>4, <1>5

-----------------------------------------------------------------------------
(* Single flight.                                                           *)

FlightPCs == {"await", "lookup", "purge", "adopt", "start"}

\* A step that neither starts nor lands a flight.
LEMMA FlightQuiet ==
  ASSUME Base, FlightSound, NEW p \in Procs, OthersStay(p), flight' = flight,
         \/ pc'[p] \notin FlightPCs
         \/ pc[p] \in {"lookup", "purge", "adopt", "start"} /\ pc'[p] # "await"
            /\ loc'[p].agent = loc[p].agent
  PROVE  FlightSound'
BY DEF FlightSound, FlightPCs, OthersStay

LEMMA FlightLeads ==
  ASSUME Base, FlightSound, NEW p \in Procs, RotateLead(p)
  PROVE  FlightSound'
<1>1. OthersStay(p) /\ pc'[p] \in {"lookup", "start"} /\ loc'[p] = loc[p]
  BY RotateKeeps, Path
<1>2. loc[p].agent \in Agents /\ p # NoProc
  <2>1. pc[p] = "rotate" /\ Fits(Made, p, pc[p], loc[p])
    BY Path DEF Base, AllFit
  <2> QED
    BY <2>1, RunAssumption DEF Fits, RotatePCs
<1>3. /\ flight[loc[p].agent] = NoProc /\ flight \in [Agents -> Procs \cup {NoProc}]
      /\ flight' = [flight EXCEPT ![loc[p].agent] = p]
  BY DEF RotateLead, MayLead, Base, TypeOK
<1>4. flight'[loc[p].agent] = p /\ \A a : a # loc[p].agent /\ a \in Agents => flight'[a] = flight[a]
  BY <1>2, <1>3
<1>5. ASSUME NEW q \in Procs, q # p
      PROVE  /\ pc'[q] \in {"lookup", "purge", "adopt", "start"} => flight'[loc'[q].agent] = q
             /\ pc'[q] = "await" => flight'[loc'[q].agent] # NoProc
  <2>1. /\ pc'[q] = pc[q] /\ loc'[q] = loc[q] /\ q # NoProc
        /\ pc[q] \in FlightPCs => loc[q].agent \in Agents
    BY <1>1, <1>5, RunAssumption DEF OthersStay, Base, AllFit, Fits, RotatePCs, FlightPCs
  <2> QED
    BY <1>2, <1>3, <1>4, <2>1 DEF FlightSound, FlightPCs
<1> QED
  BY <1>1, <1>4, <1>5 DEF FlightSound

LEMMA FlightEnds ==
  ASSUME Base, FlightSound, NEW p \in Procs, pc[p] \in {"adopt", "start"},
         OthersWait(p), Landed(p)
  PROVE  FlightSound'
<1>1. /\ flight[loc[p].agent] = p
      /\ flight' = [flight EXCEPT ![loc[p].agent] = NoProc]
      /\ flight \in [Agents -> Procs \cup {NoProc}]
  BY DEF FlightSound, Landed, Base, TypeOK
<1>2. ASSUME NEW q \in Procs, pc'[q] \in {"lookup", "purge", "adopt", "start"}
      PROVE  flight'[loc'[q].agent] = q
  <2>1. q # p
    BY <1>2 DEF Landed, Ends
  <2>2. pc'[q] = pc[q] /\ loc'[q] = loc[q]
    BY <1>2, <2>1 DEF OthersWait, Woken
  <2>3. flight[loc[q].agent] = q /\ loc[q].agent \in Agents
    BY <1>2, <2>2 DEF FlightSound, Base, AllFit, Fits, RotatePCs
  <2> QED
    BY <1>1, <2>1, <2>2, <2>3
<1>3. ASSUME NEW q \in Procs, pc'[q] = "await"
      PROVE  flight'[loc'[q].agent] # NoProc
  <2>1. q # p /\ pc[q] = "await" /\ loc'[q] = loc[q] /\ loc[q].agent # loc[p].agent
    BY <1>3 DEF Landed
  <2>2. flight[loc[q].agent] # NoProc /\ loc[q].agent \in Agents
    BY <2>1 DEF FlightSound, Base, AllFit, Fits, RotatePCs
  <2> QED
    BY <1>1, <2>1, <2>2
<1> QED
  BY <1>2, <1>3 DEF FlightSound

LEMMA FlightStep ==
  ASSUME Base, FlightSound, [Next]_vars
  PROVE  FlightSound'
<1>0. Ends \cap FlightPCs = {}
  BY DEF Ends, FlightPCs
<1>1. ASSUME NEW p \in Procs, Check(p) \/ Lease(p) \/ Cancelled(p)
      PROVE  FlightSound'
  <2>1. OthersStay(p) /\ flight' = flight
    BY <1>1, EntryKeeps DEF Check, Lease, Cancelled
  <2>2. pc'[p] \notin FlightPCs
    BY <1>1, Path DEF FlightPCs, Ends
  <2> QED
    BY <2>1, <2>2, FlightQuiet
<1>2. ASSUME NEW p \in Procs, NEW a \in Agents,
             \/ Acquire(p, a) /\ p \in Callers
             \/ Precreate(p, a) /\ p \in Callers \cup {Maint}
      PROVE  FlightSound'
  <2>1. OthersStay(p) /\ flight' = flight
    BY <1>2, EntryKeeps DEF Acquire, Precreate
  <2>2. pc'[p] \notin FlightPCs
    BY <1>2, Path DEF FlightPCs
  <2> QED
    BY <2>1, <2>2, FlightQuiet
<1>3. ASSUME NEW p \in Procs,
             RotateRefused(p) \/ RotateNotNeeded(p) \/ Discard(p) \/ PersistNew(p)
      PROVE  FlightSound'
  <2>1. OthersStay(p) /\ flight' = flight
    BY <1>3, RotateKeeps DEF RotateRefused, RotateNotNeeded, Discard, PersistNew
  <2>2. pc'[p] \notin FlightPCs
    BY <1>3, Path DEF FlightPCs, Ends
  <2> QED
    BY <2>1, <2>2, FlightQuiet
<1>4. ASSUME NEW p \in Procs, Lookup(p) \/ Purge(p)
      PROVE  FlightSound'
  <2>1. OthersStay(p) /\ flight' = flight
    BY <1>4, RotateKeeps DEF Lookup, Purge
  <2>2. /\ pc[p] \in {"lookup", "purge"} /\ pc'[p] # "await"
        /\ \E s, r : To(p, s, [loc[p] EXCEPT !.run = r])
    BY <1>4, Path DEF Lookup, Purge
  <2>3. loc'[p].agent = loc[p].agent
    BY <2>2 DEF To, Base, TypeOK, Locals
  <2> QED
    BY <2>1, <2>2, <2>3, FlightQuiet
<1>5. ASSUME NEW p \in Procs, RotateWait(p)
      PROVE  FlightSound'
  <2>1. /\ OthersStay(p) /\ flight' = flight
        /\ pc'[p] = "await" /\ loc'[p] = loc[p] /\ flight[loc[p].agent] # NoProc
    BY <1>5, RotateKeeps, Path DEF RotateWait
  <2> QED
    BY <2>1 DEF FlightSound, OthersStay
<1>6. ASSUME NEW p \in Procs,
             AdoptRefused(p) \/ Adopt(p) \/ StartErr(p) \/ StartOk(p) \/ StartLate(p)
      PROVE  FlightSound'
  BY <1>6, FlightFails, FlightLands, Path, FlightEnds
<1>7. ASSUME NEW p \in Procs, Release(p) \/ ReleaseAbandoned(p) \/ Invalidate(p)
      PROVE  FlightSound'
  <2>1. OthersStay(p) /\ flight' = flight
    BY <1>7, ReleaseKeeps DEF Release, ReleaseAbandoned, Invalidate
  <2>2. pc'[p] \notin FlightPCs
    BY <1>7, Path DEF FlightPCs
  <2> QED
    BY <2>1, <2>2, FlightQuiet
<1>8. ASSUME NEW p \in Procs,
             Mark(p) \/ Send(p) \/ Claim(p) \/ Dispatch(p) \/ CallOk(p) \/ CallErr(p)
      PROVE  FlightSound'
  <2>1. OthersStay(p) /\ flight' = flight
    BY <1>8, FinishKeeps DEF Mark, Send, Claim, Dispatch, CallOk, CallErr
  <2>2. pc'[p] \notin FlightPCs
    BY <1>8, Path DEF FlightPCs, Ends
  <2> QED
    BY <2>1, <2>2, FlightQuiet
<1>9. CASE Background \/ Maintain \/ FinishAllRuns \/ ShutdownBegin
  <2>1. PICK p \in Procs : OthersStay(p) /\ pc'[p] \notin FlightPCs
    BY <1>9, LoopsKeep, ShutdownKeeps, BackgroundPath DEF Background, Procs, FlightPCs
  <2>2. flight' = flight
    BY <1>9 DEF Background, WorkerTake, WorkerExit, MaintainTurn, FinishEach, ShutdownStop,
                ShutdownClaim, ShutdownSave, ShutdownLast, Maintain, FinishAllRuns, ShutdownBegin
  <2> QED
    BY <2>1, <2>2, FlightQuiet
<1>10. CASE Restart
  <2>1. \A p \in Procs : pc'[p] = Home(p)
    BY <1>10 DEF Restart
  <2> QED
    BY <2>1 DEF FlightSound, Home
<1>11. CASE (\E r \in Runs : GrowOld(r) \/ Gone(r)) \/ ToggleCooling \/ UNCHANGED vars
  BY <1>11, OutsideKeeps DEF FlightSound
<1>12. ASSUME NEW p \in Procs, Step(p) \/ Cancelled(p)
       PROVE  FlightSound'
  BY <1>1, <1>3, <1>4, <1>5, <1>6, <1>7, <1>8, <1>12, FlightLeads DEF Step
<1>13. CASE (\E c \in Callers, a \in Agents : Acquire(c, a))
            \/ \E p \in Callers \cup {Maint}, a \in Agents : Precreate(p, a)
  BY <1>2, <1>13 DEF Procs
<1>14. CASE Env \/ UNCHANGED vars
  BY <1>10, <1>11, <1>14 DEF Env
<1> QED
  BY <1>9, <1>12, <1>13, <1>14 DEF Next

\* One START of an agent's run is in flight at a time, led by the process the
\* others wait for (runs.go:592-633).
THEOREM SingleFlight == Spec => []FlightSound
<1>1. Init => FlightSound
  BY DEF Init, FlightSound, Home
<1>2. Base /\ FlightSound /\ [Next]_vars => FlightSound'
  BY FlightStep
<1> QED
  BY <1>1, <1>2, BaseInvariant, PTL DEF Spec

-----------------------------------------------------------------------------
(* Leases.                                                                  *)

LEMMA LeasersFinite ==
  ASSUME NEW r
  PROVE  IsFiniteSet(Leasers(r))
<1>1. Leasers(r) \subseteq Callers
  BY DEF Leasers
<1> QED
  BY <1>1, RunAssumption, FS_Subset

\* Nobody takes a lease and nobody gives one back.
LEMMA LeaseQuiet ==
  ASSUME LeaseCount, NEW p \in Procs, OthersWait(p), inflight' = inflight,
         pc[p] # "leased", pc'[p] # "leased"
  PROVE  LeaseCount'
<1>1. \A q \in Callers : /\ pc'[q] = "leased" <=> pc[q] = "leased"
                         /\ pc[q] = "leased" => loc'[q] = loc[q]
  BY DEF OthersWait, Woken, Procs
<1>2. \A r : Leasers(r)' = Leasers(r)
  BY <1>1 DEF Leasers
<1> QED
  BY <1>2 DEF LeaseCount

\* One caller takes a lease on r.
LEMMA LeaseTaken ==
  ASSUME Base, LeaseCount, NEW p \in Callers, NEW r \in Runs, OthersStay(p),
         pc[p] # "leased", pc'[p] = "leased", loc'[p].run = r,
         inflight' = [inflight EXCEPT ![r] = @ + 1]
  PROVE  LeaseCount'
<1>1. Leasers(r)' = Leasers(r) \cup {p} /\ p \notin Leasers(r)
  BY DEF Leasers, OthersStay, Procs
<1>2. \A s \in Runs \ {r} : Leasers(s)' = Leasers(s)
  BY DEF Leasers, OthersStay, Procs
<1>3. /\ inflight'[r] = inflight[r] + 1
      /\ \A s \in Runs \ {r} : inflight'[s] = inflight[s]
  BY DEF Base, TypeOK
<1>4. Cardinality(Leasers(r) \cup {p}) = Cardinality(Leasers(r)) + 1
  BY <1>1, LeasersFinite, FS_AddElement
<1>5. inflight'[r] = Cardinality(Leasers(r)')
  BY <1>1, <1>3, <1>4 DEF LeaseCount
<1> QED
  BY <1>2, <1>3, <1>5 DEF LeaseCount

\* One caller gives its lease back; Left does not have to stop at zero.
LEMMA LeaseGiven ==
  ASSUME Base, LeaseCount, NEW p \in Callers, OthersStay(p), pc[p] = "leased", pc'[p] # "leased",
         inflight' = [inflight EXCEPT ![loc[p].run] = Left(loc[p].run)]
  PROVE  LeaseCount'
<1>1. PICK r \in Runs : r = loc[p].run
  BY DEF Base, AllFit, Fits, Made, Procs
<1>2. Leasers(r)' = Leasers(r) \ {p} /\ p \in Leasers(r)
  BY <1>1 DEF Leasers, OthersStay, Procs
<1>3. \A s \in Runs \ {r} : Leasers(s)' = Leasers(s)
  BY <1>1 DEF Leasers, OthersStay, Procs
<1>4. /\ inflight'[r] = Left(r)
      /\ \A s \in Runs \ {r} : inflight'[s] = inflight[s]
  BY <1>1 DEF Base, TypeOK
<1>5. Cardinality(Leasers(r) \ {p}) = Cardinality(Leasers(r)) - 1
  BY <1>2, LeasersFinite, FS_RemoveElement
<1>6. Cardinality(Leasers(r)) \in Nat /\ Cardinality(Leasers(r)) # 0
  BY <1>2, LeasersFinite, FS_CardinalityType, FS_EmptySet
<1>7. Left(r) = Cardinality(Leasers(r)) - 1
  BY <1>1, <1>6 DEF Left, LeaseCount
<1>8. inflight'[r] = Cardinality(Leasers(r)')
  BY <1>2, <1>4, <1>5, <1>7
<1> QED
  BY <1>3, <1>4, <1>8 DEF LeaseCount

LEMMA LeaseStep ==
  ASSUME Base, LeaseCount, [Next]_vars
  PROVE  LeaseCount'
<1>1. ASSUME NEW p \in Procs, Lease(p)
      PROVE  LeaseCount'
  <2> DEFINE r == current[loc[p].agent]
  <2>1. /\ OthersStay(p) /\ pc[p] = "lease" /\ p \in Callers /\ r \in Runs \cup {NoRun}
        /\ pc \in [Procs -> PCs] /\ loc \in [Procs -> Locals]
    <3>1. pc[p] = "lease" /\ Fits(Made, p, pc[p], loc[p])
      BY <1>1 DEF Lease, Base, AllFit
    <3> QED
      BY <1>1, <3>1, EntryKeeps, WhoIsWhere DEF Fits, Base, TypeOK
  <2>2. CASE r = NoRun
    <3>1. To(p, "check", loc[p]) /\ UNCHANGED inflight
      BY <1>1, <2>2 DEF Lease
    <3>2. pc'[p] # "leased"
      BY <2>1, <3>1 DEF To
    <3> QED
      BY <2>1, <3>1, <3>2, LeaseQuiet DEF OthersStay, OthersWait
  <2>3. CASE r # NoRun
    <3>1. To(p, "leased", [NoLoc(p) EXCEPT !.run = r]) /\ inflight' = Leased(r)
      BY <1>1, <2>3 DEF Lease
    <3>2. pc'[p] = "leased" /\ loc'[p].run = r
      BY <2>1, <3>1 DEF To, NoLoc
    <3> QED
      BY <2>1, <2>3, <3>1, <3>2, LeaseTaken DEF Leased
  <2> QED
    BY <2>2, <2>3
<1>2. ASSUME NEW p \in Procs, Release(p) \/ ReleaseAbandoned(p)
      PROVE  LeaseCount'
  <2>1. /\ OthersStay(p) /\ pc[p] = "leased" /\ pc'[p] # "leased"
        /\ inflight' = [inflight EXCEPT ![loc[p].run] = Left(loc[p].run)]
    BY <1>2, ReleaseKeeps, Path DEF Release, ReleaseAbandoned
  <2>2. p \in Callers
    BY <2>1, WhoIsWhere DEF Base, AllFit, Fits
  <2> QED
    BY <2>1, <2>2, LeaseGiven
\* Every other step leaves the leases alone.
<1>3. ASSUME NEW p \in Procs,
             \/ Check(p) \/ Cancelled(p) \/ Invalidate(p)
             \/ \E a \in Agents : \/ Acquire(p, a) /\ p \in Callers
                                  \/ Precreate(p, a) /\ p \in Callers \cup {Maint}
      PROVE  LeaseCount'
  <2>1. OthersStay(p) /\ inflight' = inflight
    BY <1>3, EntryKeeps, ReleaseKeeps DEF Check, Cancelled, Invalidate, Acquire, Precreate, markVars
  <2>2. pc[p] # "leased" /\ pc'[p] # "leased"
    BY <1>3, Path DEF Ends, Home
  <2> QED
    BY <2>1, <2>2, LeaseQuiet DEF OthersStay, OthersWait
<1>4. ASSUME NEW p \in Procs,
             \/ RotateRefused(p) \/ RotateNotNeeded(p) \/ RotateWait(p) \/ RotateLead(p)
             \/ Lookup(p) \/ Purge(p) \/ Discard(p) \/ PersistNew(p)
      PROVE  LeaseCount'
  <2>1. OthersStay(p) /\ inflight' = inflight
    BY <1>4, RotateKeeps DEF RotateRefused, RotateNotNeeded, RotateWait, RotateLead, Lookup, Purge,
                             Discard, PersistNew, markVars
  <2>2. pc[p] # "leased" /\ pc'[p] # "leased"
    BY <1>4, Path DEF Ends
  <2> QED
    BY <2>1, <2>2, LeaseQuiet DEF OthersStay, OthersWait
<1>5. ASSUME NEW p \in Procs,
             AdoptRefused(p) \/ Adopt(p) \/ StartErr(p) \/ StartOk(p) \/ StartLate(p)
      PROVE  LeaseCount'
  <2>1. OthersWait(p) /\ Landed(p) /\ inflight' = inflight
    BY <1>5, FlightFails, FlightLands DEF AdoptRefused, Adopt, StartErr, StartOk, StartLate, markVars
  <2>2. pc[p] # "leased" /\ pc'[p] # "leased"
    BY <1>5, <2>1, Path DEF Landed, Ends
  <2> QED
    BY <2>1, <2>2, LeaseQuiet
<1>6. ASSUME NEW p \in Procs,
             Mark(p) \/ Send(p) \/ Claim(p) \/ Dispatch(p) \/ CallOk(p) \/ CallErr(p)
      PROVE  LeaseCount'
  <2>1. OthersStay(p) /\ inflight' = inflight
    BY <1>6, FinishKeeps DEF Mark, Send, Claim, Dispatch, CallOk, CallErr, markVars
  <2>2. pc[p] # "leased" /\ pc'[p] # "leased"
    BY <1>6, Path DEF Ends
  <2> QED
    BY <2>1, <2>2, LeaseQuiet DEF OthersStay, OthersWait
<1>7. CASE Background \/ Maintain \/ FinishAllRuns \/ ShutdownBegin
  <2>1. PICK p \in Procs : OthersStay(p) /\ pc[p] # "leased" /\ pc'[p] # "leased"
    BY <1>7, LoopsKeep, ShutdownKeeps, BackgroundPath DEF Background, Procs
  <2>2. inflight' = inflight
    BY <1>7 DEF Background, WorkerTake, WorkerExit, MaintainTurn, FinishEach, ShutdownStop,
                ShutdownClaim, ShutdownSave, ShutdownLast, Maintain, FinishAllRuns, ShutdownBegin,
                markVars
  <2> QED
    BY <2>1, <2>2, LeaseQuiet DEF OthersStay, OthersWait
<1>8. CASE Restart
  <2>1. \A p \in Procs : pc'[p] # "leased"
    BY <1>8 DEF Restart, Home
  <2>2. \A r : Leasers(r)' = {}
    BY <2>1 DEF Leasers, Procs
  <2> QED
    BY <1>8, <2>2, FS_EmptySet DEF Restart, LeaseCount
<1>9. CASE (\E r \in Runs : GrowOld(r) \/ Gone(r)) \/ ToggleCooling \/ UNCHANGED vars
  <2>1. UNCHANGED <<pc, loc, inflight>>
    BY <1>9, OutsideKeeps DEF markVars
  <2> QED
    BY <2>1 DEF LeaseCount, Leasers
<1>10. ASSUME NEW p \in Procs, Step(p) \/ Cancelled(p)
       PROVE  LeaseCount'
  BY <1>1, <1>2, <1>3, <1>4, <1>5, <1>6, <1>10 DEF Step
<1>11. CASE (\E c \in Callers, a \in Agents : Acquire(c, a))
            \/ \E p \in Callers \cup {Maint}, a \in Agents : Precreate(p, a)
  BY <1>3, <1>11 DEF Procs
<1>12. CASE Env \/ UNCHANGED vars
  BY <1>8, <1>9, <1>12 DEF Env
<1> QED
  BY <1>7, <1>10, <1>11, <1>12 DEF Next

\* inflight counts the leases that are out (runs.go:295-302, 319-330): no
\* release is lost, and none is counted twice.
THEOREM LeasesCounted == Spec => []LeaseCount
<1>1. Init => LeaseCount
  <2>1. SUFFICES ASSUME Init PROVE LeaseCount
    OBVIOUS
  <2>2. \A r : Leasers(r) = {}
    BY <2>1 DEF Init, Leasers, Home, Procs
  <2> QED
    BY <2>1, <2>2, FS_EmptySet DEF Init, LeaseCount
<1>2. Base /\ LeaseCount /\ [Next]_vars => LeaseCount'
  BY LeaseStep
<1> QED
  BY <1>1, <1>2, BaseInvariant, PTL DEF Spec

-----------------------------------------------------------------------------
(* A closed manager.                                                        *)

\* Only the steps of Shutdown move its goroutine, and only the first of them
\* sets the flag.
Stopping == ShutdownBegin \/ ShutdownStop \/ ShutdownClaim \/ ShutdownSave \/ ShutdownLast

LEMMA StepMoves ==
  ASSUME Base, NEW p \in Procs, Step(p) \/ Cancelled(p)
  PROVE  OthersWait(p) /\ p # Stopper /\ stopping' = stopping
<1>1. OthersWait(p)
  <2>1. \A q \in Procs : OthersStay(q) => OthersWait(q)
    BY DEF OthersStay, OthersWait
  <2> QED
    BY <2>1, EntryKeeps, RotateKeeps, FlightFails, FlightLands, ReleaseKeeps, FinishKeeps DEF Step
<1>2. p # Stopper
  <2>1. pc[p] \in {"check", "lease", "rotate", "await", "lookup", "purge", "adopt", "start",
                   "discard", "persist", "leased", "invalid", "mark", "send", "finish",
                   "dispatch", "call"}
    BY Path DEF Step
  <2>2. pc[p] \in Places(p)
    BY DEF Base, AllFit, Fits
  <2> QED
    BY <2>1, <2>2, WhoIsWhere, ProcsDiffer DEF RotatePCs
<1>3. stopping' = stopping
  <2>1. CASE Check(p) \/ Cancelled(p) \/ Lease(p) \/ Release(p) \/ ReleaseAbandoned(p) \/ Invalidate(p)
             \/ Mark(p) \/ Send(p) \/ Claim(p) \/ Dispatch(p) \/ CallOk(p) \/ CallErr(p)
    BY <2>1 DEF Check, Cancelled, Lease, Release, ReleaseAbandoned, Invalidate, Mark, Send, Claim,
                Dispatch, CallOk, CallErr
  <2>2. CASE \/ RotateRefused(p) \/ RotateNotNeeded(p) \/ RotateWait(p) \/ RotateLead(p)
             \/ Lookup(p) \/ Purge(p) \/ Discard(p) \/ PersistNew(p)
             \/ AdoptRefused(p) \/ Adopt(p) \/ StartErr(p) \/ StartOk(p) \/ StartLate(p)
    BY <2>2 DEF RotateRefused, RotateNotNeeded, RotateWait, RotateLead, Lookup, Purge, Discard,
                PersistNew, AdoptRefused, Adopt, StartErr, StartOk, StartLate
  <2> QED
    BY <2>1, <2>2 DEF Step
<1> QED
  BY <1>1, <1>2, <1>3

LEMMA StopperStays ==
  ASSUME Base, [Next]_vars, ~Stopping, ~Restart
  PROVE  pc'[Stopper] = pc[Stopper] /\ loc'[Stopper] = loc[Stopper] /\ stopping' = stopping
<1>1. Stopper \in Procs /\ pc[Stopper] # "await"
  BY ProcsDiffer, WhoIsWhere DEF Base, AllFit, Fits, Procs, RotatePCs
<1>2. ASSUME NEW p \in Procs, OthersWait(p), p # Stopper
      PROVE  pc'[Stopper] = pc[Stopper] /\ loc'[Stopper] = loc[Stopper]
  BY <1>1, <1>2 DEF OthersWait, Woken
<1>3. ASSUME NEW p \in Procs, OthersStay(p), p # Stopper
      PROVE  pc'[Stopper] = pc[Stopper] /\ loc'[Stopper] = loc[Stopper]
  BY <1>1, <1>3 DEF OthersStay
<1>4. ASSUME NEW p \in Procs, Step(p) \/ Cancelled(p)
      PROVE  pc'[Stopper] = pc[Stopper] /\ loc'[Stopper] = loc[Stopper] /\ stopping' = stopping
  BY <1>2, <1>4, StepMoves
<1>5. ASSUME NEW p \in Callers \cup {Maint}, NEW a \in Agents,
             Precreate(p, a) \/ (p \in Callers /\ Acquire(p, a))
      PROVE  pc'[Stopper] = pc[Stopper] /\ loc'[Stopper] = loc[Stopper] /\ stopping' = stopping
  BY <1>3, <1>5, EntryKeeps, ProcsDiffer DEF Procs, Precreate, Acquire
<1>6. CASE WorkerTake \/ WorkerExit \/ Maintain \/ MaintainTurn \/ FinishAllRuns \/ FinishEach
  <2>1. \E p \in Procs : OthersStay(p) /\ p # Stopper
    BY <1>6, LoopsKeep, ProcsDiffer DEF Procs
  <2>2. stopping' = stopping
    BY <1>6 DEF WorkerTake, WorkerExit, Maintain, MaintainTurn, FinishAllRuns, FinishEach
  <2> QED
    BY <1>3, <2>1, <2>2
<1>7. CASE (\E r \in Runs : GrowOld(r) \/ Gone(r)) \/ ToggleCooling \/ UNCHANGED vars
  BY <1>7, OutsideKeeps
<1> QED
  BY <1>4, <1>5, <1>6, <1>7 DEF Next, Background, Env, Stopping

\* No run becomes current but by a START or an adoption.
LEMMA CurrentsShrink ==
  ASSUME Base, [Next]_vars, \A p \in Procs : ~Adopt(p) /\ ~StartOk(p)
  PROVE  \A a \in Agents : current'[a] \in {current[a], NoRun}
<1>1. SharedOK
  BY BaseParts
<1>2. ASSUME NEW p \in Procs, Step(p) \/ Cancelled(p)
      PROVE  UNCHANGED current \/ (\E S : Clears(S)) \/ \E a : current' = [current EXCEPT ![a] = NoRun]
  <2>1. CASE Check(p) \/ Cancelled(p) \/ Lease(p)
             \/ Mark(p) \/ Send(p) \/ Claim(p) \/ Dispatch(p) \/ CallOk(p) \/ CallErr(p)
    BY <2>1 DEF Check, Cancelled, Lease, Mark, Send, Claim, Dispatch, CallOk, CallErr, setVars
  <2>2. CASE \/ RotateRefused(p) \/ RotateNotNeeded(p) \/ RotateWait(p) \/ RotateLead(p)
             \/ Lookup(p) \/ Purge(p) \/ Discard(p) \/ PersistNew(p)
             \/ AdoptRefused(p) \/ StartErr(p) \/ StartLate(p)
    BY <2>2 DEF RotateRefused, RotateNotNeeded, RotateWait, RotateLead, Lookup, Purge, Discard,
                PersistNew, AdoptRefused, StartErr, StartLate, setVars
  <2>3. CASE Release(p) \/ ReleaseAbandoned(p) \/ Invalidate(p)
    BY <2>3, DetachClears DEF Release, ReleaseAbandoned, Invalidate, ReleaseDetaches, setVars
  <2> QED
    BY <1>2, <2>1, <2>2, <2>3 DEF Step
<1>3. CASE (\E c \in Callers, a \in Agents : Acquire(c, a))
           \/ \E p \in Callers \cup {Maint}, a \in Agents : Precreate(p, a)
  BY <1>3 DEF Acquire, Precreate, setVars
<1>4. CASE Background \/ Maintain \/ FinishAllRuns \/ ShutdownBegin
  <2>1. CASE FinishAllRuns
    BY <1>1, <2>1 DEF FinishAllRuns, SharedOK, SharedTypes
  <2>2. CASE ShutdownClaim
    BY <2>2 DEF ShutdownClaim
  <2>3. CASE WorkerTake \/ WorkerExit \/ MaintainTurn \/ FinishEach \/ ShutdownStop \/ ShutdownSave
             \/ ShutdownLast \/ Maintain \/ ShutdownBegin
    BY <2>3 DEF WorkerTake, WorkerExit, MaintainTurn, FinishEach, ShutdownStop,
                ShutdownSave, ShutdownLast, Maintain, ShutdownBegin, setVars
  <2> QED
    BY <1>4, <2>1, <2>2, <2>3 DEF Background
<1>5. CASE Env \/ UNCHANGED vars
  BY <1>5, OutsideKeeps DEF Env, Restart, setVars
<1>6. ASSUME UNCHANGED current \/ (\E S : Clears(S)) \/ \E a : current' = [current EXCEPT ![a] = NoRun]
      PROVE  \A a \in Agents : current'[a] \in {current[a], NoRun}
  <2>1. current \in [Agents -> Runs \cup {NoRun}]
    BY <1>1 DEF SharedOK, SharedTypes
  <2> QED
    BY <1>1, <1>6, <2>1, ClearsTypes
<1> QED
  BY <1>2, <1>3, <1>4, <1>5, <1>6 DEF Next

\* Once Shutdown has begun the flag is up; it saves the current runs only
\* when there is a store.
StoppingSound == /\ pc[Stopper] # "rest" => stopping
                 /\ pc[Stopper] = "save" => Persist

LEMMA StoppingStep ==
  ASSUME Base, StoppingSound, [Next]_vars
  PROVE  StoppingSound'
<1>0. Stopper \in Procs /\ pc \in [Procs -> PCs]
  BY DEF Base, TypeOK, Procs
<1>1. CASE ShutdownBegin \/ ShutdownStop \/ ShutdownSave \/ ShutdownLast
  <2>1. stopping'
    BY <1>1, BackgroundPath DEF StoppingSound, ShutdownBegin, ShutdownStop, ShutdownSave, ShutdownLast
  <2>2. pc'[Stopper] = "save" => pc[Stopper] = "save"
    BY <1>1, BackgroundPath
  <2> QED
    BY <2>1, <2>2 DEF StoppingSound
<1>2. CASE ShutdownClaim
  <2>1. stopping' /\ (Persist \/ \E l : To(Stopper, "last", l))
    BY <1>2, BackgroundPath DEF StoppingSound, ShutdownClaim
  <2>2. pc'[Stopper] = "save" => Persist
    BY <1>0, <2>1 DEF To
  <2> QED
    BY <2>1, <2>2 DEF StoppingSound
<1>3. CASE Restart
  BY <1>0, <1>3, ProcsDiffer DEF Restart, StoppingSound, Home
<1>4. CASE ~Stopping /\ ~Restart
  BY <1>4, StopperStays DEF StoppingSound
<1> QED
  BY <1>1, <1>2, <1>3, <1>4 DEF Stopping

LEMMA ClosedStep ==
  ASSUME Base, StoppingSound, ClosedStays, [Next]_vars
  PROVE  ClosedStays'
<1>0. Stopper \in Procs /\ pc \in [Procs -> PCs]
  BY DEF Base, TypeOK, Procs
<1>1. CASE ShutdownClaim
  BY <1>1 DEF ShutdownClaim, ClosedStays, Currents
<1>2. CASE ShutdownBegin \/ ShutdownStop \/ ShutdownSave \/ ShutdownLast
  <2>1. \/ pc'[Stopper] \notin {"last", "done"}
        \/ pc[Stopper] = "save"
        \/ pc[Stopper] = "last" /\ UNCHANGED current
    BY <1>2, BackgroundPath DEF ShutdownLast, setVars
  <2> QED
    BY <2>1 DEF ClosedStays, StoppingSound, Currents
<1>3. CASE Restart
  BY <1>0, <1>3, ProcsDiffer DEF Restart, ClosedStays, Home
<1>4. CASE ~Stopping /\ ~Restart
  <2>1. pc'[Stopper] = pc[Stopper]
    BY <1>4, StopperStays
  <2>2. SUFFICES ASSUME ~Persist, pc[Stopper] \in {"last", "done"}, Currents = {}
                 PROVE  Currents' = {}
    BY <2>1 DEF ClosedStays
  <2>3. \A p \in Procs : ~Adopt(p) /\ ~StartOk(p)
    BY <2>2 DEF StoppingSound, Adopt, StartOk, Discards
  <2>4. \A a \in Agents : current'[a] \in {current[a], NoRun}
    BY <2>3, CurrentsShrink
  <2> QED
    BY <2>2, <2>4 DEF Currents
<1> QED
  BY <1>1, <1>2, <1>3, <1>4 DEF Stopping

\* A manager that was shut down without a store has no current run, whatever
\* START was still in flight (runs.go:31-36).
THEOREM ClosedForGood == Spec => []ClosedStays
<1>1. Init => StoppingSound /\ ClosedStays
  BY ProcsDiffer DEF Init, StoppingSound, ClosedStays, Home, Procs
<1>2. Base /\ StoppingSound /\ [Next]_vars => StoppingSound'
  BY StoppingStep
<1>3. Base /\ StoppingSound /\ ClosedStays /\ [Next]_vars => ClosedStays'
  BY ClosedStep
<1> QED
  BY <1>1, <1>2, <1>3, BaseInvariant, PTL DEF Spec

-----------------------------------------------------------------------------
(* One FINISH at a time.                                                    *)

\* The process has claimed its run and goes upstream with it.
Closes(p) == pc[p] \in {"dispatch", "call"}

\* A claimed run is marked, it is not current, and it has one claimant: a
\* process, or the shutdown.
ClosingSound ==
  /\ \A p \in Procs : Closes(p) =>
       /\ loc[p].job \in finishing
       /\ loc[p].job \notin Currents
       /\ pc[Stopper] \in {"save", "last"} => loc[p].job \notin loc[Stopper].todo
  /\ \A p, q \in Procs : Closes(p) /\ Closes(q) /\ loc[p].job = loc[q].job => p = q
  /\ pc[Stopper] \in {"save", "last"} => loc[Stopper].todo \subseteq finishing

\* A run that becomes current has just been made.
LEMMA CurrentsGrow ==
  ASSUME Base, [Next]_vars
  PROVE  Currents' \subseteq Currents \cup (Runs \ Made)
<1>1. CASE \A p \in Procs : ~Adopt(p) /\ ~StartOk(p)
  BY <1>1, CurrentsShrink DEF Currents
<1>2. ASSUME NEW p \in Procs, Adopt(p) \/ StartOk(p)
      PROVE  Currents' \subseteq Currents \cup (Runs \ Made)
  <2>1. PICK r \in Runs : \E from : Install(p, r, from)
    BY <1>2 DEF Adopt, StartOk
  <2>2. r \in Runs \ Made /\ current' = [current EXCEPT ![loc[p].agent] = r]
    BY <2>1 DEF Install, Unmade, Made
  <2>3. \A a \in Agents : current'[a] = current[a] \/ current'[a] = r
    BY <2>2 DEF Base, TypeOK
  <2> QED
    BY <2>2, <2>3 DEF Currents
<1> QED
  BY <1>1, <1>2

\* The steps that claim a run, or give a claim up.
Claiming(p) == Claim(p) \/ Dispatch(p) \/ CallOk(p) \/ CallErr(p)

LEMMA ClaimsStay ==
  ASSUME Base, [Next]_vars, ~Stopping, ~Restart, \A p \in Procs : ~Claiming(p)
  PROVE  /\ finishing' = finishing
         /\ \A q \in Procs : Closes(q)' => Closes(q) /\ loc'[q] = loc[q]
<1>1. ASSUME NEW p \in Procs, OthersWait(p), pc'[p] \notin {"dispatch", "call"}
      PROVE  \A q \in Procs : Closes(q)' => Closes(q) /\ loc'[q] = loc[q]
  BY <1>1 DEF Closes, OthersWait, Woken
<1>2. ASSUME NEW p \in Procs, OthersStay(p), pc'[p] \notin {"dispatch", "call"}
      PROVE  \A q \in Procs : Closes(q)' => Closes(q) /\ loc'[q] = loc[q]
  BY <1>2 DEF Closes, OthersStay
<1>3. ASSUME NEW p \in Procs, Step(p) \/ Cancelled(p)
      PROVE  /\ OthersWait(p) /\ pc'[p] \notin {"dispatch", "call"}
             /\ finishing' = finishing
  <2>1. OthersWait(p)
    BY <1>3, StepMoves
  <2>2. CASE Check(p) \/ Cancelled(p) \/ Lease(p) \/ Mark(p) \/ Send(p)
    BY <2>1, <2>2, Path DEF Check, Cancelled, Lease, Mark, Send, markVars, Ends
  <2>3. CASE \/ RotateRefused(p) \/ RotateNotNeeded(p) \/ RotateWait(p) \/ RotateLead(p)
             \/ Lookup(p) \/ Purge(p) \/ Discard(p) \/ PersistNew(p)
    BY <2>1, <2>3, Path DEF RotateRefused, RotateNotNeeded, RotateWait, RotateLead, Lookup, Purge, Discard,
                PersistNew, markVars, Ends
  <2>4. CASE AdoptRefused(p) \/ StartErr(p) \/ Adopt(p) \/ StartOk(p) \/ StartLate(p)
    <3>1. Landed(p)
      BY <2>4, FlightFails, FlightLands
    <3> QED
      BY <2>1, <2>4, <3>1 DEF AdoptRefused, StartErr, Adopt, StartOk, StartLate, markVars, Landed, Ends
  <2>5. CASE Release(p) \/ ReleaseAbandoned(p) \/ Invalidate(p)
    BY <2>1, <2>5, Path DEF Release, ReleaseAbandoned, Invalidate, markVars, Ends
  <2> QED
    BY <1>3, <2>1, <2>2, <2>3, <2>4, <2>5 DEF Step, Claiming
<1>4. ASSUME NEW p \in Callers \cup {Maint}, NEW a \in Agents,
             Precreate(p, a) \/ (p \in Callers /\ Acquire(p, a))
      PROVE  /\ \A q \in Procs : Closes(q)' => Closes(q) /\ loc'[q] = loc[q]
             /\ finishing' = finishing
  <2>1. OthersStay(p) /\ pc'[p] \notin {"dispatch", "call"} /\ p \in Procs
    BY <1>4, EntryKeeps, Path DEF Procs
  <2> QED
    BY <1>2, <1>4, <2>1 DEF Precreate, Acquire, markVars
<1>5. CASE WorkerTake \/ WorkerExit \/ Maintain \/ MaintainTurn \/ FinishAllRuns \/ FinishEach
  <2>1. \E p \in Procs : OthersStay(p) /\ pc'[p] \notin {"dispatch", "call"}
    BY <1>5, LoopsKeep, BackgroundPath DEF Procs
  <2>2. finishing' = finishing
    BY <1>5 DEF WorkerTake, WorkerExit, Maintain, MaintainTurn, FinishAllRuns, FinishEach, markVars
  <2> QED
    BY <1>2, <2>1, <2>2
<1>6. CASE (\E r \in Runs : GrowOld(r) \/ Gone(r)) \/ ToggleCooling \/ UNCHANGED vars
  BY <1>6, OutsideKeeps DEF Closes, markVars
<1> QED
  BY <1>1, <1>3, <1>4, <1>5, <1>6 DEF Next, Background, Env, Stopping

LEMMA ClosingStep ==
  ASSUME Base, ClosingSound, [Next]_vars
  PROVE  ClosingSound'
<1>0. /\ finishing \subseteq Made /\ Stopper \in Procs
      /\ pc \in [Procs -> PCs] /\ loc \in [Procs -> Locals]
  BY DEF Base, TypeOK, MadeSound, Procs
<1>1. CASE ~Stopping /\ ~Restart /\ \A p \in Procs : ~Claiming(p)
  <2>1. /\ finishing' = finishing
        /\ \A q \in Procs : Closes(q)' => Closes(q) /\ loc'[q] = loc[q]
        /\ pc'[Stopper] = pc[Stopper] /\ loc'[Stopper] = loc[Stopper]
        /\ Currents' \subseteq Currents \cup (Runs \ Made)
    BY <1>1, ClaimsStay, StopperStays, CurrentsGrow
  <2> QED
    BY <1>0, <2>1 DEF ClosingSound
<1>2. ASSUME NEW p \in Procs, Claiming(p)
      PROVE  ClosingSound'
  <2>1. /\ OthersStay(p) /\ p # Stopper
        /\ pc'[Stopper] = pc[Stopper] /\ loc'[Stopper] = loc[Stopper]
    BY <1>0, <1>2, FinishKeeps, StepMoves DEF Claiming, Step, OthersStay
  <2>2. Currents' = Currents
    BY <1>2 DEF Claiming, Claim, Dispatch, CallOk, CallErr, setVars, Currents
  <2>3. \A q \in Procs \ {p} : /\ Closes(q)' <=> Closes(q)
                               /\ loc'[q] = loc[q]
    BY <2>1 DEF OthersStay, Closes
  <2>4. CASE Claim(p) /\ Finishable(loc[p].job)
    <3>1. /\ loc[p].job \notin finishing /\ loc[p].job \notin Currents
          /\ finishing' = finishing \cup {loc[p].job}
          /\ loc'[p] = loc[p]
      BY <1>0, <2>4 DEF Claim, Finishable, To
    <3> QED
      BY <2>1, <2>2, <2>3, <3>1 DEF ClosingSound
  <2>5. CASE Claim(p) /\ ~Finishable(loc[p].job)
    <3>1. finishing' = finishing /\ pc'[p] \in Ends
      <4>1. Back(p) /\ finishing' = finishing /\ pc[p] \in FinishPCs
        BY <2>5 DEF Claim, FinishPCs
      <4> QED
        BY <4>1, Ending
    <3> QED
      BY <2>1, <2>2, <2>3, <3>1 DEF ClosingSound, Closes, Ends
  <2>6. CASE Dispatch(p)
    <3>1. Closes(p) /\ loc'[p] = loc[p] /\ finishing' = finishing
      BY <2>6, Path DEF Closes, Dispatch, markVars
    <3> QED
      BY <2>1, <2>2, <2>3, <3>1 DEF ClosingSound
  <2>7. CASE CallOk(p)
    <3>1. ~Closes(p)' /\ finishing' = finishing
      BY <2>7, Path DEF Closes, CallOk, markVars, Ends
    <3> QED
      BY <2>1, <2>2, <2>3, <3>1 DEF ClosingSound
  <2>8. CASE CallErr(p)
    <3>1. Closes(p) /\ ~Closes(p)' /\ finishing' = finishing \ {loc[p].job}
      BY <2>8, Path DEF Closes, CallErr, Ends
    <3> QED
      BY <2>1, <2>2, <2>3, <3>1 DEF ClosingSound
  <2> QED
    BY <1>2, <2>4, <2>5, <2>6, <2>7, <2>8 DEF Claiming
<1>3. CASE Stopping
  <2>1. \A q \in Procs : Closes(q)' => Closes(q) /\ loc'[q] = loc[q]
    <3>1. OthersStay(Stopper) /\ ~Closes(Stopper)'
      BY <1>3, ShutdownKeeps, BackgroundPath DEF Stopping, Closes
    <3> QED
      BY <3>1 DEF OthersStay, Closes
  <2>2. Currents' \subseteq Currents \cup (Runs \ Made)
    BY CurrentsGrow
  <2>3. CASE ShutdownBegin \/ ShutdownStop
    <3>1. finishing' = finishing /\ pc'[Stopper] \notin {"save", "last"}
      BY <2>3, BackgroundPath DEF ShutdownBegin, ShutdownStop, markVars
    <3> QED
      BY <1>0, <2>1, <2>2, <3>1 DEF ClosingSound
  <2>4. CASE ShutdownClaim
    <3>1. \E D : /\ finishing' = finishing \cup D
                 /\ loc'[Stopper].todo = D \ finishing
      <4>1. /\ [NoLoc(Stopper) EXCEPT !.plan = Currents, !.todo = draining \ finishing].todo
                 = draining \ finishing
            /\ [NoLoc(Stopper) EXCEPT !.todo = Unfinished \ finishing].todo = Unfinished \ finishing
        BY DEF NoLoc
      <4>2. \A s, l : To(Stopper, s, l) => loc'[Stopper] = l
        BY <1>0 DEF To
      <4> QED
        BY <2>4, <4>1, <4>2 DEF ShutdownClaim
    <3> QED
      BY <1>0, <2>1, <2>2, <3>1 DEF ClosingSound
  <2>5. CASE ShutdownSave \/ ShutdownLast
    <3>1. /\ finishing' = finishing /\ pc[Stopper] \in {"save", "last"}
      BY <2>5 DEF ShutdownSave, ShutdownLast, markVars
    <3>2. loc'[Stopper].todo \subseteq loc[Stopper].todo
      <4>1. /\ \A r : [loc[Stopper] EXCEPT !.plan = @ \ {r}].todo = loc[Stopper].todo
            /\ \A r : [loc[Stopper] EXCEPT !.todo = @ \ {r}].todo = loc[Stopper].todo \ {r}
            /\ NoLoc(Stopper).todo = {}
        BY <1>0 DEF Locals, NoLoc
      <4>2. \A s, l : To(Stopper, s, l) => loc'[Stopper] = l
        BY <1>0 DEF To
      <4>3. CASE ShutdownSave
        BY <4>1, <4>2, <4>3 DEF ShutdownSave
      <4>4. CASE ShutdownLast
        BY <4>1, <4>2, <4>4 DEF ShutdownLast
      <4> QED
        BY <2>5, <4>3, <4>4
    <3> QED
      BY <1>0, <2>1, <2>2, <3>1, <3>2 DEF ClosingSound
  <2> QED
    BY <1>3, <2>3, <2>4, <2>5 DEF Stopping
<1>4. CASE Restart
  <2>1. \A p \in Procs : pc'[p] = Home(p)
    BY <1>4 DEF Restart
  <2> QED
    BY <1>0, <2>1, ProcsDiffer DEF ClosingSound, Closes, Home
<1> QED
  BY <1>1, <1>2, <1>3, <1>4

LEMMA ClosingInvariant == Spec => []ClosingSound
<1>1. Init => ClosingSound
  BY ProcsDiffer DEF Init, ClosingSound, Closes, Home, Procs
<1>2. Base /\ ClosingSound /\ [Next]_vars => ClosingSound'
  BY ClosingStep
<1> QED
  BY <1>1, <1>2, BaseInvariant, PTL DEF Spec

\* No run has two FINISHes in flight, one of them the shutdown's or not
\* (runs.go:520-524).
THEOREM OneFinish == Spec => []FinishedOnce
<1>1. ClosingSound => FinishedOnce
  BY DEF ClosingSound, FinishedOnce, Closes
<1> QED
  BY <1>1, ClosingInvariant, PTL

-----------------------------------------------------------------------------
(* The draining list.                                                       *)

\* A part of a list within the cap is within it.
LEMMA FewerDrain ==
  ASSUME draining \subseteq Runs, Cardinality(draining) <= DrainCap,
         NEW S, S \subseteq draining
  PROVE  Cardinality(S) <= DrainCap
<1>1. IsFiniteSet(draining) /\ IsFiniteSet(S)
  BY RunAssumption, FS_Subset
<1>2. Cardinality(S) <= Cardinality(draining) /\ Cardinality(S) \in Nat /\ Cardinality(draining) \in Nat
  BY <1>1, FS_Subset, FS_CardinalityType
<1> QED
  BY <1>2, RunAssumption

\* A step that puts nothing on the list and takes no lease away.
LEMMA DrainQuiet ==
  ASSUME Base, DrainSound, [Next]_vars, draining' \subseteq draining,
         \A r \in Runs : inflight[r] > 0 => inflight'[r] > 0
  PROVE  DrainSound'
<1>1. Currents' \subseteq Currents \cup (Runs \ Made)
  BY CurrentsGrow
<1>2. draining \subseteq Made /\ draining \subseteq Runs
  BY DEF Base, TypeOK, MadeSound
<1>3. Cardinality(draining') <= DrainCap
  BY <1>2, FewerDrain DEF DrainSound
<1> QED
  BY <1>1, <1>2, <1>3 DEF DrainSound

\* A run is appended that is not current, or is no longer.
LEMMA DrainAppends ==
  ASSUME Base, DrainSound, NEW r \in Runs, AppendDraining(r), r \notin Currents',
         Currents' \subseteq Currents \cup (Runs \ Made),
         \A s \in Runs \ {r} : inflight'[s] = inflight[s]
  PROVE  DrainSound'
<1>1. draining \subseteq Made /\ draining \subseteq Runs /\ dropped \subseteq Runs
  BY DEF Base, TypeOK, MadeSound
<1>2. draining' \subseteq draining \cup {r}
  BY <1>1, AppendTypes
<1>3. Cardinality(draining') <= DrainCap
  BY DEF AppendDraining, DrainTo, DrainSound
<1> QED
  BY <1>1, <1>2, <1>3 DEF DrainSound

LEMMA DrainStep ==
  ASSUME Base, ClosingSound, DrainSound, [Next]_vars
  PROVE  DrainSound'
<1>0. /\ SharedOK /\ Made \subseteq Runs
      /\ Currents' \subseteq Currents \cup (Runs \ Made)
      /\ inflight \in [Runs -> Nat]
  BY BaseParts, CurrentsGrow DEF Made, SharedOK, SharedTypes
<1>1. CASE draining' \subseteq draining /\ inflight' = inflight
  BY <1>1, DrainQuiet
<1>2. ASSUME NEW p \in Procs, Lease(p)
      PROVE  DrainSound'
  <2>1. /\ draining' = draining
        /\ inflight' = inflight \/ \E r : inflight' = [inflight EXCEPT ![r] = @ + 1]
    BY <1>2 DEF Lease, Leased, setVars
  <2>2. \A r \in Runs : inflight[r] > 0 => inflight'[r] > 0
    BY <1>0, <2>1
  <2> QED
    BY <2>1, <2>2, DrainQuiet
\* The run a new one replaces is current no more: a run has one agent.
<1>3. ASSUME NEW p \in Procs, Adopt(p) \/ StartOk(p)
      PROVE  DrainSound'
  <2> DEFINE a == loc[p].agent
             old == current[a]
  <2>1. PICK r \in Runs : \E from : Install(p, r, from)
    BY <1>3 DEF Adopt, StartOk
  <2>2. a \in Agents /\ inflight' = inflight
    <3>1. pc[p] \in RotatePCs /\ Fits(Made, p, pc[p], loc[p])
      BY <1>3, Path DEF Base, AllFit, RotatePCs
    <3> QED
      BY <1>3, <3>1 DEF Fits, Adopt, StartOk, markVars
  <2>3. CASE old = NoRun
    BY <1>1, <2>1, <2>2, <2>3 DEF Install
  <2>4. CASE old # NoRun
    <3>1. AppendDraining(old) /\ r \notin Made /\ current' = [current EXCEPT ![a] = r]
      BY <2>1, <2>4 DEF Install, Unmade, Made
    <3>2. old \in Made /\ old \in Runs /\ \A b \in Agents : current[b] = old => b = a
      BY <1>0, <2>2, <2>4 DEF SharedOK, MadeSound
    <3>3. old \notin Currents'
      BY <1>0, <2>2, <3>1, <3>2 DEF SharedOK, SharedTypes, Currents
    <3> QED
      BY <1>0, <2>2, <3>1, <3>2, <3>3, DrainAppends
  <2> QED
    BY <2>3, <2>4
\* The last lease of a draining run takes it off the current ones.
<1>4. ASSUME NEW p \in Procs, Release(p)
      PROVE  DrainSound'
  <2>1. PICK r \in Runs : r = loc[p].run
    <3>1. pc[p] = "leased" /\ Fits(Made, p, pc[p], loc[p])
      BY <1>4 DEF Release, Base, AllFit
    <3> QED
      BY <3>1 DEF Fits, Made
  <2>2. /\ inflight' = [inflight EXCEPT ![r] = Left(r)] /\ draining' = draining
        /\ LastOfDraining(r) => Detach(r)
    BY <1>4, <2>1 DEF Release, ReleaseDetaches
  <2>3. inflight'[r] = Left(r) /\ Left(r) \in Nat /\ \A s \in Runs \ {r} : inflight'[s] = inflight[s]
    BY <1>0, <2>2, LeftTypes
  <2>4. CASE LastOfDraining(r)
    <3>1. r \notin Currents'
      BY <1>0, <2>2, <2>4, RunAssumption DEF Detach, Currents
    <3>2. draining \subseteq Made
      BY <1>0 DEF SharedOK, MadeSound
    <3> QED
      BY <1>0, <2>2, <2>3, <3>1, <3>2 DEF DrainSound
  <2>5. CASE ~LastOfDraining(r)
    <3>1. draining \subseteq Made /\ (r \in draining => Left(r) > 0)
      BY <1>0, <2>3, <2>5 DEF SharedOK, MadeSound, LastOfDraining
    <3> QED
      BY <1>0, <2>2, <2>3, <3>1 DEF DrainSound
  <2> QED
    BY <2>4, <2>5
<1>5. ASSUME NEW p \in Procs, ReleaseAbandoned(p)
      PROVE  DrainSound'
  <2>1. PICK r \in Runs : r = loc[p].run
    <3>1. pc[p] = "leased" /\ Fits(Made, p, pc[p], loc[p])
      BY <1>5 DEF ReleaseAbandoned, Base, AllFit
    <3> QED
      BY <3>1 DEF Fits, Made
  <2>2. /\ inflight' = [inflight EXCEPT ![r] = Left(r)]
        /\ IF Left(r) = 0 /\ r \in Currents THEN Detach(r) /\ AppendDraining(r)
           ELSE UNCHANGED setVars
    BY <1>5, <2>1 DEF ReleaseAbandoned
  <2>3. inflight'[r] = Left(r) /\ Left(r) \in Nat /\ \A s \in Runs \ {r} : inflight'[s] = inflight[s]
    BY <1>0, <2>2, LeftTypes
  <2>4. CASE Left(r) = 0 /\ r \in Currents
    <3>1. r \notin Currents'
      BY <1>0, <2>2, <2>4, RunAssumption DEF Detach, Currents
    <3> QED
      BY <1>0, <2>2, <2>3, <2>4, <3>1, DrainAppends
  <2>5. CASE ~(Left(r) = 0 /\ r \in Currents)
    <3>1. UNCHANGED <<current, draining>>
      BY <2>2, <2>5 DEF setVars
    <3>2. draining \subseteq Made /\ (r \in Currents => Left(r) > 0)
      BY <1>0, <2>3, <2>5 DEF SharedOK, MadeSound
    <3> QED
      BY <1>0, <2>3, <3>1, <3>2 DEF DrainSound, Currents
  <2> QED
    BY <2>4, <2>5
\* A run whose FINISH failed is not current.
<1>6. ASSUME NEW p \in Procs, CallErr(p)
      PROVE  DrainSound'
  <2>1. PICK r \in Runs : r = loc[p].job
    <3>1. pc[p] \in FinishPCs /\ Fits(Made, p, pc[p], loc[p])
      BY <1>6 DEF CallErr, Base, AllFit, FinishPCs
    <3> QED
      BY <3>1 DEF Fits, Made
  <2>2. r \notin Currents /\ AppendDraining(r) /\ UNCHANGED <<current, inflight>>
    BY <1>6, <2>1 DEF CallErr, CallRetries, ClosingSound, Closes
  <2>3. r \notin Currents' /\ Currents' \subseteq Currents
    BY <2>2 DEF Currents
  <2> QED
    BY <2>2, <2>3, DrainAppends
<1>7. CASE Maintain
  <2>1. DrainTo(draining, {}) /\ inflight' = inflight
    BY <1>7 DEF Maintain, markVars
  <2>2. draining' \subseteq draining
    BY <2>1 DEF DrainTo
  <2> QED
    BY <1>1, <2>1, <2>2
\* What FinishAllRuns leaves on the list is leased.
<1>8. CASE FinishAllRuns
  <2> DEFINE idle(S) == {r \in S : inflight[r] = 0}
             kept == draining \ idle(draining)
             busy == Currents \ idle(Currents)
  <2>1. DrainTo(kept, busy \ kept) /\ inflight' = inflight
    BY <1>8 DEF FinishAllRuns, markVars
  <2>2. \A r \in kept \cup (busy \ kept) : r \in Runs /\ inflight[r] > 0
    <3>1. draining \subseteq Runs /\ Currents \subseteq Runs
      BY <1>0 DEF SharedOK, SharedTypes, Currents
    <3>2. \A r \in Runs : inflight[r] # 0 => inflight[r] > 0
      BY <1>0
    <3> QED
      BY <3>1, <3>2
  <2> HIDE DEF kept, busy
  <2>3. draining' \subseteq kept \cup (busy \ kept) /\ Cardinality(draining') <= DrainCap
    BY <2>1 DEF DrainTo
  <2> QED
    BY <2>1, <2>2, <2>3 DEF DrainSound
<1>9. CASE Restart
  <2>1. draining' = {} /\ Cardinality({}) = 0
    BY <1>9, FS_EmptySet DEF Restart
  <2> QED
    BY <2>1, RunAssumption DEF DrainSound
\* The others put nothing there.
<1>10. ASSUME NEW p \in Procs,
              \/ Check(p) \/ Cancelled(p) \/ Invalidate(p)
              \/ RotateRefused(p) \/ RotateNotNeeded(p) \/ RotateWait(p) \/ RotateLead(p)
              \/ Lookup(p) \/ Purge(p) \/ Discard(p) \/ PersistNew(p)
              \/ AdoptRefused(p) \/ StartErr(p) \/ StartLate(p)
       PROVE  DrainSound'
  <2>1. draining' \subseteq draining /\ inflight' = inflight
    BY <1>10 DEF Check, Cancelled, Invalidate, RotateRefused, RotateNotNeeded, RotateWait,
                 RotateLead, Lookup, Purge, Discard, PersistNew, AdoptRefused, StartErr, StartLate,
                 setVars, markVars
  <2> QED
    BY <1>1, <2>1
<1>11. ASSUME NEW p \in Procs, Mark(p) \/ Send(p) \/ Claim(p) \/ Dispatch(p) \/ CallOk(p)
       PROVE  DrainSound'
  <2>1. draining' \subseteq draining /\ inflight' = inflight
    BY <1>11 DEF Mark, Send, Claim, Dispatch, CallOk, setVars, markVars
  <2> QED
    BY <1>1, <2>1
<1>12. ASSUME NEW p \in Procs, Step(p) \/ Cancelled(p)
       PROVE  DrainSound'
  BY <1>2, <1>3, <1>4, <1>5, <1>6, <1>10, <1>11, <1>12 DEF Step
<1>13. CASE \/ \E c \in Callers, a \in Agents : Acquire(c, a)
            \/ \E p \in Callers \cup {Maint}, a \in Agents : Precreate(p, a)
            \/ UNCHANGED vars
            \/ ToggleCooling \/ \E r \in Runs : GrowOld(r) \/ Gone(r)
  <2>1. draining' \subseteq draining /\ inflight' = inflight
    BY <1>13 DEF Acquire, Precreate, vars, ToggleCooling, GrowOld, Gone, setVars, markVars
  <2> QED
    BY <1>1, <2>1
<1>14. CASE Background \/ ShutdownBegin
  <2>1. draining' \subseteq draining /\ inflight' = inflight
    <3>1. CASE WorkerTake \/ WorkerExit \/ MaintainTurn \/ FinishEach \/ ShutdownBegin
      BY <3>1 DEF WorkerTake, WorkerExit, MaintainTurn, FinishEach, ShutdownBegin, setVars, markVars
    <3>2. CASE ShutdownStop \/ ShutdownClaim \/ ShutdownSave \/ ShutdownLast
      BY <3>2 DEF ShutdownStop, ShutdownClaim, ShutdownSave, ShutdownLast, setVars, markVars
    <3> QED
      BY <1>14, <3>1, <3>2 DEF Background
  <2> QED
    BY <1>1, <2>1
<1> QED
  BY <1>7, <1>8, <1>9, <1>12, <1>13, <1>14 DEF Next, Env

\* The list stays within its cap, and no idle run that is current is on it:
\* its FINISH would never come (runs.go:331-336).
THEOREM DrainListSound == Spec => []DrainSound
<1>1. Init => DrainSound
  BY FS_EmptySet, RunAssumption DEF Init, DrainSound
<1>2. Base /\ ClosingSound /\ DrainSound /\ [Next]_vars => DrainSound'
  BY DrainStep
<1> QED
  BY <1>1, <1>2, BaseInvariant, ClosingInvariant, PTL DEF Spec

-----------------------------------------------------------------------------
(* No orphan.                                                               *)

\* Upstream still runs what the object stands for.
Alive(r) == up[origin[r]] = "running"

\* The runs the manager has, or has let go on purpose.
Kept == Currents \cup draining \cup dropped

\* Objects are made by a START or an adoption; every other step leaves upstream
\* alone, or ends a run there.
LEMMA OnlyStartsMake ==
  ASSUME Base, [Next]_vars, \A p \in Procs : ~Adopt(p) /\ ~StartOk(p) /\ ~StartLate(p)
  PROVE  UNCHANGED bornVars /\ (up' = up \/ \E x : up' = [up EXCEPT ![x] = "ended"])
<1>1. ASSUME NEW p \in Procs, Step(p) \/ Cancelled(p)
      PROVE  UNCHANGED bornVars /\ (up' = up \/ \E x : up' = [up EXCEPT ![x] = "ended"])
  <2>1. CASE Check(p) \/ Cancelled(p) \/ Lease(p)
             \/ Mark(p) \/ Send(p) \/ Claim(p) \/ Dispatch(p) \/ CallOk(p) \/ CallErr(p)
    BY <2>1 DEF Check, Cancelled, Lease, Mark, Send, Claim, Dispatch, CallOk, CallErr
  <2>2. CASE \/ RotateRefused(p) \/ RotateNotNeeded(p) \/ RotateWait(p) \/ RotateLead(p)
             \/ Lookup(p) \/ Purge(p) \/ Discard(p) \/ PersistNew(p)
             \/ AdoptRefused(p) \/ StartErr(p)
    BY <2>2 DEF RotateRefused, RotateNotNeeded, RotateWait, RotateLead, Lookup, Purge, Discard,
                PersistNew, AdoptRefused, StartErr
  <2>3. CASE Release(p) \/ ReleaseAbandoned(p) \/ Invalidate(p)
    BY <2>3 DEF Release, ReleaseAbandoned, Invalidate
  <2> QED
    BY <1>1, <2>1, <2>2, <2>3 DEF Step
<1>2. CASE \/ \E c \in Callers, a \in Agents : Acquire(c, a)
           \/ \E p \in Callers \cup {Maint}, a \in Agents : Precreate(p, a)
           \/ Env \/ UNCHANGED vars
  BY <1>2 DEF Acquire, Precreate, vars, Env, Restart, ToggleCooling, GrowOld, Gone, bornVars
<1>3. CASE Background \/ Maintain \/ FinishAllRuns \/ ShutdownBegin
  <2>1. CASE WorkerTake \/ WorkerExit \/ MaintainTurn \/ FinishEach \/ ShutdownBegin \/ Maintain
             \/ FinishAllRuns
    BY <2>1 DEF WorkerTake, WorkerExit, MaintainTurn, FinishEach, ShutdownBegin, Maintain,
                FinishAllRuns
  <2>2. CASE ShutdownStop \/ ShutdownClaim \/ ShutdownSave \/ ShutdownLast
    BY <2>2 DEF ShutdownStop, ShutdownClaim, ShutdownSave, ShutdownLast
  <2> QED
    BY <1>3, <2>1, <2>2 DEF Background
<1> QED
  BY <1>1, <1>2, <1>3 DEF Next

\* What happens to upstream's view of the runs that were made before.
LEMMA AliveStays ==
  ASSUME Base, [Next]_vars, NEW r \in Made
  PROVE  /\ origin'[r] = origin[r] /\ agentOf'[r] = agentOf[r] /\ r \in Made'
         /\ Alive(r)' => Alive(r)
<1>0. SharedOK /\ Made \subseteq Runs /\ origin[r] \in Made /\ r # NoRun
  BY BaseParts, RunAssumption DEF Made, SharedOK, MadeSound
<1>1. CASE UNCHANGED bornVars /\ up' = up
  BY <1>0, <1>1 DEF bornVars, Alive, Made
<1>2. ASSUME UNCHANGED bornVars, NEW x, up' = [up EXCEPT ![x] = "ended"]
      PROVE  /\ origin'[r] = origin[r] /\ agentOf'[r] = agentOf[r] /\ r \in Made'
             /\ Alive(r)' => Alive(r)
  BY <1>0, <1>2 DEF bornVars, Alive, Made, SharedOK, SharedTypes
<1>3. ASSUME NEW p \in Procs, Adopt(p) \/ StartOk(p) \/ StartLate(p)
      PROVE  /\ origin'[r] = origin[r] /\ agentOf'[r] = agentOf[r] /\ r \in Made'
             /\ Alive(r)' => Alive(r)
  <2>1. PICK s \in Runs :
          /\ s \in Unmade
          /\ \E from : origin' = [origin EXCEPT ![s] = from]
          /\ \E a : agentOf' = [agentOf EXCEPT ![s] = a]
          /\ up' = up \/ up' = [up EXCEPT ![s] = "running"]
    BY <1>3 DEF Adopt, StartOk, StartLate, Install, Unmade
  <2>2. s \notin Made
    BY <2>1 DEF Unmade, Made
  <2>3. origin'[r] = origin[r] /\ agentOf'[r] = agentOf[r] /\ up'[origin[r]] = up[origin[r]]
    BY <1>0, <2>1, <2>2 DEF SharedOK, SharedTypes
  <2> QED
    BY <1>0, <2>3 DEF Made, Alive
<1> QED
  BY <1>1, <1>2, <1>3, OnlyStartsMake

\* A run that is made is current, or about to be discarded.
LEMMA NewRuns ==
  ASSUME Base, [Next]_vars, NEW r \in Made' \ Made
  PROVE  \/ r \in Currents'
         \/ \E p \in Procs : pc'[p] = "discard" /\ loc'[p].run = r
<1>0. SharedOK /\ r \in Runs /\ r \in Unmade /\ r # NoRun
  BY BaseParts, RunAssumption DEF Made, Unmade
<1>1. ASSUME NEW p \in Procs, Adopt(p) \/ StartOk(p)
      PROVE  r \in Currents'
  <2>1. PICK s \in Runs : \E from : Install(p, s, from)
    BY <1>1 DEF Adopt, StartOk
  <2>2. r = s
    BY <1>0, <2>1 DEF Install, SharedOK, SharedTypes, Made, Unmade
  <2>3. loc[p].agent \in Agents
    <3>1. pc[p] \in RotatePCs /\ Fits(Made, p, pc[p], loc[p])
      BY <1>1, Path DEF Base, AllFit, RotatePCs
    <3> QED
      BY <3>1 DEF Fits
  <2>4. current'[loc[p].agent] = r
    BY <1>0, <2>1, <2>2, <2>3 DEF Install, SharedOK, SharedTypes
  <2> QED
    BY <1>0, <2>3, <2>4 DEF Currents
<1>2. ASSUME NEW p \in Procs, StartLate(p)
      PROVE  pc'[p] = "discard" /\ loc'[p].run = r
  <2>1. PICK s \in Unmade :
          /\ origin' = [origin EXCEPT ![s] = s]
          /\ Land(p, "discard", [loc[p] EXCEPT !.run = s], "ok")
    BY <1>2 DEF StartLate
  <2>2. r = s
    BY <1>0, <2>1 DEF SharedOK, SharedTypes, Made, Unmade
  <2>3. loc[p] \in Locals
    BY DEF Base, TypeOK
  <2> QED
    BY <2>1, <2>2, <2>3 DEF Land, Waits, Locals
<1>3. ASSUME UNCHANGED bornVars
      PROVE  FALSE
  BY <1>0, <1>3 DEF bornVars, Made, Unmade
<1> QED
  BY <1>1, <1>2, <1>3, OnlyStartsMake

\* The manager loses a run only to a FINISH that succeeded, or to FinishAllRuns,
\* which is going to send one.
LEMMA KeptStays ==
  ASSUME Base, [Next]_vars, ~Stopping, NEW r \in Made, r \in Kept
  PROVE  \/ r \in Kept' \/ ~Alive(r)'
         \/ FinishAllRuns /\ inflight[r] = 0 /\ r \in loc'[Drainer].todo
<1>0. /\ SharedOK /\ Made \subseteq Runs /\ r \in Runs /\ r # NoRun
      /\ draining \subseteq Runs /\ dropped \subseteq Runs
  BY BaseParts, RunAssumption DEF Made, SharedOK, SharedTypes
<1>1. ASSUME UNCHANGED <<current, draining>>, dropped \subseteq dropped'
      PROVE  r \in Kept'
  BY <1>1 DEF Kept, Currents
\* What stops being current is put on the list, or let go.
<1>2. ASSUME NEW x \in Runs, AppendDraining(x),
             \A a \in Agents : current'[a] = current[a] \/ current[a] \in {x, NoRun}
      PROVE  r \in Kept'
  <2>1. draining \cup {x} \subseteq draining' \cup dropped' /\ dropped \subseteq dropped'
    BY <1>0, <1>2, AppendTypes
  <2> QED
    BY <1>0, <1>2, <2>1 DEF Kept, Currents
<1>3. ASSUME NEW p \in Procs, Adopt(p) \/ StartOk(p)
      PROVE  r \in Kept'
  <2> DEFINE a == loc[p].agent
             old == current[a]
  <2>1. PICK s \in Runs : \E from : Install(p, s, from)
    BY <1>3 DEF Adopt, StartOk
  <2>2. a \in Agents
    <3>1. pc[p] \in RotatePCs /\ Fits(Made, p, pc[p], loc[p])
      BY <1>3, Path DEF Base, AllFit, RotatePCs
    <3> QED
      BY <3>1 DEF Fits
  <2>3. \A b \in Agents : current'[b] = current[b] \/ current[b] = old
    BY <1>0, <2>1, <2>2 DEF Install, SharedOK, SharedTypes
  <2>4. CASE old = NoRun
    <3>1. UNCHANGED <<draining, dropped>>
      BY <2>1, <2>4 DEF Install
    <3> QED
      BY <1>0, <2>3, <2>4, <3>1 DEF Kept, Currents
  <2>5. CASE old # NoRun
    <3>1. AppendDraining(old) /\ old \in Runs
      BY <1>0, <2>1, <2>2, <2>5 DEF Install, SharedOK, SharedTypes
    <3> HIDE DEF old
    <3> QED
      BY <1>2, <2>3, <3>1
  <2> QED
    BY <2>4, <2>5
<1>4. ASSUME NEW p \in Procs, Release(p) \/ ReleaseAbandoned(p)
      PROVE  r \in Kept'
  <2>1. PICK x \in Runs : x = loc[p].run
    <3>1. pc[p] = "leased" /\ Fits(Made, p, pc[p], loc[p])
      BY <1>4 DEF Release, ReleaseAbandoned, Base, AllFit
    <3> QED
      BY <3>1 DEF Fits, Made
  <2>2. CASE Release(p)
    <3>1. UNCHANGED <<draining, dropped>>
      BY <2>2 DEF Release
    <3>2. (Detach(x) /\ x \in draining) \/ UNCHANGED current
      BY <2>1, <2>2 DEF Release, ReleaseDetaches, LastOfDraining
    <3> QED
      BY <3>1, <3>2 DEF Detach, Kept, Currents
  <2>3. CASE ReleaseAbandoned(p)
    <3>1. (Detach(x) /\ AppendDraining(x)) \/ UNCHANGED setVars
      BY <2>1, <2>3 DEF ReleaseAbandoned
    <3>2. CASE Detach(x) /\ AppendDraining(x)
      <4>1. \A a \in Agents : current'[a] = current[a] \/ current[a] \in {x, NoRun}
        BY <3>2 DEF Detach
      <4> QED
        BY <1>2, <3>2, <4>1
    <3> QED
      BY <1>1, <3>1, <3>2 DEF setVars, Kept, Currents
  <2> QED
    BY <1>4, <2>2, <2>3
<1>5. ASSUME NEW p \in Procs, Invalidate(p)
      PROVE  r \in Kept'
  <2> DEFINE a == loc[p].agent
  <2>1. /\ dropped' = dropped \cup ({current[a]} \ {NoRun}) /\ draining' = draining
        /\ current' = [current EXCEPT ![a] = NoRun]
    BY <1>5 DEF Invalidate
  <2>2. \A b \in Agents : current'[b] = current[b] \/ b = a
    BY <1>0, <2>1 DEF SharedOK, SharedTypes
  <2> QED
    BY <1>0, <2>1, <2>2 DEF Kept, Currents
<1>6. ASSUME NEW p \in Procs, CallOk(p)
      PROVE  r \in Kept' \/ ~Alive(r)'
  <2>1. /\ UNCHANGED <<current, dropped, origin>> /\ draining' = draining \ {loc[p].job}
        /\ up' = [up EXCEPT ![origin[loc[p].job]] = "ended"]
    BY <1>6 DEF CallOk, bornVars
  <2>2. CASE r = loc[p].job
    <3>1. origin[r] \in Runs
      BY <1>0 DEF SharedOK, MadeSound
    <3>2. up'[origin[r]] = "ended"
      BY <1>0, <2>1, <2>2, <3>1 DEF SharedOK, SharedTypes
    <3> QED
      BY <2>1, <3>2 DEF Alive
  <2>3. CASE r # loc[p].job
    BY <2>1, <2>3 DEF Kept, Currents
  <2> QED
    BY <2>2, <2>3
<1>7. ASSUME NEW p \in Procs, CallErr(p)
      PROVE  r \in Kept'
  <2>1. AppendDraining(loc[p].job) /\ current' = current
    BY <1>7 DEF CallErr, CallRetries
  <2>2. loc[p].job \in Runs
    <3>1. pc[p] \in FinishPCs /\ Fits(Made, p, pc[p], loc[p])
      BY <1>7 DEF CallErr, Base, AllFit, FinishPCs
    <3> QED
      BY <3>1 DEF Fits, Made
  <2> QED
    BY <1>2, <2>1, <2>2
<1>8. CASE Maintain
  <2>1. DrainTo(draining, {}) /\ current' = current /\ {} \subseteq Runs
    BY <1>8 DEF Maintain
  <2>2. draining \cup {} \subseteq draining' \cup dropped' /\ dropped \subseteq dropped'
    BY <1>0, <2>1, DrainToTypes
  <2> QED
    BY <2>1, <2>2 DEF Kept, Currents
<1>9. CASE FinishAllRuns
  <2> DEFINE idle(S) == {x \in S : inflight[x] = 0}
             kept == draining \ idle(draining)
             busy == Currents \ idle(Currents)
             all == idle(Currents) \cup idle(draining)
  <2>1. /\ DrainTo(kept, busy \ kept)
        /\ To(Drainer, "each", [NoLoc(Drainer) EXCEPT !.todo = all])
    BY <1>9 DEF FinishAllRuns
  <2>2. loc'[Drainer].todo = all
    <3>1. Drainer \in Procs /\ loc \in [Procs -> Locals]
      BY DEF Base, TypeOK, Procs
    <3>2. [NoLoc(Drainer) EXCEPT !.todo = all].todo = all
      BY DEF NoLoc
    <3> QED
      BY <2>1, <3>1, <3>2 DEF To
  <2>3. kept \subseteq Runs /\ busy \ kept \subseteq Runs
    BY <1>0 DEF SharedOK, SharedTypes, Currents
  <2>4. kept \cup (busy \ kept) \subseteq draining' \cup dropped' /\ dropped \subseteq dropped'
    <3> HIDE DEF kept, busy
    <3> QED
      BY <1>0, <2>1, <2>3, DrainToTypes
  <2>5. CASE inflight[r] = 0 /\ r \in Currents \cup draining
    BY <1>9, <2>2, <2>5
  <2>6. CASE inflight[r] # 0 /\ r \in Currents \cup draining
    BY <2>4, <2>6 DEF Kept
  <2>7. CASE r \in dropped
    BY <2>4, <2>7 DEF Kept
  <2> QED
    BY <2>5, <2>6, <2>7 DEF Kept
<1>10. CASE Restart
  BY <1>10, <1>0 DEF Restart, Kept, Unmade, Made
<1>11. ASSUME NEW p \in Procs, Step(p) \/ Cancelled(p)
       PROVE  r \in Kept' \/ ~Alive(r)'
  <2>1. CASE Check(p) \/ Cancelled(p) \/ Lease(p) \/ Mark(p) \/ Send(p) \/ Claim(p) \/ Dispatch(p)
    BY <1>1, <2>1 DEF Check, Cancelled, Lease, Mark, Send, Claim, Dispatch, setVars
  <2>2. CASE \/ RotateRefused(p) \/ RotateNotNeeded(p) \/ RotateWait(p) \/ RotateLead(p)
             \/ Lookup(p) \/ Purge(p) \/ Discard(p) \/ PersistNew(p)
             \/ AdoptRefused(p) \/ StartErr(p) \/ StartLate(p)
    BY <1>1, <2>2 DEF RotateRefused, RotateNotNeeded, RotateWait, RotateLead, Lookup, Purge, Discard,
                      PersistNew, AdoptRefused, StartErr, StartLate, setVars
  <2> QED
    BY <1>3, <1>4, <1>5, <1>6, <1>7, <1>11, <2>1, <2>2 DEF Step
<1>12. CASE \/ \E c \in Callers, a \in Agents : Acquire(c, a)
            \/ \E p \in Callers \cup {Maint}, a \in Agents : Precreate(p, a)
            \/ UNCHANGED vars
            \/ ToggleCooling \/ \E x \in Runs : GrowOld(x) \/ Gone(x)
  BY <1>1, <1>12 DEF Acquire, Precreate, vars, ToggleCooling, GrowOld, Gone, setVars
<1>13. CASE WorkerTake \/ WorkerExit \/ MaintainTurn \/ FinishEach
  BY <1>1, <1>13 DEF WorkerTake, WorkerExit, MaintainTurn, FinishEach, setVars
<1> QED
  BY <1>8, <1>9, <1>10, <1>11, <1>12, <1>13 DEF Next, Env, Background, Stopping

\* A lease is taken on a current run.
LEMMA LeasesGrow ==
  ASSUME Base, [Next]_vars, NEW r \in Runs, inflight'[r] > 0
  PROVE  inflight[r] > 0 \/ (r \in Currents' /\ r \in Made)
<1>0. SharedOK /\ inflight \in [Runs -> Nat]
  BY BaseParts DEF SharedOK, SharedTypes
<1>1. ASSUME NEW p \in Procs, Lease(p)
      PROVE  inflight[r] > 0 \/ (r \in Currents' /\ r \in Made)
  <2>1. loc[p].agent \in Agents
    <3>1. pc[p] = "lease" /\ Fits(Made, p, pc[p], loc[p])
      BY <1>1 DEF Lease, Base, AllFit
    <3> QED
      BY <3>1 DEF Fits
  <2>2. /\ UNCHANGED current
        /\ \/ inflight' = inflight
           \/ /\ current[loc[p].agent] # NoRun
              /\ inflight' = [inflight EXCEPT ![current[loc[p].agent]] = @ + 1]
    <3>1. CASE current[loc[p].agent] = NoRun
      BY <1>1, <3>1 DEF Lease, setVars
    <3>2. CASE current[loc[p].agent] # NoRun
      BY <1>1, <3>2 DEF Lease, Leased, setVars
    <3> QED
      BY <3>1, <3>2
  <2>3. CASE r = current[loc[p].agent] /\ r # NoRun
    BY <1>0, <2>1, <2>2, <2>3 DEF Currents, SharedOK, MadeSound
  <2> QED
    BY <1>0, <2>2, <2>3
<1>2. ASSUME NEW p \in Procs, Release(p) \/ ReleaseAbandoned(p)
      PROVE  inflight[r] > 0
  <2>1. PICK x \in Runs : x = loc[p].run
    <3>1. pc[p] = "leased" /\ Fits(Made, p, pc[p], loc[p])
      BY <1>2 DEF Release, ReleaseAbandoned, Base, AllFit
    <3> QED
      BY <3>1 DEF Fits, Made
  <2>2. inflight' = [inflight EXCEPT ![x] = Left(x)]
    BY <1>2, <2>1 DEF Release, ReleaseAbandoned
  <2>3. inflight'[x] = Left(x) /\ Left(x) <= inflight[x] /\ \A s \in Runs \ {x} : inflight'[s] = inflight[s]
    BY <1>0, <2>2, LeftTypes
  <2> QED
    BY <1>0, <2>3 DEF Left
<1>3. CASE Restart
  BY <1>3 DEF Restart
<1>4. ASSUME NEW p \in Procs, Step(p) \/ Cancelled(p), ~Lease(p), ~Release(p), ~ReleaseAbandoned(p)
      PROVE  inflight' = inflight
  <2>1. CASE \/ Check(p) \/ Cancelled(p) \/ Invalidate(p)
             \/ Mark(p) \/ Send(p) \/ Claim(p) \/ Dispatch(p) \/ CallOk(p) \/ CallErr(p)
    BY <2>1 DEF Check, Cancelled, Invalidate, Mark, Send, Claim, Dispatch, CallOk, CallErr, markVars
  <2>2. CASE \/ RotateRefused(p) \/ RotateNotNeeded(p) \/ RotateWait(p) \/ RotateLead(p)
             \/ Lookup(p) \/ Purge(p) \/ Discard(p) \/ PersistNew(p)
             \/ AdoptRefused(p) \/ Adopt(p) \/ StartErr(p) \/ StartOk(p) \/ StartLate(p)
    BY <2>2 DEF RotateRefused, RotateNotNeeded, RotateWait, RotateLead, Lookup, Purge, Discard,
                PersistNew, AdoptRefused, Adopt, StartErr, StartOk, StartLate, markVars
  <2> QED
    BY <1>4, <2>1, <2>2 DEF Step
<1>5. CASE \/ \E c \in Callers, a \in Agents : Acquire(c, a)
           \/ \E p \in Callers \cup {Maint}, a \in Agents : Precreate(p, a)
           \/ UNCHANGED vars
           \/ ToggleCooling \/ \E x \in Runs : GrowOld(x) \/ Gone(x)
           \/ WorkerTake \/ WorkerExit \/ MaintainTurn \/ FinishEach \/ FinishAllRuns \/ Maintain
  BY <1>5 DEF Acquire, Precreate, vars, ToggleCooling, GrowOld, Gone, WorkerTake, WorkerExit,
              MaintainTurn, FinishEach, FinishAllRuns, Maintain, markVars
<1>6. CASE Stopping
  BY <1>6 DEF Stopping, ShutdownBegin, ShutdownStop, ShutdownClaim, ShutdownSave, ShutdownLast, markVars
<1>7. ASSUME NEW p \in Procs, Step(p) \/ Cancelled(p)
      PROVE  inflight[r] > 0 \/ (r \in Currents' /\ r \in Made)
  BY <1>1, <1>2, <1>4, <1>7
<1> QED
  BY <1>3, <1>5, <1>6, <1>7 DEF Next, Env, Background, Stopping

\* Until a shutdown begins the manager still has every run that is leased, or
\* upstream has ended it; and only runs are leased.
LeasedKnown ==
  \A r \in Runs : inflight[r] > 0 =>
    /\ r \in Made
    /\ pc[Stopper] = "rest" => r \in Kept \/ ~Alive(r)

\* Before the shutdown: it has not begun, or the process has just started.
LEMMA BeforeShutdown ==
  ASSUME Base, [Next]_vars, pc'[Stopper] = "rest"
  PROVE  Restart \/ (~Stopping /\ pc[Stopper] = "rest")
BY BackgroundPath, StopperStays DEF Stopping

LEMMA LeasedKnownStep ==
  ASSUME Base, LeasedKnown, [Next]_vars
  PROVE  LeasedKnown'
<1>1. ASSUME NEW r \in Runs, inflight'[r] > 0
      PROVE  /\ r \in Made'
             /\ pc'[Stopper] = "rest" => r \in Kept' \/ ~Alive(r)'
  <2>1. r \in Made
    BY <1>1, LeasesGrow DEF LeasedKnown
  <2>2. r \in Made' /\ (Alive(r)' => Alive(r))
    BY <2>1, AliveStays
  <2>3. ASSUME pc'[Stopper] = "rest"
        PROVE  r \in Kept' \/ ~Alive(r)'
    <3>1. ~Restart
      BY <1>1 DEF Restart
    <3>2. ~Stopping /\ pc[Stopper] = "rest"
      BY <2>3, <3>1, BeforeShutdown
    <3>3. CASE r \in Currents'
      BY <3>3 DEF Kept
    <3>4. CASE inflight[r] > 0 /\ r \in Kept
      BY <2>1, <3>2, <3>4, KeptStays
    <3>5. CASE inflight[r] > 0 /\ ~Alive(r)
      BY <2>2, <3>5
    <3> QED
      BY <1>1, <3>2, <3>3, <3>4, <3>5, LeasesGrow DEF LeasedKnown
  <2> QED
    BY <2>2, <2>3
<1> QED
  BY <1>1 DEF LeasedKnown

\* A process with a FINISH on its hands moves by its own steps only.
LEMMA OwnSteps ==
  ASSUME Base, [Next]_vars, ~Restart, NEW q \in Procs,
         pc[q] \in FinishPCs \cup {"persist", "discard"}, ~Step(q)
  PROVE  pc'[q] = pc[q] /\ loc'[q] = loc[q]
<1>0. /\ pc[q] \notin {"check", "rotate", "await", "idle", "work", "exited", "rest", "turn", "each",
                       "flagged", "waiting", "save", "last"}
      /\ pc[q] # Home(q)
  BY DEF FinishPCs, Home
<1>1. ASSUME NEW p \in Procs, Step(p) \/ Cancelled(p)
      PROVE  pc'[q] = pc[q] /\ loc'[q] = loc[q]
  <2>1. p # q
    BY <1>0, <1>1, Path
  <2> QED
    BY <1>0, <1>1, <2>1, StepMoves DEF OthersWait, Woken
<1>2. ASSUME NEW p \in Callers \cup {Maint}, NEW a \in Agents,
             Precreate(p, a) \/ (p \in Callers /\ Acquire(p, a))
      PROVE  pc'[q] = pc[q] /\ loc'[q] = loc[q]
  <2>1. OthersStay(p) /\ p \in Procs
    BY <1>2, EntryKeeps DEF Procs
  <2>2. p # q
    BY <1>0, <1>2, <2>1, Path
  <2> QED
    BY <2>1, <2>2 DEF OthersStay
<1>3. CASE Background \/ Maintain \/ FinishAllRuns \/ ShutdownBegin
  <2>1. PICK p \in Procs : OthersStay(p) /\ pc[p] \in {"work", "rest", "turn", "each", "flagged",
                                                      "waiting", "save", "last"}
    BY <1>3, LoopsKeep, ShutdownKeeps, BackgroundPath DEF Background, Procs
  <2> QED
    BY <1>0, <2>1 DEF OthersStay
<1>4. CASE (\E r \in Runs : GrowOld(r) \/ Gone(r)) \/ ToggleCooling \/ UNCHANGED vars
  BY <1>4, OutsideKeeps
<1> QED
  BY <1>1, <1>2, <1>3, <1>4 DEF Next, Env

\* The queue changes at its ends.
LEMMA JobsStay ==
  ASSUME Base, [Next]_vars, ~Restart
  PROVE  \/ jobs' = jobs /\ ~WorkerTake
         \/ WorkerTake
         \/ \E p \in Procs : Send(p)
<1>1. ASSUME NEW p \in Procs, Step(p) \/ Cancelled(p), ~Send(p)
      PROVE  jobs' = jobs
  <2>1. CASE \/ Check(p) \/ Cancelled(p) \/ Lease(p) \/ Release(p) \/ ReleaseAbandoned(p)
             \/ Invalidate(p) \/ Mark(p) \/ Claim(p) \/ Dispatch(p) \/ CallOk(p) \/ CallErr(p)
    BY <2>1 DEF Check, Cancelled, Lease, Release, ReleaseAbandoned, Invalidate, Mark, Claim, Dispatch,
                CallOk, CallErr
  <2>2. CASE \/ RotateRefused(p) \/ RotateNotNeeded(p) \/ RotateWait(p) \/ RotateLead(p)
             \/ Lookup(p) \/ Purge(p) \/ Discard(p) \/ PersistNew(p)
             \/ AdoptRefused(p) \/ Adopt(p) \/ StartErr(p) \/ StartOk(p) \/ StartLate(p)
    BY <2>2 DEF RotateRefused, RotateNotNeeded, RotateWait, RotateLead, Lookup, Purge, Discard,
                PersistNew, AdoptRefused, Adopt, StartErr, StartOk, StartLate
  <2> QED
    BY <1>1, <2>1, <2>2 DEF Step
<1>2. CASE \/ \E c \in Callers, a \in Agents : Acquire(c, a)
           \/ \E p \in Callers \cup {Maint}, a \in Agents : Precreate(p, a)
           \/ UNCHANGED vars
           \/ ToggleCooling \/ \E x \in Runs : GrowOld(x) \/ Gone(x)
           \/ WorkerExit \/ MaintainTurn \/ FinishEach \/ FinishAllRuns \/ Maintain
  BY <1>2 DEF Acquire, Precreate, vars, ToggleCooling, GrowOld, Gone, WorkerExit,
              MaintainTurn, FinishEach, FinishAllRuns, Maintain
<1>3. CASE Stopping
  BY <1>3 DEF Stopping, ShutdownBegin, ShutdownStop, ShutdownClaim, ShutdownSave, ShutdownLast
<1> QED
  BY <1>1, <1>2, <1>3 DEF Next, Env, Background, Stopping

\* The worker takes the head of the queue.
LEMMA TakesHead ==
  ASSUME Base, WorkerTake
  PROVE  /\ OthersStay(Worker) /\ pc'[Worker] = "finish" /\ pc[Worker] = "work"
         /\ Jobs = Jobs' \cup {loc'[Worker].job}
<1>1. /\ jobs' = Tail(jobs) /\ jobs # <<>> /\ jobs \in Seq(Runs)
      /\ To(Worker, "finish", [NoLoc(Worker) EXCEPT !.job = Head(jobs)])
  BY DEF WorkerTake, Base, TypeOK
<1>2. Worker \in Procs /\ pc \in [Procs -> PCs] /\ loc \in [Procs -> Locals]
  BY DEF Base, TypeOK, Procs
<1>3. pc'[Worker] = "finish" /\ loc'[Worker].job = Head(jobs)
  BY <1>1, <1>2 DEF To, NoLoc
<1>4. OthersStay(Worker) /\ pc[Worker] = "work"
  BY <1>2, LoopsKeep DEF WorkerTake
<1>5. Jobs = Jobs' \cup {Head(jobs)}
  <2>1. /\ DOMAIN jobs = 1 .. Len(jobs) /\ DOMAIN jobs' = 1 .. (Len(jobs) - 1) /\ Len(jobs) \in Nat
        /\ Len(jobs) >= 1
        /\ jobs[1] = Head(jobs) /\ \A i \in 1 .. (Len(jobs) - 1) : jobs'[i] = jobs[i + 1]
    BY <1>1
  <2>2. ASSUME NEW i \in DOMAIN jobs
        PROVE  jobs[i] \in Jobs' \cup {Head(jobs)}
    <3>1. CASE i = 1
      BY <2>1, <3>1
    <3>2. CASE i # 1
      <4>1. i - 1 \in 1 .. (Len(jobs) - 1) /\ jobs'[i - 1] = jobs[(i - 1) + 1] /\ (i - 1) + 1 = i
        BY <2>1, <2>2, <3>2
      <4> QED
        BY <2>1, <4>1 DEF Jobs
    <3> QED
      BY <3>1, <3>2
  <2>3. ASSUME NEW i \in DOMAIN jobs'
        PROVE  jobs'[i] \in Jobs
    <3>1. i + 1 \in DOMAIN jobs /\ jobs'[i] = jobs[i + 1]
      BY <2>1, <2>3
    <3> QED
      BY <3>1 DEF Jobs
  <2>4. Head(jobs) \in Jobs
    <3>1. 1 \in DOMAIN jobs
      BY <2>1
    <3> QED
      BY <2>1, <3>1 DEF Jobs
  <2> QED
    BY <2>2, <2>3, <2>4 DEF Jobs
<1> QED
  BY <1>3, <1>4, <1>5

LEMMA SendAppends ==
  ASSUME Base, NEW p \in Procs, Send(p)
  PROVE  /\ Jobs \subseteq Jobs'
         /\ loc[p].job \in Jobs' \/ (pc'[p] = "finish" /\ loc'[p] = loc[p])
<1>1. jobs \in Seq(Runs) /\ pc \in [Procs -> PCs] /\ loc \in [Procs -> Locals]
  BY DEF Base, TypeOK
<1>2. CASE jobs' = Append(jobs, loc[p].job)
  <2>1. /\ DOMAIN jobs = 1 .. Len(jobs) /\ DOMAIN jobs' = 1 .. (Len(jobs) + 1) /\ Len(jobs) \in Nat
        /\ \A i \in 1 .. Len(jobs) : jobs'[i] = jobs[i]
        /\ jobs'[Len(jobs) + 1] = loc[p].job
    BY <1>1, <1>2
  <2>2. Len(jobs) + 1 \in DOMAIN jobs' /\ DOMAIN jobs \subseteq DOMAIN jobs'
    BY <2>1
  <2> QED
    BY <2>1, <2>2 DEF Jobs
<1>3. CASE UNCHANGED jobs /\ To(p, "finish", loc[p])
  BY <1>1, <1>3 DEF Jobs, To
<1> QED
  BY <1>2, <1>3 DEF Send

\* The run is in the queue, or on its way there or out of it.
Held(r) == r \in Jobs \/ \E p \in Procs : pc[p] \in {"send", "finish"} /\ loc[p].job = r

\* A run whose mark stands stays held: the claim that takes it out of the queue
\* takes the mark with it.
LEMMA HeldStays ==
  ASSUME Base, [Next]_vars, ~Restart, NEW r, Held(r), r \in queued'
  PROVE  Held(r)'
<1>1. CASE r \in Jobs
  <2>1. CASE WorkerTake
    <3>1. Worker \in Procs
      BY DEF Procs
    <3> QED
      BY <1>1, <2>1, <3>1, TakesHead DEF Held
  <2>2. CASE \E p \in Procs : Send(p)
    BY <1>1, <2>2, SendAppends DEF Held
  <2>3. CASE jobs' = jobs
    BY <1>1, <2>3 DEF Held, Jobs
  <2> QED
    BY <2>1, <2>2, <2>3, JobsStay
<1>2. ASSUME NEW q \in Procs, pc[q] \in {"send", "finish"}, loc[q].job = r
      PROVE  Held(r)'
  <2>1. CASE ~Step(q)
    BY <1>2, <2>1, OwnSteps DEF FinishPCs, Held
  <2>2. CASE Step(q)
    <3>1. Send(q) \/ Claim(q)
      BY <1>2, <2>2, Path DEF Step
    <3>2. ~Claim(q)
      BY <1>2 DEF Claim
    <3> QED
      BY <1>2, <3>1, <3>2, SendAppends DEF Held
  <2> QED
    BY <2>1, <2>2
<1> QED
  BY <1>1, <1>2 DEF Held

\* Runs are marked as queued by enqueue, and by nothing else.
LEMMA MarksGrow ==
  ASSUME Base, [Next]_vars, NEW r \in queued' \ queued
  PROVE  \E p \in Procs : pc'[p] = "send" /\ loc'[p].job = r
<1>1. ASSUME NEW p \in Procs, Mark(p)
      PROVE  \E q \in Procs : pc'[q] = "send" /\ loc'[q].job = r
  <2>1. queued' = queued \/ (queued' = queued \cup {loc[p].job} /\ To(p, "send", loc[p]))
    BY <1>1 DEF Mark
  <2>2. pc \in [Procs -> PCs] /\ loc \in [Procs -> Locals]
    BY DEF Base, TypeOK
  <2>3. r = loc[p].job /\ To(p, "send", loc[p])
    BY <2>1
  <2>4. pc'[p] = "send" /\ loc'[p] = loc[p]
    BY <2>2, <2>3 DEF To
  <2> QED
    BY <2>3, <2>4
<1>2. ASSUME NEW p \in Procs, Step(p) \/ Cancelled(p), ~Mark(p)
      PROVE  queued' \subseteq queued
  <2>1. CASE \/ Check(p) \/ Cancelled(p) \/ Lease(p) \/ Release(p) \/ ReleaseAbandoned(p)
             \/ Invalidate(p) \/ Send(p) \/ Claim(p) \/ Dispatch(p) \/ CallOk(p) \/ CallErr(p)
    BY <2>1 DEF Check, Cancelled, Lease, Release, ReleaseAbandoned, Invalidate, Send, Claim, Dispatch,
                CallOk, CallErr, markVars
  <2>2. CASE \/ RotateRefused(p) \/ RotateNotNeeded(p) \/ RotateWait(p) \/ RotateLead(p)
             \/ Lookup(p) \/ Purge(p) \/ Discard(p) \/ PersistNew(p)
             \/ AdoptRefused(p) \/ Adopt(p) \/ StartErr(p) \/ StartOk(p) \/ StartLate(p)
    BY <2>2 DEF RotateRefused, RotateNotNeeded, RotateWait, RotateLead, Lookup, Purge, Discard,
                PersistNew, AdoptRefused, Adopt, StartErr, StartOk, StartLate, markVars
  <2> QED
    BY <1>2, <2>1, <2>2 DEF Step
<1>3. CASE \/ \E c \in Callers, a \in Agents : Acquire(c, a)
           \/ \E p \in Callers \cup {Maint}, a \in Agents : Precreate(p, a)
           \/ UNCHANGED vars
           \/ Env
  BY <1>3 DEF Acquire, Precreate, vars, Env, ToggleCooling, GrowOld, Gone, Restart, markVars
<1>4. CASE \/ WorkerTake \/ WorkerExit \/ MaintainTurn \/ FinishEach \/ FinishAllRuns
           \/ Maintain
  BY <1>4 DEF WorkerTake, WorkerExit, MaintainTurn, FinishEach, FinishAllRuns, Maintain, markVars
<1>5. CASE Stopping
  BY <1>5 DEF Stopping, ShutdownBegin, ShutdownStop, ShutdownClaim, ShutdownSave, ShutdownLast, markVars
<1> QED
  BY <1>1, <1>2, <1>3, <1>4, <1>5 DEF Next, Background, Stopping

\* A mark never outlives the job.
QueuedSound == \A r \in queued : Held(r)

LEMMA QueuedStep ==
  ASSUME Base, QueuedSound, [Next]_vars
  PROVE  QueuedSound'
<1>1. CASE Restart
  BY <1>1 DEF Restart, QueuedSound
<1>2. ASSUME ~Restart, NEW r \in queued'
      PROVE  Held(r)'
  BY <1>2, HeldStays, MarksGrow DEF QueuedSound, Held
<1> QED
  BY <1>1, <1>2 DEF QueuedSound

\* Before a shutdown, a run marked as being finished has a process on its way
\* upstream, or has been ended there: no mark is left behind by a failed FINISH.
FinishingSound ==
  pc[Stopper] = "rest" =>
    \A r \in finishing : ~Alive(r) \/ \E p \in Procs : Closes(p) /\ loc[p].job = r

\* Who has claimed a run stays on it until upstream has ended the run, or it is
\* back on the draining list.
LEMMA CloserStays ==
  ASSUME Base, [Next]_vars, ~Restart, NEW q \in Procs, Closes(q), NEW r \in Made, loc[q].job = r
  PROVE  \/ Closes(q)' /\ loc'[q].job = r
         \/ ~Alive(r)'
         \/ r \in Kept' /\ finishing' = finishing \ {r}
<1>0. SharedOK /\ r \in Runs /\ draining \subseteq Runs /\ dropped \subseteq Runs
  BY BaseParts DEF Made, SharedOK, SharedTypes
<1>1. CASE ~Step(q)
  BY <1>1, OwnSteps DEF Closes, FinishPCs
<1>2. CASE Step(q)
  <2>1. Dispatch(q) \/ CallOk(q) \/ CallErr(q)
    BY <1>2, Path DEF Step, Closes
  <2>2. CASE Dispatch(q)
    BY <2>2, Path DEF Closes
  <2>3. CASE CallOk(q)
    <3>1. UNCHANGED origin /\ up' = [up EXCEPT ![origin[r]] = "ended"] /\ origin[r] \in Runs
      BY <1>0, <2>3 DEF CallOk, bornVars, SharedOK, MadeSound, Made
    <3>2. up'[origin[r]] = "ended"
      BY <1>0, <3>1 DEF SharedOK, SharedTypes
    <3> QED
      BY <3>1, <3>2 DEF Alive
  <2>4. CASE CallErr(q)
    <3>1. AppendDraining(r) /\ finishing' = finishing \ {r}
      BY <2>4 DEF CallErr, CallRetries
    <3>2. draining \cup {r} \subseteq draining' \cup dropped'
      BY <1>0, <3>1, AppendTypes
    <3> QED
      BY <3>1, <3>2 DEF Kept
  <2> QED
    BY <2>1, <2>2, <2>3, <2>4
<1> QED
  BY <1>1, <1>2

LEMMA FinishingStep ==
  ASSUME Base, FinishingSound, [Next]_vars
  PROVE  FinishingSound'
<1>0. finishing \subseteq Made /\ pc \in [Procs -> PCs] /\ loc \in [Procs -> Locals]
  BY DEF Base, TypeOK, MadeSound
<1>1. CASE Restart
  BY <1>1 DEF Restart, FinishingSound
<1>2. ASSUME ~Restart, pc'[Stopper] = "rest", NEW r \in finishing'
      PROVE  ~Alive(r)' \/ \E p \in Procs : Closes(p)' /\ loc'[p].job = r
  <2>0. ~Stopping /\ pc[Stopper] = "rest"
    BY <1>2, BeforeShutdown
  <2>1. CASE r \in finishing /\ ~Alive(r)
    BY <1>0, <2>1, AliveStays
  <2>2. ASSUME r \in finishing, NEW q \in Procs, Closes(q), loc[q].job = r
        PROVE  ~Alive(r)' \/ \E p \in Procs : Closes(p)' /\ loc'[p].job = r
    BY <1>0, <1>2, <2>2, CloserStays
  <2>3. CASE r \notin finishing
    <3>1. PICK p \in Procs : Claiming(p)
      BY <1>2, <2>0, <2>3, ClaimsStay
    <3>2. Claim(p)
      <4>1. CASE Dispatch(p) \/ CallOk(p)
        BY <1>2, <2>3, <4>1 DEF Dispatch, CallOk, markVars
      <4>2. CASE CallErr(p)
        BY <1>2, <2>3, <4>2 DEF CallErr
      <4> QED
        BY <3>1, <4>1, <4>2 DEF Claiming
    <3>3. /\ finishing' = finishing \cup {loc[p].job}
          /\ To(p, IF Persist THEN "dispatch" ELSE "call", loc[p])
      BY <1>2, <2>3, <3>2 DEF Claim
    <3>4. pc'[p] \in {"dispatch", "call"} /\ loc'[p].job = r
      BY <1>0, <1>2, <2>3, <3>3 DEF To
    <3> QED
      BY <3>4 DEF Closes
  <2> QED
    BY <2>0, <2>1, <2>2, <2>3 DEF FinishingSound
<1> QED
  BY <1>1, <1>2 DEF FinishingSound, Closes

\* The drain's own agenda shrinks by what it turns to.
LEMMA AgendaStays ==
  ASSUME Base, [Next]_vars, ~Restart, NEW r \in loc[Drainer].todo
  PROVE  \/ r \in loc'[Drainer].todo
         \/ pc'[Drainer] = "finish" /\ loc'[Drainer].job = r
<1>0. /\ Drainer \in Procs /\ Fits(Made, Drainer, pc[Drainer], loc[Drainer])
      /\ pc \in [Procs -> PCs] /\ loc \in [Procs -> Locals]
  BY DEF Base, TypeOK, AllFit, Procs
<1>1. /\ pc[Drainer] \in {"each", "finish", "dispatch", "call"}
      /\ Drainer \notin Callers /\ Drainer # Maint /\ Drainer # Worker /\ Drainer # Stopper
      /\ Home(Drainer) = "rest"
  BY <1>0, ProcsDiffer DEF Fits, Places, Home
<1>2. ASSUME NEW p \in Procs, Step(p) \/ Cancelled(p), p # Drainer
      PROVE  loc'[Drainer] = loc[Drainer]
  BY <1>0, <1>1, <1>2, StepMoves DEF OthersWait, Woken
<1>3. CASE Step(Drainer) \/ Cancelled(Drainer)
  <2>1. Claim(Drainer) \/ Dispatch(Drainer) \/ CallOk(Drainer) \/ CallErr(Drainer)
    BY <1>0, <1>1, <1>3, Path DEF Step
  <2>2. pc[Drainer] \in {"finish", "dispatch", "call"}
    BY <2>1 DEF Claim, Dispatch, CallOk, CallErr
  <2>3. loc[Drainer].ret = "each"
    BY <1>0, <2>2 DEF Fits
  <2>4. \/ \E s : To(Drainer, s, loc[Drainer])
        \/ Back(Drainer)
    BY <2>1 DEF Claim, Dispatch, CallOk, CallErr
  <2>5. loc'[Drainer].todo = loc[Drainer].todo
    <3>1. [loc[Drainer] EXCEPT !.job = NoRun, !.run = NoRun].todo = loc[Drainer].todo
      BY <1>0 DEF Locals
    <3> QED
      BY <1>0, <1>1, <2>3, <2>4, <3>1 DEF To, Back
  <2> QED
    BY <2>5
<1>4. CASE FinishEach
  <2>1. PICK x \in loc[Drainer].todo :
          To(Drainer, "finish", [loc[Drainer] EXCEPT !.todo = @ \ {x}, !.job = x, !.ret = "each"])
    BY <1>4 DEF FinishEach
  <2>2. /\ pc'[Drainer] = "finish" /\ loc'[Drainer].todo = loc[Drainer].todo \ {x}
        /\ loc'[Drainer].job = x
    BY <1>0, <2>1 DEF To, Locals
  <2> QED
    BY <2>2
<1>5. CASE FinishAllRuns
  BY <1>1, <1>5 DEF FinishAllRuns
<1>6. ASSUME NEW p \in Callers \cup {Maint}, NEW a \in Agents,
             Precreate(p, a) \/ (p \in Callers /\ Acquire(p, a))
      PROVE  loc'[Drainer] = loc[Drainer]
  BY <1>0, <1>1, <1>6, EntryKeeps DEF OthersStay, Procs
<1>7. CASE WorkerTake \/ WorkerExit \/ Maintain \/ MaintainTurn
  BY <1>0, <1>1, <1>7, LoopsKeep DEF OthersStay, Procs
<1>8. CASE Stopping
  BY <1>0, <1>1, <1>8, ShutdownKeeps DEF OthersStay, Procs, Stopping
<1>9. CASE (\E x \in Runs : GrowOld(x) \/ Gone(x)) \/ ToggleCooling \/ UNCHANGED vars
  BY <1>9, OutsideKeeps
<1> QED
  BY <1>2, <1>3, <1>4, <1>5, <1>6, <1>7, <1>8, <1>9 DEF Next, Background, Env, Stopping

\* Who has a FINISH to do passes it on until it is done: to the queue, to the
\* process whose FINISH is in flight, to the last lease, or to the list.
LEMMA PursuedStays ==
  ASSUME Base, QueuedSound, FinishingSound, LeasedKnown, [Next]_vars, ~Restart, ~Stopping,
         pc[Stopper] = "rest", NEW r \in Made, r \in Pursued, Alive(r)'
  PROVE  r \in Kept' \cup Pursued'
<1>0. /\ SharedOK /\ r \in Runs /\ r # NoRun /\ Alive(r)
      /\ pc \in [Procs -> PCs] /\ loc \in [Procs -> Locals]
  BY BaseParts, AliveStays, RunAssumption DEF Made, Base, TypeOK
<1>1. ASSUME NEW q \in Procs, pc'[q] \in FinishPCs \cup {"persist"}, loc'[q].job = r
      PROVE  r \in Pursued'
  BY <1>1 DEF Pursued
<1>2. CASE r \in Kept
  <2>1. r \in Kept' \/ r \in loc'[Drainer].todo
    BY <1>2, KeptStays
  <2> QED
    BY <2>1 DEF Pursued
<1>3. ASSUME NEW q \in Procs, Closes(q), loc[q].job = r
      PROVE  r \in Kept' \cup Pursued'
  BY <1>1, <1>3, CloserStays DEF Closes, FinishPCs
<1>4. ASSUME Held(r)'
      PROVE  r \in Pursued'
  BY <1>4 DEF Held, Pursued, FinishPCs
<1>5. CASE r \in Jobs
  <2>1. CASE WorkerTake
    <3>1. Worker \in Procs
      BY DEF Procs
    <3> QED
      BY <1>4, <1>5, <2>1, <3>1, TakesHead DEF Held
  <2>2. CASE \E p \in Procs : Send(p)
    BY <1>4, <1>5, <2>2, SendAppends DEF Held
  <2>3. CASE jobs' = jobs
    BY <1>4, <1>5, <2>3 DEF Held, Jobs
  <2> QED
    BY <2>1, <2>2, <2>3, JobsStay
<1>6. ASSUME NEW q \in Procs, pc[q] \in FinishPCs \cup {"persist"}, loc[q].job = r
      PROVE  r \in Kept' \cup Pursued'
  <2>1. CASE ~Step(q)
    BY <1>1, <1>6, <2>1, OwnSteps
  <2>2. CASE PersistNew(q)
    <3>1. To(q, "mark", [loc[q] EXCEPT !.run = NoRun])
      BY <1>0, <1>6, <2>2 DEF PersistNew
    <3>2. pc'[q] = "mark" /\ loc'[q].job = r
      BY <1>0, <1>6, <3>1 DEF To, Locals
    <3> QED
      BY <1>1, <3>2 DEF FinishPCs
  <2>3. CASE Mark(q) /\ r \in queued
    <3>1. r \in queued' /\ Held(r)
      BY <1>6, <2>3 DEF Mark, QueuedSound
    <3> QED
      BY <1>4, <3>1, HeldStays
  <2>4. CASE Mark(q) /\ r \notin queued
    <3>1. pc'[q] = "send" /\ loc'[q] = loc[q]
      BY <1>0, <1>6, <2>4 DEF Mark, To
    <3> QED
      BY <1>1, <1>6, <3>1 DEF FinishPCs
  <2>5. CASE Send(q)
    BY <1>1, <1>4, <1>6, <2>5, SendAppends DEF FinishPCs, Held
  <2>6. CASE Claim(q) /\ Finishable(r)
    <3>1. pc'[q] \in {"dispatch", "call"} /\ loc'[q] = loc[q]
      BY <1>0, <1>6, <2>6 DEF Claim, To
    <3> QED
      BY <1>1, <1>6, <3>1 DEF FinishPCs
  <2>7. CASE Claim(q) /\ ~Finishable(r)
    <3>1. inflight[r] > 0 \/ r \in finishing \/ r \in Currents
      BY <1>0, <2>7 DEF Finishable, SharedOK, SharedTypes
    <3>2. CASE inflight[r] > 0
      BY <1>0, <1>2, <3>2 DEF LeasedKnown
    <3>3. CASE r \in finishing
      BY <1>0, <1>3, <3>3 DEF FinishingSound
    <3>4. CASE r \in Currents
      BY <1>2, <3>4 DEF Kept
    <3> QED
      BY <3>1, <3>2, <3>3, <3>4
  <2>8. CASE Dispatch(q) \/ CallOk(q) \/ CallErr(q)
    BY <1>3, <1>6, <2>8, Path DEF Closes
  <2>9. ASSUME Step(q)
        PROVE  \/ PersistNew(q) \/ Mark(q) \/ Send(q) \/ Claim(q)
               \/ Dispatch(q) \/ CallOk(q) \/ CallErr(q)
    BY <1>6, <2>9, Path DEF Step, FinishPCs
  <2> QED
    BY <2>1, <2>2, <2>3, <2>4, <2>5, <2>6, <2>7, <2>8, <2>9
<1>7. CASE r \in loc[Drainer].todo
  <2>1. Drainer \in Procs
    BY DEF Procs
  <2>2. CASE r \in loc'[Drainer].todo
    BY <2>2 DEF Pursued
  <2>3. CASE pc'[Drainer] = "finish" /\ loc'[Drainer].job = r
    BY <1>1, <2>1, <2>3 DEF FinishPCs
  <2> QED
    BY <1>7, <2>2, <2>3, AgendaStays
<1>8. ASSUME NEW q \in Procs, pc[q] = "discard", loc[q].run = r
      PROVE  r \in Kept' \cup Pursued'
  <2>1. CASE ~Step(q)
    BY <1>8, <2>1, OwnSteps DEF Pursued
  <2>2. CASE Step(q)
    <3>1. Discard(q)
      BY <1>8, <2>2, Path DEF Step
    <3> QED
      BY <1>8, <3>1 DEF Discard, Kept
  <2> QED
    BY <2>1, <2>2
<1> QED
  BY <1>5, <1>6, <1>7, <1>8 DEF Pursued

LEMMA NoOrphanStep ==
  ASSUME Base, QueuedSound, FinishingSound, LeasedKnown, NoOrphan, [Next]_vars
  PROVE  NoOrphan'
<1>1. CASE Restart
  BY <1>1 DEF Restart, NoOrphan, Unmade, bornVars
<1>2. ASSUME ~Restart, pc'[Stopper] = "rest", NEW r \in Runs \ (Unmade' \cup dropped'), Alive(r)'
      PROVE  r \in Currents' \cup draining' \cup Pursued'
  <2>1. ~Stopping /\ pc[Stopper] = "rest"
    BY <1>2, BeforeShutdown
  <2>2. r \in Made'
    BY <1>2 DEF Made, Unmade
  <2>3. CASE r \notin Made
    BY <2>2, <2>3, NewRuns DEF Pursued
  <2>4. CASE r \in Made /\ r \in Kept
    <3>1. r \in Kept' \/ r \in loc'[Drainer].todo
      BY <1>2, <2>1, <2>4, KeptStays
    <3> QED
      BY <1>2, <3>1 DEF Kept, Pursued
  <2>5. CASE r \in Made /\ r \in Pursued
    BY <1>2, <2>1, <2>5, PursuedStays DEF Kept
  <2>6. r \in Made => r \in Kept \cup Pursued
    BY <1>2, <2>1, AliveStays DEF NoOrphan, Alive, Kept, Made, Unmade
  <2> QED
    BY <2>3, <2>4, <2>5, <2>6
<1> QED
  BY <1>1, <1>2 DEF NoOrphan, Alive

\* No run that is alive upstream is lost before a shutdown: it is current, on
\* the draining list, or with somebody who is going to FINISH it, unless the
\* manager let it go on purpose (steps.go:252-255).
THEOREM NothingOrphaned == Spec => []NoOrphan
<1> DEFINE OInv == QueuedSound /\ FinishingSound /\ LeasedKnown /\ NoOrphan
<1>1. Init => OInv
  BY DEF Init, QueuedSound, FinishingSound, LeasedKnown, NoOrphan, Unmade
<1>2. ASSUME Base, OInv, [Next]_vars
      PROVE  OInv'
  BY <1>2, QueuedStep, FinishingStep, LeasedKnownStep, NoOrphanStep
<1>3. OInv => NoOrphan
  OBVIOUS
<1> HIDE DEF OInv
<1> QED
  BY <1>1, <1>2, <1>3, BaseInvariant, PTL DEF Spec

-----------------------------------------------------------------------------
(* The life of a run, without a store and within one process.               *)

\* Process q is about to FINISH the run: it has claimed it, or started it too
\* late.
ClosedBy(q, r) == \/ Closes(q) /\ loc[q].job = r
                  \/ pc[q] = "discard" /\ loc[q].run = r

\* What is being finished, or is about to be discarded, is not current, and the
\* shutdown has an agenda only after its claim.
LifeSound ==
  /\ finishing \cap Currents = {}
  /\ \A p \in Procs : pc[p] = "discard" => loc[p].run \notin Currents
  /\ pc[Stopper] \notin {"save", "last"} => loc[Stopper].todo = {}

LEMMA LandThere ==
  ASSUME NEW p \in Procs, NEW s, NEW l, NEW wake, Land(p, s, l, wake)
  PROVE  pc'[p] = s /\ loc'[p] = l
BY DEF Land, Waits

\* A run is discarded by the process that started it.
LEMMA DiscardsStay ==
  ASSUME Base, [Next]_vars, ~Restart, NEW q \in Procs, pc'[q] = "discard"
  PROVE  \/ pc[q] = "discard" /\ loc'[q] = loc[q]
         \/ StartLate(q)
<1>1. ASSUME NEW p \in Procs, OthersWait(p) \/ OthersStay(p), pc'[p] # "discard"
      PROVE  pc[q] = "discard" /\ loc'[q] = loc[q]
  BY <1>1 DEF OthersWait, OthersStay, Woken
<1>2. ASSUME NEW p \in Procs, Step(p) \/ Cancelled(p), ~StartLate(p)
      PROVE  pc'[p] # "discard"
  <2>1. CASE Check(p) \/ Cancelled(p) \/ Lease(p) \/ Release(p) \/ ReleaseAbandoned(p)
             \/ Invalidate(p) \/ Mark(p) \/ Send(p) \/ Claim(p) \/ Dispatch(p) \/ CallOk(p) \/ CallErr(p)
    BY <2>1, Path DEF Ends
  <2>2. CASE \/ RotateRefused(p) \/ RotateNotNeeded(p) \/ RotateWait(p) \/ RotateLead(p)
             \/ Lookup(p) \/ Purge(p) \/ Discard(p) \/ PersistNew(p)
    BY <2>2, Path DEF Ends
  <2>3. CASE AdoptRefused(p) \/ StartErr(p) \/ Adopt(p) \/ StartOk(p)
    <3>1. FailPc(p) \in Ends /\ loc[p].ret \in Ends
      BY <2>3, Path, Ending DEF RotatePCs
    <3>2. \E s \in Ends \cup {"mark", "persist"} : \E l, wake : Land(p, s, l, wake)
      BY <2>3, <3>1 DEF AdoptRefused, StartErr, Adopt, StartOk, AfterInstall
    <3> QED
      BY <3>2, LandThere DEF Ends
  <2> QED
    BY <1>2, <2>1, <2>2, <2>3 DEF Step
<1>3. ASSUME NEW p \in Procs, Step(p) \/ Cancelled(p)
      PROVE  (pc[q] = "discard" /\ loc'[q] = loc[q]) \/ StartLate(q)
  <2>1. CASE p = q
    BY <1>1, <1>2, <1>3, <2>1, StepMoves
  <2>2. CASE p # q
    BY <1>3, <2>2, StepMoves DEF OthersWait, Woken
  <2> QED
    BY <2>1, <2>2
<1>4. ASSUME NEW p \in Callers \cup {Maint}, NEW a \in Agents,
             Precreate(p, a) \/ (p \in Callers /\ Acquire(p, a))
      PROVE  pc[q] = "discard" /\ loc'[q] = loc[q]
  BY <1>1, <1>4, EntryKeeps, Path DEF Procs
<1>5. CASE Background \/ Maintain \/ FinishAllRuns \/ ShutdownBegin
  <2>1. \E p \in Procs : OthersStay(p) /\ pc'[p] # "discard"
    BY <1>5, LoopsKeep, ShutdownKeeps, BackgroundPath DEF Background, Procs
  <2> QED
    BY <1>1, <2>1
<1>6. CASE (\E r \in Runs : GrowOld(r) \/ Gone(r)) \/ ToggleCooling \/ UNCHANGED vars
  BY <1>6, OutsideKeeps
<1> QED
  BY <1>3, <1>4, <1>5, <1>6 DEF Next, Env

\* Nobody begins or ends a FINISH but by the steps named.
LEMMA ClosingStays ==
  ASSUME Base, [Next]_vars, ~Stopping, ~Restart,
         \A p \in Procs : ~Claiming(p) /\ ~Discard(p) /\ ~StartLate(p)
  PROVE  finishing' = finishing /\ \A r : Closing(r)' <=> Closing(r)
<1>1. finishing' = finishing /\ \A q \in Procs : Closes(q)' => Closes(q) /\ loc'[q] = loc[q]
  BY ClaimsStay
<1>2. ASSUME NEW q \in Procs, Closes(q) \/ pc[q] = "discard"
      PROVE  pc'[q] = pc[q] /\ loc'[q] = loc[q]
  <2>1. ~Step(q)
    BY <1>2, Path DEF Step, Closes, Claiming
  <2> QED
    BY <1>2, <2>1, OwnSteps DEF Closes, FinishPCs
<1>3. \A q \in Procs : pc'[q] = "discard" => pc[q] = "discard" /\ loc'[q] = loc[q]
  BY DiscardsStay
<1>4. loc'[Stopper] = loc[Stopper]
  BY StopperStays
<1>5. \A q \in Procs : \A r : ClosedBy(q, r)' <=> ClosedBy(q, r)
  BY <1>1, <1>2, <1>3 DEF ClosedBy, Closes
<1> QED
  BY <1>1, <1>4, <1>5 DEF Closing, ClosedBy, Closes

LEMMA LifeSoundStep ==
  ASSUME Base, LifeSound, ~Persist, [Next]_vars
  PROVE  LifeSound'
<1>0. /\ finishing \subseteq Made /\ Currents \subseteq Made /\ Stopper \in Procs
      /\ Currents' \subseteq Currents \cup (Runs \ Made)
      /\ pc \in [Procs -> PCs] /\ loc \in [Procs -> Locals]
  <2>1. Currents' \subseteq Currents \cup (Runs \ Made)
    BY CurrentsGrow
  <2>2. Currents \subseteq Made
    BY DEF Base, MadeSound, Currents
  <2> QED
    BY <2>1, <2>2 DEF Base, TypeOK, MadeSound, Procs
<1>1. ASSUME NEW r \in finishing'
      PROVE  r \notin Currents'
  <2>1. CASE ShutdownClaim
    BY <2>1 DEF ShutdownClaim, Currents
  <2>2. CASE ShutdownBegin \/ ShutdownStop \/ ShutdownSave \/ ShutdownLast
    <3>1. finishing' = finishing
      BY <2>2 DEF ShutdownBegin, ShutdownStop, ShutdownSave, ShutdownLast, markVars
    <3> QED
      BY <1>0, <1>1, <3>1 DEF LifeSound
  <2>3. CASE Restart
    BY <1>1, <2>3 DEF Restart
  <2>4. ASSUME NEW p \in Procs, Claiming(p)
        PROVE  r \notin Currents'
    <3>1. CASE r \in finishing
      BY <1>0, <3>1 DEF LifeSound
    <3>2. CASE r \notin finishing
      <4>1. Claim(p) /\ Finishable(r)
        BY <1>1, <2>4, <3>2 DEF Claiming, Claim, Dispatch, CallOk, CallErr, markVars
      <4> QED
        BY <4>1 DEF Claim, Finishable, setVars, Currents
    <3> QED
      BY <3>1, <3>2
  <2>5. CASE ~Stopping /\ ~Restart /\ \A p \in Procs : ~Claiming(p)
    BY <1>0, <1>1, <2>5, ClaimsStay DEF LifeSound
  <2> QED
    BY <2>1, <2>2, <2>3, <2>4, <2>5 DEF Stopping
<1>2. ASSUME NEW q \in Procs, pc'[q] = "discard"
      PROVE  loc'[q].run \notin Currents'
  <2>1. ~Restart
    BY <1>2 DEF Restart, Home
  <2>2. CASE pc[q] = "discard" /\ loc'[q] = loc[q]
    <3>1. loc[q].run \in Made
      BY <2>2 DEF Base, AllFit, Fits
    <3> QED
      BY <1>0, <2>2, <3>1 DEF LifeSound
  <2>3. CASE StartLate(q)
    <3>1. PICK r \in Unmade : Land(q, "discard", [loc[q] EXCEPT !.run = r], "ok")
      BY <2>3 DEF StartLate
    <3>2. loc'[q].run = r
      BY <1>0, <3>1, LandThere DEF Locals
    <3>3. Currents' = Currents
      BY <2>3 DEF StartLate, setVars, Currents
    <3> QED
      BY <1>0, <3>2, <3>3 DEF Unmade, Made
  <2> QED
    BY <1>2, <2>1, <2>2, <2>3, DiscardsStay
<1>3. ASSUME pc'[Stopper] \notin {"save", "last"}
      PROVE  loc'[Stopper].todo = {}
  <2>0. /\ \A s, l : To(Stopper, s, l) => pc'[Stopper] = s /\ loc'[Stopper] = l
        /\ NoLoc(Stopper).todo = {}
    BY <1>0 DEF To, NoLoc
  <2>1. CASE ShutdownBegin \/ ShutdownStop
    BY <2>0, <2>1 DEF ShutdownBegin, ShutdownStop
  <2>2. ~ShutdownClaim
    BY <1>3, <2>0 DEF ShutdownClaim
  <2>3. ~ShutdownSave
    BY <1>3, <2>0 DEF ShutdownSave
  <2>4. CASE ShutdownLast
    BY <1>3, <2>0, <2>4 DEF ShutdownLast
  <2>5. CASE Restart
    BY <1>0, <2>0, <2>5 DEF Restart
  <2>6. CASE ~Stopping /\ ~Restart
    BY <1>3, <2>6, StopperStays DEF LifeSound
  <2> QED
    BY <2>1, <2>2, <2>3, <2>4, <2>5, <2>6 DEF Stopping
<1> QED
  BY <1>1, <1>2, <1>3 DEF LifeSound

\* A run that has not been made is in nobody's hands.
LEMMA UnbornFree ==
  ASSUME Base, NEW r \in Unmade
  PROVE  ~Closing(r) /\ r \notin finishing /\ r \notin Currents /\ Lives[r] = "unborn"
<1>1. r \notin Made /\ Stopper \in Procs /\ r \in Runs
  BY DEF Unmade, Made, Procs
<1>2. ~Closing(r)
  BY <1>1 DEF Closing, Base, AllFit, Fits, FinishPCs
<1> QED
  BY <1>1, <1>2 DEF Base, MadeSound, Currents, Lives

LEMMA CurrentsOpen ==
  ASSUME Base, ClosingSound, LifeSound, NEW r \in Currents
  PROVE  Lives[r] = "open"
<1>1. r \in Made /\ r \notin finishing
  BY DEF Base, MadeSound, Currents, LifeSound
<1>2. ~Closing(r)
  BY <1>1 DEF Closing, ClosingSound, LifeSound, Closes
<1> QED
  BY <1>1, <1>2 DEF Lives, Made, Unmade

LEMMA SameLife ==
  ASSUME NEW x \in Runs, x \in Unmade' <=> x \in Unmade, Closing(x)' <=> Closing(x),
         x \in finishing' <=> x \in finishing, x \in Currents' <=> x \in Currents
  PROVE  Lives'[x] = Lives[x]
BY DEF Lives

LEMMA LivesType == Lives \in [Runs -> {"unborn", "closing", "ended", "open", "retired"}]
BY DEF Lives

LivesStutter == Lives' = Lives /\ inflight' = inflight

LEMMA StutterLives ==
  ASSUME inflight' = inflight, \A x \in Runs : Lives'[x] = Lives[x]
  PROVE  LivesStutter
BY DEF LivesStutter, Lives

\* A FINISH in flight comes to its end.
LEMMA ClosedLives ==
  ASSUME NEW r \in Runs, Lives[r] = "closing", Lives'[r] \in {"closing", "ended", "retired"},
         \A x \in Runs \ {r} : Lives'[x] = Lives[x], inflight' = inflight
  PROVE  Life!LifeNext \/ LivesStutter
<1>1. CASE Lives'[r] = "closing"
  BY <1>1, StutterLives
<1>2. CASE Lives'[r] \in {"ended", "retired"}
  <2>1. PICK s \in {"ended", "retired"} : Lives'[r] = s
    BY <1>2
  <2>2. Lives' = [Lives EXCEPT ![r] = s]
    BY <2>1 DEF Lives
  <2>3. Life!Closed(r)
    BY <2>2 DEF Life!Closed
  <2> QED
    BY <2>3 DEF Life!LifeNext
<1> QED
  BY <1>1, <1>2

\* A run, and nothing else, goes from one stage of its life to another.
LEMMA OneMoves ==
  ASSUME NEW r \in Runs, NEW s, Lives'[r] = s, \A x \in Runs \ {r} : Lives'[x] = Lives[x]
  PROVE  Lives' = [Lives EXCEPT ![r] = s]
BY DEF Lives

\* Some of the current runs are not current any more.
LEMMA LivesRetire ==
  ASSUME UNCHANGED <<origin, finishing>>, \A x \in Runs : Closing(x)' <=> Closing(x),
         NEW S, Currents' = Currents \ S
  PROVE  Lives' = Life!Retire(S)
<1>1. Unmade' = Unmade
  BY DEF Unmade
<1>2. ASSUME NEW x \in Runs
      PROVE  Lives'[x] = IF x \in S /\ Lives[x] = "open" THEN "retired" ELSE Lives[x]
  BY <1>1, <1>2 DEF Lives
<1> QED
  BY <1>2 DEF Lives, Life!Retire

\* A lease is taken.
LEMMA LeaseImplements ==
  ASSUME Base, ClosingSound, LifeSound, NEW p \in Procs, Lease(p),
         finishing' = finishing, \A x \in Runs : Closing(x)' <=> Closing(x)
  PROVE  Life!LifeNext \/ LivesStutter
<1>1. UNCHANGED <<current, origin>>
  BY DEF Lease, setVars, bornVars
<1>2. Lives' = Lives
  BY <1>1, SameLife DEF Unmade, Currents, Lives
<1>3. CASE inflight' = inflight
  BY <1>2, <1>3 DEF LivesStutter
<1>4. ASSUME NEW a, a = loc[p].agent, current[a] # NoRun, inflight' = Leased(current[a])
      PROVE  Life!LifeNext
  <2>1. a \in Agents
    BY <1>4 DEF Lease, Base, AllFit, Fits
  <2>2. PICK r \in Runs : r = current[a] /\ r \in Currents
    BY <1>4, <2>1 DEF Base, TypeOK, Currents
  <2>3. Life!TakeLease(r)
    BY <1>2, <1>4, <2>2, CurrentsOpen DEF Life!TakeLease, Leased
  <2> QED
    BY <2>2, <2>3 DEF Life!LifeNext
<1> QED
  BY <1>3, <1>4 DEF Lease

\* A lease ends, and its run may retire with it.
LEMMA ReleaseImplements ==
  ASSUME Base, LeaseCount, NEW p \in Procs, Release(p) \/ ReleaseAbandoned(p),
         finishing' = finishing, \A x \in Runs : Closing(x)' <=> Closing(x)
  PROVE  Life!LifeNext
<1>1. PICK r \in Runs : r = loc[p].run
  <2>1. pc[p] = "leased" /\ Fits(Made, p, pc[p], loc[p])
    BY DEF Release, ReleaseAbandoned, Base, AllFit
  <2> QED
    BY <2>1 DEF Fits, Made
<1>2. p \in Callers /\ p \in Leasers(r)
  <2>1. pc[p] = "leased" /\ p \in Callers
    BY WhoIsWhere DEF Release, ReleaseAbandoned, Base, AllFit, Fits
  <2> QED
    BY <1>1, <2>1 DEF Leasers
<1>3. inflight[r] \in Nat /\ inflight[r] > 0
  <2>1. IsFiniteSet(Leasers(r)) /\ inflight[r] = Cardinality(Leasers(r)) /\ inflight[r] \in Nat
    BY LeasersFinite DEF LeaseCount, Base, TypeOK
  <2>2. Cardinality(Leasers(r)) # 0
    BY <1>2, <2>1, FS_EmptySet
  <2> QED
    BY <2>1, <2>2
<1>4. inflight' = [inflight EXCEPT ![r] = @ - 1]
  BY <1>1, <1>3 DEF Release, ReleaseAbandoned, Left
<1>5. UNCHANGED current \/ Detach(r)
  <2>1. CASE Release(p)
    BY <1>1, <2>1 DEF Release, ReleaseDetaches
  <2>2. CASE ReleaseAbandoned(p)
    BY <1>1, <2>2 DEF ReleaseAbandoned, setVars
  <2> QED
    BY <2>1, <2>2
<1>6. UNCHANGED origin
  BY DEF Release, ReleaseAbandoned, bornVars
<1>7. CASE UNCHANGED current
  <2>1. Lives' = Lives
    BY <1>6, <1>7, SameLife DEF Unmade, Currents, Lives
  <2> QED
    BY <1>3, <1>4, <2>1 DEF Life!LifeNext, Life!EndLease
<1>8. CASE Detach(r)
  <2>1. Currents' = Currents \ {r}
    BY <1>8 DEF Detach, Currents
  <2>2. Lives' = Life!Retire({r})
    BY <1>6, <2>1, LivesRetire
  <2> QED
    BY <1>3, <1>4, <2>2 DEF Life!LifeNext, Life!EndLease
<1> QED
  BY <1>5, <1>7, <1>8

Invalidates == \E p \in Procs : Invalidate(p)

\* Runs retire without a lease: invalidated, or drained.
LEMMA RetireImplements ==
  ASSUME Base, Invalidates \/ FinishAllRuns,
         finishing' = finishing, \A x \in Runs : Closing(x)' <=> Closing(x)
  PROVE  Life!LifeNext
<1>1. PICK S \in SUBSET Runs : Currents' = Currents \ S
  <2>1. ASSUME NEW p \in Procs, Invalidate(p)
        PROVE  \E S \in SUBSET Runs : Currents' = Currents \ S
    <3>1. current \in [Agents -> Runs \cup {NoRun}] /\ current' = [current EXCEPT ![loc[p].agent] = NoRun]
      BY <2>1 DEF Invalidate, Base, TypeOK
    <3>2. \A b \in Agents \ {loc[p].agent} : current[b] # NoRun => current[b] # current[loc[p].agent]
      <4>1. loc[p].agent \in Agents
        BY <2>1 DEF Invalidate, Base, AllFit, Fits
      <4> QED
        BY <4>1 DEF Base, MadeSound
    <3>3. Currents' = Currents \ ({current[loc[p].agent]} \cap Runs)
      BY <3>1, <3>2, RunAssumption DEF Currents
    <3> QED
      BY <3>3
  <2>2. CASE FinishAllRuns
    <3>1. Currents' = Currents \ {r \in Currents : inflight[r] = 0}
      BY <2>2, RunAssumption DEF FinishAllRuns, Currents
    <3>2. {r \in Currents : inflight[r] = 0} \in SUBSET Runs
      BY DEF Currents, Base, TypeOK
    <3> QED
      BY <3>1, <3>2
  <2> QED
    BY <2>1, <2>2 DEF Invalidates
<1>2. UNCHANGED <<origin, inflight>>
  BY DEF Invalidates, Invalidate, FinishAllRuns, bornVars, markVars
<1>3. Lives' = Life!Retire(S)
  BY <1>1, <1>2, LivesRetire
<1>4. Life!RetireSome
  BY <1>2, <1>3 DEF Life!RetireSome
<1> QED
  BY <1>4 DEF Life!LifeNext

\* A START lands in time: its run opens, the one it replaces retires.
LEMMA OpenImplements ==
  ASSUME Base, ClosingSound, LifeSound, NEW p \in Procs, Adopt(p) \/ StartOk(p),
         finishing' = finishing, \A x \in Runs : Closing(x)' <=> Closing(x)
  PROVE  Life!LifeNext
<1>1. PICK a \in Agents : a = loc[p].agent
  <2>1. pc[p] \in RotatePCs /\ Fits(Made, p, pc[p], loc[p])
    BY Path DEF Base, AllFit, RotatePCs
  <2> QED
    BY <2>1 DEF Fits
<1>2. PICK r \in Runs, from \in Runs :
        /\ r \in Unmade
        /\ origin' = [origin EXCEPT ![r] = from]
        /\ current' = [current EXCEPT ![a] = r]
  <2>1. CASE Adopt(p)
    <3>1. loc[p].run \in Runs
      <4>1. pc[p] = "adopt" /\ Fits(Made, p, pc[p], loc[p])
        BY <2>1 DEF Adopt, Base, AllFit
      <4> QED
        BY <4>1 DEF Fits, Made
    <3> QED
      BY <1>1, <2>1, <3>1 DEF Adopt, Install
  <2>2. CASE StartOk(p)
    BY <1>1, <2>2 DEF StartOk, Install
  <2> QED
    BY <2>1, <2>2
<1>3. /\ current \in [Agents -> Runs \cup {NoRun}] /\ origin \in [Runs -> Runs \cup {NoRun}]
      /\ inflight' = inflight
  BY DEF Base, TypeOK, Adopt, StartOk, markVars
<1>4. Unmade' = Unmade \ {r}
  BY <1>2, <1>3, RunAssumption DEF Unmade
<1>5. ~Closing(r) /\ r \notin finishing /\ r \notin Currents /\ Lives[r] = "unborn"
  BY <1>2, UnbornFree
<1>6. \A b \in Agents \ {a} : current[b] # NoRun => current[b] # current[a]
  BY DEF Base, MadeSound
<1>7. Currents' = (Currents \ {current[a]}) \cup {r}
  <2>1. \A b \in Agents : current'[b] = IF b = a THEN r ELSE current[b]
    BY <1>2, <1>3
  <2> QED
    BY <1>6, <2>1, RunAssumption DEF Currents
<1>8. Lives'[r] = "open"
  BY <1>4, <1>5, <1>7 DEF Lives
<1>9. ASSUME NEW x \in Runs \ {r}
      PROVE  Lives'[x] = IF x = current[a] /\ Lives[x] = "open" THEN "retired" ELSE Lives[x]
  <2>1. CASE x # current[a]
    BY <1>4, <1>7, <1>9, <2>1, SameLife
  <2>2. CASE x = current[a]
    <3>1. x \in Currents /\ x \notin Currents' /\ Lives[x] = "open"
      BY <1>7, <1>9, <2>2, CurrentsOpen, RunAssumption DEF Currents
    <3> QED
      BY <1>4, <1>9, <2>2, <3>1 DEF Lives
  <2> QED
    BY <2>1, <2>2
<1>10. Lives' = [Life!Retire({current[a]} \cap Runs) EXCEPT ![r] = "open"]
  BY ZenonT(60), <1>8, <1>9 DEF Lives, Life!Retire
<1>11. Life!Open(r)
  BY <1>3, <1>5, <1>10 DEF Life!Open
<1> QED
  BY <1>11 DEF Life!LifeNext

\* The rest of the steps change at most what one process, p, is finishing.
LEMMA OthersFinish ==
  ASSUME Base, [Next]_vars, ~Stopping, ~Restart, NEW p \in Procs, OthersWait(p), NEW x,
         ClosedBy(p, x)' <=> ClosedBy(p, x)
  PROVE  Closing(x)' <=> Closing(x)
<1>1. ASSUME NEW q \in Procs \ {p}
      PROVE  ClosedBy(q, x)' <=> ClosedBy(q, x)
  BY <1>1 DEF OthersWait, Woken, ClosedBy, Closes
<1>2. loc'[Stopper] = loc[Stopper]
  BY StopperStays
<1>3. \A q \in Procs : ClosedBy(q, x)' <=> ClosedBy(q, x)
  BY <1>1
<1> QED
  BY <1>2, <1>3 DEF Closing, ClosedBy, Closes

\* A START lands after the shutdown has begun.
LEMMA BornLateImplements ==
  ASSUME Base, [Next]_vars, ~Stopping, ~Restart, NEW p \in Procs, StartLate(p)
  PROVE  Life!LifeNext
<1>1. PICK r \in Unmade : /\ origin' = [origin EXCEPT ![r] = r]
                          /\ Land(p, "discard", [loc[p] EXCEPT !.run = r], "ok")
  BY DEF StartLate
<1>2. pc[p] = "start" /\ pc'[p] = "discard" /\ loc'[p].run = r /\ r \in Runs
  <2>1. loc[p] \in Locals
    BY DEF Base, TypeOK
  <2> QED
    BY <1>1, <2>1, LandThere DEF StartLate, Locals, Unmade
<1>3. UNCHANGED <<current, finishing, inflight>> /\ origin \in [Runs -> Runs \cup {NoRun}]
  BY DEF StartLate, setVars, markVars, Base, TypeOK
<1>4. Unmade' = Unmade \ {r}
  BY <1>1, <1>3, RunAssumption DEF Unmade
<1>5. Closing(r)' /\ Lives[r] = "unborn"
  BY <1>1, <1>2, UnbornFree DEF Closing
<1>6. ASSUME NEW x \in Runs \ {r}
      PROVE  Lives'[x] = Lives[x]
  <2>1. Closing(x)' <=> Closing(x)
    <3>1. ClosedBy(p, x)' <=> ClosedBy(p, x)
      BY <1>2, <1>6 DEF ClosedBy, Closes
    <3> QED
      BY <3>1, OthersFinish, StepMoves DEF Step
  <2> QED
    BY <1>3, <1>4, <1>6, <2>1, SameLife DEF Currents
<1>7. Lives'[r] = "closing"
  BY <1>2, <1>4, <1>5 DEF Lives
<1>8. Life!BornLate(r)
  BY <1>2, <1>3, <1>5, <1>6, <1>7, OneMoves DEF Life!BornLate
<1> QED
  BY <1>2, <1>8 DEF Life!LifeNext

\* A claim, what becomes of it, and a claim refused.
LEMMA ClaimImplements ==
  ASSUME Base, ClosingSound, LifeSound, [Next]_vars, ~Stopping, ~Restart,
         NEW p \in Procs, Claiming(p)
  PROVE  Life!LifeNext \/ LivesStutter
<1>1. PICK r \in Made : r = loc[p].job
  <2>1. pc[p] \in FinishPCs /\ Fits(Made, p, pc[p], loc[p])
    BY DEF Claiming, Claim, Dispatch, CallOk, CallErr, FinishPCs, Base, AllFit
  <2> QED
    BY <2>1 DEF Fits
<1>2. /\ UNCHANGED <<current, origin, inflight>> /\ r \in Runs /\ OthersWait(p)
      /\ pc \in [Procs -> PCs] /\ loc \in [Procs -> Locals]
  BY StepMoves DEF Claiming, Claim, Dispatch, CallOk, CallErr, setVars, markVars, bornVars, Made,
                   Base, TypeOK, Step
<1>3. Unmade' = Unmade /\ Currents' = Currents /\ r \notin Unmade
  BY <1>2 DEF Unmade, Currents, Made
\* The other runs live on as before.
<1>4. ASSUME loc'[p] = loc[p] \/ ~Closes(p)', pc'[p] # "discard",
             finishing' \ {r} = finishing \ {r}
      PROVE  \A x \in Runs \ {r} : Lives'[x] = Lives[x]
  <2>1. ASSUME NEW x \in Runs \ {r}
        PROVE  Lives'[x] = Lives[x]
    <3>1. pc[p] # "discard"
      BY DEF Claiming, Claim, Dispatch, CallOk, CallErr
    <3>2. ~ClosedBy(p, x) /\ ~ClosedBy(p, x)'
      BY <1>1, <1>4, <2>1, <3>1 DEF ClosedBy
    <3>3. Closing(x)' <=> Closing(x)
      BY <1>2, <3>2, OthersFinish
    <3> QED
      BY <1>3, <1>4, <2>1, <3>3, SameLife
  <2> QED
    BY <2>1
<1>5. CASE Claim(p) /\ Finishable(r)
  <2>1. /\ pc'[p] \in {"dispatch", "call"} /\ loc'[p] = loc[p]
        /\ finishing' = finishing \cup {r}
        /\ inflight[r] = 0 /\ r \notin finishing /\ r \notin Currents
    BY <1>1, <1>2, <1>5 DEF Claim, To, Finishable
  <2>2. \A x \in Runs \ {r} : Lives'[x] = Lives[x]
    BY <1>4, <2>1
  <2>3. Lives'[r] = "closing"
    <3>1. Closing(r)'
      BY <1>1, <2>1 DEF Closing
    <3> QED
      BY <1>2, <1>3, <3>1 DEF Lives
  <2>4. CASE Closing(r)
    BY <1>2, <1>3, <2>2, <2>3, <2>4, StutterLives DEF Lives
  <2>5. CASE ~Closing(r)
    <3>1. Lives[r] = "retired"
      BY <1>2, <1>3, <2>1, <2>5 DEF Lives
    <3>2. Life!Close(r)
      BY <1>2, <2>1, <2>2, <2>3, <3>1, OneMoves DEF Life!Close
    <3> QED
      BY <1>2, <3>2 DEF Life!LifeNext
  <2> QED
    BY <2>4, <2>5
<1>6. CASE Claim(p) /\ ~Finishable(r)
  <2>1. finishing' = finishing /\ pc'[p] \in Ends /\ pc[p] = "finish"
    <3>1. Back(p) /\ finishing' = finishing /\ pc[p] \in FinishPCs
      BY <1>1, <1>6 DEF Claim, FinishPCs
    <3> QED
      BY <1>6, <3>1, Ending DEF Claim
  <2>2. \A x \in Runs \ {r} : Lives'[x] = Lives[x]
    BY <1>4, <2>1 DEF Closes, Ends
  <2>3. Closing(r)' <=> Closing(r)
    <3>1. ~ClosedBy(p, r) /\ ~ClosedBy(p, r)'
      BY <2>1 DEF ClosedBy, Closes, Ends
    <3> QED
      BY <1>2, <3>1, OthersFinish
  <2> QED
    BY <1>2, <1>3, <2>1, <2>2, <2>3, SameLife, StutterLives
<1>7. CASE Dispatch(p)
  <2>1. finishing' = finishing /\ pc'[p] = "call" /\ pc[p] = "dispatch" /\ loc'[p] = loc[p]
    BY <1>7, Path DEF Dispatch, markVars
  <2>2. \A x \in Runs \ {r} : Lives'[x] = Lives[x]
    BY <1>4, <2>1
  <2>3. Closing(r)' <=> Closing(r)
    BY <1>1, <2>1 DEF Closing
  <2> QED
    BY <1>2, <1>3, <2>1, <2>2, <2>3, SameLife, StutterLives
<1>8. CASE CallOk(p) \/ CallErr(p)
  <2>1. /\ pc[p] = "call" /\ pc'[p] \in Ends
        /\ finishing' = finishing \/ finishing' = finishing \ {r}
    BY <1>1, <1>8, Path DEF CallOk, CallErr, markVars
  <2>2. \A x \in Runs \ {r} : Lives'[x] = Lives[x]
    BY <1>4, <2>1 DEF Closes, Ends
  <2>3. Closes(p) /\ Closing(r) /\ r \notin Currents
    BY <1>1, <2>1 DEF Closing, Closes, ClosingSound
  <2>4. Lives[r] = "closing" /\ Lives'[r] \in {"closing", "ended", "retired"}
    BY <1>2, <1>3, <2>3 DEF Lives
  <2> QED
    BY <1>2, <2>2, <2>4, ClosedLives
<1> QED
  BY <1>1, <1>5, <1>6, <1>7, <1>8 DEF Claiming

\* The late START is given back.
LEMMA DiscardImplements ==
  ASSUME Base, LifeSound, [Next]_vars, ~Stopping, ~Restart, NEW p \in Procs, Discard(p)
  PROVE  Life!LifeNext \/ LivesStutter
<1>1. PICK r \in Made : r = loc[p].run
  BY DEF Discard, Base, AllFit, Fits
<1>2. /\ UNCHANGED <<current, origin, inflight, finishing>> /\ r \in Runs /\ OthersWait(p)
      /\ pc[p] = "discard" /\ pc'[p] \in Ends
  BY StepMoves, Path DEF Discard, markVars, bornVars, Made, Step
<1>3. Unmade' = Unmade /\ Currents' = Currents /\ r \notin Unmade
  BY <1>2 DEF Unmade, Currents, Made
<1>4. ASSUME NEW x \in Runs \ {r}
      PROVE  Lives'[x] = Lives[x]
  <2>1. ~ClosedBy(p, x) /\ ~ClosedBy(p, x)'
    BY <1>1, <1>2, <1>4 DEF ClosedBy, Closes, Ends
  <2>2. Closing(x)' <=> Closing(x)
    BY <1>2, <2>1, OthersFinish
  <2> QED
    BY <1>2, <1>3, <1>4, <2>2, SameLife
<1>5. Closing(r) /\ r \notin Currents
  BY <1>1, <1>2 DEF Closing, LifeSound
<1>6. Lives[r] = "closing" /\ Lives'[r] \in {"closing", "ended", "retired"}
  BY <1>2, <1>3, <1>5 DEF Lives
<1> QED
  BY <1>2, <1>4, <1>6, ClosedLives

\* The shutdown claims what is left, and finishes it.
LEMMA StopImplements ==
  ASSUME Base, ClosingSound, LifeSound, ~Persist, [Next]_vars, Stopping
  PROVE  Life!LifeNext \/ LivesStutter
<1>1. /\ OthersStay(Stopper) /\ Stopper \in Procs
      /\ pc \in [Procs -> PCs] /\ loc \in [Procs -> Locals]
      /\ \A s, l : To(Stopper, s, l) => pc'[Stopper] = s /\ loc'[Stopper] = l
      /\ pc[Stopper] \in {"rest", "flagged", "waiting", "save", "last"}
      /\ pc'[Stopper] \in {"flagged", "waiting", "save", "last", "done"}
  BY ShutdownKeeps, BackgroundPath DEF Stopping, Procs, Base, TypeOK, To
<1>2. UNCHANGED <<origin, inflight>>
  BY DEF Stopping, ShutdownBegin, ShutdownStop, ShutdownClaim, ShutdownSave, ShutdownLast, markVars,
         bornVars
<1>3. Unmade' = Unmade
  BY <1>2 DEF Unmade
<1>4. \A q \in Procs : \A x : ClosedBy(q, x)' <=> ClosedBy(q, x)
  BY <1>1 DEF OthersStay, ClosedBy, Closes
\* Only the agenda of the shutdown makes a difference.
<1>5. ASSUME NEW x, x \in loc'[Stopper].todo <=> x \in loc[Stopper].todo
      PROVE  Closing(x)' <=> Closing(x)
  BY <1>4, <1>5 DEF Closing, ClosedBy, Closes
<1>6. ASSUME UNCHANGED <<current, finishing>>, loc'[Stopper].todo = loc[Stopper].todo
      PROVE  LivesStutter
  <2>1. \A x \in Runs : Lives'[x] = Lives[x]
    BY <1>3, <1>5, <1>6, SameLife DEF Currents
  <2> QED
    BY <1>2, <2>1, StutterLives
<1>7. CASE ShutdownBegin \/ ShutdownStop
  <2>1. pc[Stopper] \in {"rest", "flagged"} /\ loc'[Stopper] = NoLoc(Stopper)
    BY <1>1, <1>7 DEF ShutdownBegin, ShutdownStop
  <2>2. loc[Stopper].todo = {} /\ loc'[Stopper].todo = {}
    BY <2>1 DEF LifeSound, NoLoc
  <2> QED
    BY <1>6, <1>7, <2>2 DEF ShutdownBegin, ShutdownStop, setVars, markVars
<1>8. CASE ShutdownSave
  <2>1. \A r : [loc[Stopper] EXCEPT !.plan = @ \ {r}].todo = loc[Stopper].todo
    BY <1>1 DEF Locals
  <2>2. loc'[Stopper].todo = loc[Stopper].todo
    BY ZenonT(60), <1>1, <1>8, <2>1 DEF ShutdownSave
  <2> QED
    BY <1>6, <1>8, <2>2 DEF ShutdownSave, setVars, markVars
<1>9. CASE ShutdownClaim
  <2> DEFINE S == Unfinished \ finishing
  <2>1. /\ pc[Stopper] = "waiting" /\ finishing' = finishing \cup Unfinished
        /\ loc'[Stopper] = [NoLoc(Stopper) EXCEPT !.todo = S]
        /\ current' = [a \in Agents |-> NoRun]
    BY <1>1, <1>9 DEF ShutdownClaim
  <2>2. loc[Stopper].todo = {} /\ loc'[Stopper].todo = S
    BY <2>1 DEF LifeSound, NoLoc
  <2>3. Currents' = {}
    BY <2>1 DEF Currents
  <2>4. S \subseteq Made
    BY DEF Unfinished, Base, MadeSound, Currents
  <2>5. ASSUME NEW x \in Runs
        PROVE  Lives'[x] = IF x \in S /\ Lives[x] \in {"open", "retired"} THEN "closing" ELSE Lives[x]
    <3>1. CASE x \in S
      <4>1. Closing(x)' /\ x \notin Unmade /\ x \notin finishing
        BY <2>2, <2>4, <3>1 DEF Closing, Made, Unmade
      <4>2. Lives'[x] = "closing" /\ Lives[x] \in {"closing", "open", "retired"}
        BY <1>3, <4>1 DEF Lives
      <4> QED
        BY <3>1, <4>2
    <3>2. CASE x \notin S
      <4>1. Closing(x)' <=> Closing(x)
        BY <1>5, <2>2, <3>2
      <4>2. (x \in finishing' <=> x \in finishing) /\ x \notin Currents
        BY <2>1, <3>2 DEF Unfinished, LifeSound
      <4> QED
        BY <1>3, <2>3, <3>2, <4>1, <4>2, SameLife
    <3> QED
      BY <3>1, <3>2
  <2>6. \A x \in Runs : Lives'[x] # "open"
    BY <2>3 DEF Lives
  <2>7. Lives' = [x \in Runs |-> IF x \in S /\ Lives[x] \in {"open", "retired"} THEN "closing"
                                 ELSE Lives[x]]
    BY <2>5 DEF Lives
  <2>8. S \in SUBSET Runs
    BY <2>4 DEF Made
  <2>9. Life!CloseSome
    <3> HIDE DEF S
    <3> QED
      BY <1>2, <2>6, <2>7, <2>8 DEF Life!CloseSome
  <2> QED
    BY <2>9 DEF Life!LifeNext
<1>10. CASE ShutdownLast
  <2>1. pc[Stopper] = "last" /\ UNCHANGED <<current, finishing>>
    BY <1>10 DEF ShutdownLast, setVars, markVars
  <2>2. CASE loc[Stopper].todo = {}
    <3>1. loc'[Stopper].todo = {}
      BY <1>1, <1>10, <2>2 DEF ShutdownLast, NoLoc
    <3> QED
      BY <1>6, <2>1, <2>2, <3>1
  <2>3. CASE loc[Stopper].todo # {}
    <3>1. PICK r \in loc[Stopper].todo : loc'[Stopper] = [loc[Stopper] EXCEPT !.todo = @ \ {r}]
      BY <1>1, <1>10, <2>3 DEF ShutdownLast
    <3>2. loc'[Stopper].todo = loc[Stopper].todo \ {r}
      BY <1>1, <3>1 DEF Locals
    <3>3. r \in Runs /\ r \in finishing /\ r \notin Currents /\ r \notin Unmade /\ Closing(r)
      <4>1. r \in finishing
        BY <2>1, <3>1 DEF ClosingSound
      <4> QED
        BY <3>1, <4>1 DEF LifeSound, Closing, Base, MadeSound, Made, Unmade
    <3>4. Currents' = Currents
      BY <2>1 DEF Currents
    <3>5. \A x \in Runs \ {r} : Lives'[x] = Lives[x]
      BY <1>3, <1>5, <2>1, <3>2, <3>4, SameLife
    <3>6. Lives[r] = "closing" /\ Lives'[r] \in {"closing", "ended"}
      BY <1>3, <2>1, <3>3 DEF Lives
    <3> QED
      BY <1>2, <3>3, <3>5, <3>6, ClosedLives
  <2> QED
    BY <2>2, <2>3
<1> QED
  BY <1>7, <1>8, <1>9, <1>10 DEF Stopping

\* The steps that say nothing about the life of a run.
LEMMA RestImplements ==
  ASSUME Base, [Next]_vars, ~Stopping, ~Restart, ~FinishAllRuns, ~Invalidates,
         \A p \in Procs : /\ ~Claiming(p) /\ ~Discard(p) /\ ~StartLate(p) /\ ~Adopt(p) /\ ~StartOk(p)
                          /\ ~Lease(p) /\ ~Release(p) /\ ~ReleaseAbandoned(p)
  PROVE  LivesStutter
<1>1. finishing' = finishing /\ \A x : Closing(x)' <=> Closing(x)
  BY ClosingStays
<1>2. UNCHANGED <<current, origin, inflight>>
  <2>1. ASSUME NEW p \in Procs, Step(p) \/ Cancelled(p)
        PROVE  UNCHANGED <<current, origin, inflight>>
    <3>1. CASE Check(p) \/ Cancelled(p) \/ Mark(p) \/ Send(p)
      BY <3>1 DEF Check, Cancelled, Mark, Send, setVars, markVars, bornVars
    <3>2. CASE \/ RotateRefused(p) \/ RotateNotNeeded(p) \/ RotateWait(p) \/ RotateLead(p)
               \/ Lookup(p) \/ Purge(p) \/ PersistNew(p) \/ AdoptRefused(p) \/ StartErr(p)
      BY <3>2 DEF RotateRefused, RotateNotNeeded, RotateWait, RotateLead, Lookup, Purge, PersistNew,
                  AdoptRefused, StartErr, setVars, markVars, bornVars
    <3> QED
      BY <2>1, <3>1, <3>2 DEF Step, Claiming, Invalidates
  <2>2. CASE \/ \E c \in Callers, a \in Agents : Acquire(c, a)
             \/ \E p \in Callers \cup {Maint}, a \in Agents : Precreate(p, a)
             \/ UNCHANGED vars
             \/ ToggleCooling \/ \E x \in Runs : GrowOld(x) \/ Gone(x)
             \/ WorkerTake \/ WorkerExit \/ MaintainTurn \/ FinishEach \/ Maintain
    BY <2>2 DEF Acquire, Precreate, vars, ToggleCooling, GrowOld, Gone, WorkerTake, WorkerExit,
                MaintainTurn, FinishEach, Maintain, setVars, markVars, bornVars
  <2> QED
    BY <2>1, <2>2 DEF Next, Env, Background, Stopping
<1>3. Unmade' = Unmade /\ Currents' = Currents
  BY <1>2 DEF Unmade, Currents
<1> QED
  BY <1>1, <1>2, <1>3, SameLife, StutterLives

LEMMA NextImplements ==
  ASSUME Base, ClosingSound, LifeSound, LeaseCount, ~Persist, "crash" \notin EnvOps, [Next]_vars
  PROVE  [Life!LifeNext]_(Life!lifeVars)
<1> SUFFICES Life!LifeNext \/ LivesStutter
  <2>1. LivesStutter => UNCHANGED Life!lifeVars
    BY DEF LivesStutter, Life!lifeVars
  <2> QED
    BY <2>1
<1>1. ~Restart
  BY DEF Restart
<1>2. CASE Stopping
  BY <1>2, StopImplements
<1>3. ASSUME ~Stopping, NEW p \in Procs, Claiming(p) \/ Discard(p) \/ StartLate(p)
      PROVE  Life!LifeNext \/ LivesStutter
  BY <1>1, <1>3, ClaimImplements, DiscardImplements, BornLateImplements
<1>4. CASE ~Stopping /\ \A p \in Procs : ~Claiming(p) /\ ~Discard(p) /\ ~StartLate(p)
  <2>1. finishing' = finishing /\ \A x \in Runs : Closing(x)' <=> Closing(x)
    BY <1>1, <1>4, ClosingStays
  <2>2. ASSUME NEW p \in Procs,
               Adopt(p) \/ StartOk(p) \/ Lease(p) \/ Release(p) \/ ReleaseAbandoned(p)
        PROVE  Life!LifeNext \/ LivesStutter
    BY <2>1, <2>2, OpenImplements, LeaseImplements, ReleaseImplements
  <2>3. CASE Invalidates \/ FinishAllRuns
    BY <2>1, <2>3, RetireImplements
  <2> QED
    BY <1>1, <1>4, <2>2, <2>3, RestImplements
<1> QED
  BY <1>2, <1>3, <1>4

\* Without a store, and as long as the process lives, single flight, leases, the
\* draining list, the queue and the shutdown together keep the life cycle of
\* every run: it is leased only while it is current, it is FINISHed with no lease
\* out and by one caller, and after a FINISH it is never leased nor FINISHed
\* again (steps.go:83-89, drain.go:322-338).
THEOREM LivesOnce ==
  ASSUME ~Persist, "crash" \notin EnvOps
  PROVE  Spec => RunsLiveOnce
<1>1. Init => LifeSound
  BY ProcsDiffer DEF Init, LifeSound, Home, NoLoc, Procs
<1>2. Base /\ LifeSound /\ [Next]_vars => LifeSound'
  BY LifeSoundStep
<1>3. Init => Life!LifeInit
  <2>1. SUFFICES ASSUME Init PROVE Life!LifeInit
    OBVIOUS
  <2>2. Unmade = Runs
    BY <2>1 DEF Init, Unmade
  <2> QED
    BY <2>1, <2>2 DEF Init, Life!LifeInit, Lives
<1>4. Base /\ ClosingSound /\ LifeSound /\ LeaseCount /\ [Next]_vars => [Life!LifeNext]_(Life!lifeVars)
  BY NextImplements
<1> QED
  BY <1>1, <1>2, <1>3, <1>4, BaseInvariant, ClosingInvariant, LeasesCounted, PTL
     DEF Spec, RunsLiveOnce, Life!LifeSpec
=============================================================================
