------------------------------ MODULE RunManager ------------------------------
(***************************************************************************)
(* The agent runs of one account (runs/runs.go, drain.go, steps.go): lazy  *)
(* START under a single flight per agent, rotation of aged runs, leases,   *)
(* the draining list, FINISH through a bounded queue with one worker and   *)
(* an inline fallback, shutdown, and the records that let the next process *)
(* resume a run.                                                           *)
(*                                                                         *)
(* A process is a goroutine that calls the manager.  A step is one critical *)
(* section of its mutex, one call of the store, or one upstream call.      *)
(***************************************************************************)
EXTENDS Naturals, Sequences, FiniteSets

CONSTANTS
  Runs,      \* the Run objects that may ever be made; none left: START refused
  Agents,    \* the agents the registry maps models to
  Callers,   \* requests: Acquire, then Release or ReleaseAbandoned
  Maint,     \* the maintenance goroutine of the pool
  Drainer,   \* whoever calls FinishAllRuns (idle pool, removed account)
  Worker,    \* finishLoop
  Stopper,   \* the goroutine that calls Shutdown
  NoRun, NoAgent, NoProc,
  QueueSize, \* RUN_FINISH_QUEUE_SIZE
  DrainCap,  \* RUNS_DRAIN_QUEUE_CAP
  Persist,   \* SESSION_PERSIST: a store is attached
  EnvOps     \* the outside events that may happen

AllEnvOps == {"precreate", "maintain", "age", "cool", "cancel", "ttl", "err", "gone",
              "drain", "shutdown", "deadline", "crash"}

Procs == Callers \cup {Maint, Drainer, Worker, Stopper}

ASSUME RunAssumption ==
  /\ NoRun \notin Runs /\ NoAgent \notin Agents /\ NoProc \notin Procs
  /\ IsFiniteSet(Runs) /\ IsFiniteSet(Callers)
  /\ Cardinality({Maint, Drainer, Worker, Stopper}) = 4
  /\ {Maint, Drainer, Worker, Stopper} \cap Callers = {}
  /\ QueueSize \in Nat \ {0} /\ DrainCap \in Nat \ {0}
  /\ Persist \in BOOLEAN
  /\ EnvOps \subseteq AllEnvOps

VARIABLES
  current,   \* [Agents -> Runs]: RunManager.runs
  flight,    \* [Agents -> Procs]: RunManager.starting, by its leader
  draining,  \* RunManager.draining; the list order only says which is newest
  inflight,  \* [Runs -> Nat]: leases outstanding
  finishing, \* runs with a FINISH in flight
  queued,    \* runs marked as queued for FINISH
  jobs,      \* finishQueue
  stopping,  \* shuttingDown
  cooling,   \* the account cools down, bans included
  origin,    \* [Runs -> Runs]: the run whose upstream id an object carries
  agentOf,   \* [Runs -> Agents]
  aged,      \* runs past the rotation interval, by their upstream id
  up,        \* [Runs -> {"none", "running", "ended"}]: what upstream knows
  record,    \* [Agents -> Runs]: the persisted run
  dropped,   \* history: runs the manager let go on purpose, without FINISH
  pc, loc    \* where each process is, and its locals

setVars   == <<current, draining, dropped>>
markVars  == <<inflight, finishing, queued>>
bornVars  == <<origin, agentOf>>
outerVars == <<aged, cooling>>
vars == <<current, flight, draining, inflight, finishing, queued, jobs, stopping,
          cooling, origin, agentOf, aged, up, record, dropped, pc, loc>>

\* The states of a process between two of its steps.
RotatePCs == {"rotate", "await", "lookup", "purge", "adopt", "start", "discard", "persist"}
FinishPCs == {"mark", "send", "finish", "dispatch", "call"}
PCs == RotatePCs \cup FinishPCs \cup
       {"idle", "check", "lease", "leased", "invalid", \* callers
        "rest", "turn", "each",                  \* maintenance, FinishAllRuns
        "work", "exited",                        \* worker
        "flagged", "waiting", "save", "last", "done"} \* shutdown

\* agent: whose run is rotated; run: leased, fresh or looked up; job: the run
\* to FINISH; ret: where to go on; plan, todo: what a loop still has to visit.
Locals == [agent : Agents \cup {NoAgent}, run : Runs \cup {NoRun},
           job : Runs \cup {NoRun}, ret : PCs, plan : SUBSET Runs, todo : SUBSET Runs]

Home(p) == IF p \in Callers THEN "idle" ELSE IF p = Worker THEN "work" ELSE "rest"
NoLoc(p) == [agent |-> NoAgent, run |-> NoRun, job |-> NoRun, ret |-> Home(p),
             plan |-> {}, todo |-> {}]

\* Every variable has its type; an object that was made has an agent.
TypeOK ==
  /\ current \in [Agents -> Runs \cup {NoRun}]
  /\ flight \in [Agents -> Procs \cup {NoProc}]
  /\ draining \subseteq Runs
  /\ inflight \in [Runs -> Nat]
  /\ finishing \subseteq Runs
  /\ queued \subseteq Runs
  /\ jobs \in Seq(Runs)
  /\ stopping \in BOOLEAN
  /\ cooling \in BOOLEAN
  /\ origin \in [Runs -> Runs \cup {NoRun}]
  /\ agentOf \in [Runs -> Agents \cup {NoAgent}]
  /\ aged \subseteq Runs
  /\ up \in [Runs -> {"none", "running", "ended"}]
  /\ record \in [Agents -> Runs \cup {NoRun}]
  /\ dropped \subseteq Runs
  /\ pc \in [Procs -> PCs]
  /\ loc \in [Procs -> Locals]

Init ==
  /\ current = [a \in Agents |-> NoRun]
  /\ flight = [a \in Agents |-> NoProc]
  /\ draining = {}
  /\ inflight = [r \in Runs |-> 0]
  /\ finishing = {}
  /\ queued = {}
  /\ jobs = <<>>
  /\ stopping = FALSE
  /\ cooling = FALSE
  /\ origin = [r \in Runs |-> NoRun]
  /\ agentOf = [r \in Runs |-> NoAgent]
  /\ aged = {}
  /\ up = [r \in Runs |-> "none"]
  /\ record = [a \in Agents |-> NoRun]
  /\ dropped = {}
  /\ pc = [p \in Procs |-> Home(p)]
  /\ loc = [p \in Procs |-> NoLoc(p)]

-----------------------------------------------------------------------------
(* Reads and moves.                                                         *)

Unmade == {r \in Runs : origin[r] = NoRun}
Currents == {current[a] : a \in Agents} \ {NoRun}
Jobs == {jobs[i] : i \in DOMAIN jobs}

\* The current run of the agent exists and is younger than the interval.
Fresh(a) == current[a] # NoRun /\ origin[current[a]] \notin aged

To(p, state, l) == pc' = [pc EXCEPT ![p] = state] /\ loc' = [loc EXCEPT ![p] = l]

\* The call in progress is over; a loop keeps its agenda.
Back(p) == To(p, loc[p].ret,
              IF loc[p].ret = Home(p) THEN NoLoc(p)
              ELSE [loc[p] EXCEPT !.job = NoRun, !.run = NoRun])

\* A failed rotation: an error for a caller, a log line for Maintain.
FailPc(p) == IF p \in Callers THEN "idle" ELSE loc[p].ret
FailLoc(p) == IF FailPc(p) = Home(p) THEN NoLoc(p)
              ELSE [loc[p] EXCEPT !.job = NoRun, !.run = NoRun]
Fail(p) == To(p, FailPc(p), FailLoc(p))

\* The draining list becomes base plus as many of new as the cap admits: the
\* overflow that pruneDrainingLocked cuts off is the newest.  Entries past
\* DrainTTL go too; how long one has been there is not modelled.
DrainTo(base, new) ==
  \E late \in SUBSET (IF "ttl" \in EnvOps THEN base ELSE {}) : \E in \in SUBSET new :
    LET kept == (base \ late) \cup in
    IN /\ Cardinality(kept) <= DrainCap
       /\ in = new \/ Cardinality(kept) = DrainCap
       /\ draining' = kept
       /\ dropped' = dropped \cup late \cup (new \ in)

\* appendDrainingLocked.
AppendDraining(r) == IF r \in draining THEN UNCHANGED <<draining, dropped>>
                     ELSE DrainTo(draining, {r})

-----------------------------------------------------------------------------
(* Acquire and rotate.                                                      *)

Acquire(c, a) ==
  /\ pc[c] = "idle"
  /\ To(c, "check", [NoLoc(c) EXCEPT !.agent = a, !.ret = "lease"])
  /\ UNCHANGED <<setVars, markVars, bornVars, outerVars, flight, jobs, stopping, up, record>>

\* Precreate, by a request that has admitted a session and by Maintain.
Precreate(p, a) ==
  /\ "precreate" \in EnvOps
  /\ pc[p] = Home(p)
  /\ p = Maint => pc[Stopper] = "rest"
  /\ ~Fresh(a)
  /\ To(p, "rotate", [NoLoc(p) EXCEPT !.agent = a])
  /\ UNCHANGED <<setVars, markVars, bornVars, outerVars, flight, jobs, stopping, up, record>>

\* The first critical section of Acquire's loop.
Check(c) ==
  /\ pc[c] = "check"
  /\ IF cooling THEN Fail(c)
     ELSE To(c, IF Fresh(loc[c].agent) THEN "lease" ELSE "rotate", loc[c])
  /\ UNCHANGED <<setVars, markVars, bornVars, outerVars, flight, jobs, stopping, up, record>>

\* Mutant of Leased: a flag instead of a count.
LeasedFlag(r) == [inflight EXCEPT ![r] = 1]

Leased(r) == [inflight EXCEPT ![r] = @ + 1]

\* The second: the lease points at whatever run is current now, or, when a
\* drain has cleared it, the loop starts over.
Lease(c) ==
  /\ pc[c] = "lease"
  /\ LET r == current[loc[c].agent]
     IN IF r = NoRun
        THEN /\ To(c, "check", loc[c])
             /\ UNCHANGED inflight
        ELSE /\ To(c, "leased", [NoLoc(c) EXCEPT !.run = r])
             /\ inflight' = Leased(r)
  /\ UNCHANGED <<setVars, finishing, queued, bornVars, outerVars, flight, jobs, stopping,
                 up, record>>

\* The ctx ends at the top of the loops, or while waiting for a flight.
Cancelled(p) ==
  /\ "cancel" \in EnvOps
  /\ pc[p] \in {"check", "rotate", "await"}
  /\ Fail(p)
  /\ UNCHANGED <<setVars, markVars, bornVars, outerVars, flight, jobs, stopping, up, record>>

\* There is an object for each flight to come home with.  RoomBound stands for
\* an upstream that refuses the START.
RoomBound == Cardinality({a \in Agents : flight[a] # NoProc}) < Cardinality(Unmade)

RotateRefused(p) ==
  /\ pc[p] = "rotate"
  /\ stopping \/ cooling \/ ~RoomBound
  /\ Fail(p)
  /\ UNCHANGED <<setVars, markVars, bornVars, outerVars, flight, jobs, stopping, up, record>>

\* A concurrent rotator has refreshed the run already.
RotateNotNeeded(p) ==
  /\ pc[p] = "rotate"
  /\ ~stopping /\ ~cooling
  /\ Fresh(loc[p].agent)
  /\ Back(p)
  /\ UNCHANGED <<setVars, markVars, bornVars, outerVars, flight, jobs, stopping, up, record>>

\* Mutant of MayLead: a flight in progress does not stop a second one.
MayLeadAnyway(p) == ~Fresh(loc[p].agent)

MayLead(p) == ~Fresh(loc[p].agent) /\ flight[loc[p].agent] = NoProc

RotateWait(p) ==
  /\ pc[p] = "rotate"
  /\ ~stopping /\ ~cooling
  /\ ~Fresh(loc[p].agent)
  /\ flight[loc[p].agent] # NoProc
  /\ To(p, "await", loc[p])
  /\ UNCHANGED <<setVars, markVars, bornVars, outerVars, flight, jobs, stopping, up, record>>

RotateLead(p) ==
  /\ pc[p] = "rotate"
  /\ ~stopping /\ ~cooling /\ RoomBound
  /\ MayLead(p)
  /\ flight' = [flight EXCEPT ![loc[p].agent] = p]
  /\ To(p, IF Persist THEN "lookup" ELSE "start", loc[p])
  /\ UNCHANGED <<setVars, markVars, bornVars, outerVars, jobs, stopping, up, record>>

Waits(p, q) == pc[q] = "await" /\ loc[q].agent = loc[p].agent /\ q # p

\* The flight lands: its leader goes to (state, l), the waiters to wake.
Land(p, state, l, wake) ==
  /\ flight' = [flight EXCEPT ![loc[p].agent] = NoProc]
  /\ pc' = [q \in Procs |-> CASE q = p -> state
                              [] Waits(p, q) /\ wake = "ok" -> loc[q].ret
                              [] Waits(p, q) /\ wake = "err" -> FailPc(q)
                              [] Waits(p, q) /\ wake = "retry" -> "rotate"
                              [] OTHER -> pc[q]]
  /\ loc' = [q \in Procs |-> CASE q = p -> l
                               [] Waits(p, q) /\ wake = "ok" /\ loc[q].ret = Home(q) -> NoLoc(q)
                               [] Waits(p, q) /\ wake = "err" -> FailLoc(q)
                               [] OTHER -> loc[q]]

\* Mutant of Adoptable: a record is adopted however old it is.
AdoptableAged(r) == r # NoRun

Adoptable(r) == r # NoRun /\ r \notin aged

\* LoadRun: a record within the interval may be adopted, an older one goes.
Lookup(p) ==
  /\ pc[p] = "lookup"
  /\ LET r == record[loc[p].agent]
     IN To(p, IF Adoptable(r) THEN "adopt" ELSE IF r = NoRun THEN "start" ELSE "purge",
           [loc[p] EXCEPT !.run = r])
  /\ UNCHANGED <<setVars, markVars, bornVars, outerVars, flight, jobs, stopping, up, record>>

Purge(p) ==
  /\ pc[p] = "purge"
  /\ record' = [record EXCEPT ![loc[p].agent] = NoRun]
  /\ To(p, "start", [loc[p] EXCEPT !.run = NoRun])
  /\ UNCHANGED <<setVars, markVars, bornVars, outerVars, flight, jobs, stopping, up>>

\* The new object r becomes current; the run it replaces starts draining.
Install(p, r, from) ==
  LET a == loc[p].agent
      old == current[a]
  IN /\ r \in Unmade
     /\ origin' = [origin EXCEPT ![r] = from]
     /\ agentOf' = [agentOf EXCEPT ![r] = a]
     /\ current' = [current EXCEPT ![a] = r]
     /\ IF old = NoRun THEN UNCHANGED <<draining, dropped>> ELSE AppendDraining(old)

\* Mutant of AfterInstall: the replaced run is queued even when there is none.
AfterInstallUnchecked(p) == "mark"

\* Where a rotation goes on once its new run is in place.
AfterInstall(p) == IF current[loc[p].agent] = NoRun THEN loc[p].ret ELSE "mark"
AfterInstallLoc(p) ==
  IF AfterInstall(p) = Home(p) THEN NoLoc(p)
  ELSE [loc[p] EXCEPT !.run = NoRun, !.job = current[loc[p].agent]]

AdoptRefused(p) ==
  /\ pc[p] = "adopt"
  /\ stopping
  /\ Land(p, FailPc(p), FailLoc(p), "err")
  /\ UNCHANGED <<setVars, markVars, bornVars, outerVars, jobs, stopping, up, record>>

\* The persisted run is resumed as a new object with the old upstream id.
Adopt(p) ==
  /\ pc[p] = "adopt"
  /\ ~stopping
  /\ \E r \in Runs : Install(p, r, loc[p].run)
  /\ Land(p, AfterInstall(p), AfterInstallLoc(p), "ok")
  /\ UNCHANGED <<markVars, outerVars, jobs, stopping, up, record>>

\* StartRun fails.  When it failed because the leader's own ctx ended, the
\* waiters try for themselves.
StartErr(p) ==
  /\ pc[p] = "start"
  /\ "err" \in EnvOps
  /\ \E wake \in {"err", "retry"} : Land(p, FailPc(p), FailLoc(p), wake)
  /\ UNCHANGED <<setVars, markVars, bornVars, outerVars, jobs, stopping, up, record>>

\* Mutant of Discards: the flag is not looked at again after the START.
DiscardsNever(p) == FALSE

\* Shutdown began while the START was in flight.
Discards(p) == stopping

StartOk(p) ==
  /\ pc[p] = "start"
  /\ ~Discards(p)
  /\ \E r \in Runs :
       /\ Install(p, r, r)
       /\ up' = [up EXCEPT ![r] = "running"]
       /\ IF Persist
          THEN Land(p, "persist", [loc[p] EXCEPT !.run = r, !.job = current[loc[p].agent]], "ok")
          ELSE Land(p, AfterInstall(p), AfterInstallLoc(p), "ok")
  /\ UNCHANGED <<markVars, outerVars, jobs, stopping, record>>

\* The run is not tracked; its waiters are told that all went well, and find
\* no run.
StartLate(p) ==
  /\ pc[p] = "start"
  /\ Discards(p)
  /\ \E r \in Unmade :
       /\ origin' = [origin EXCEPT ![r] = r]
       /\ agentOf' = [agentOf EXCEPT ![r] = loc[p].agent]
       /\ up' = [up EXCEPT ![r] = "running"]
       /\ Land(p, "discard", [loc[p] EXCEPT !.run = r], "ok")
  /\ UNCHANGED <<setVars, markVars, outerVars, jobs, stopping, record>>

\* finishInline, best effort.
Discard(p) ==
  /\ pc[p] = "discard"
  /\ \/ up' = [up EXCEPT ![loc[p].run] = "ended"]
     \/ "err" \in EnvOps /\ UNCHANGED up
  /\ dropped' = dropped \cup {loc[p].run}
  /\ Fail(p)
  /\ UNCHANGED <<current, draining, markVars, bornVars, outerVars, flight, jobs, stopping, record>>

\* persistRun of the new run, after the mutex was let go.
PersistNew(p) ==
  /\ pc[p] = "persist"
  /\ record' = [record EXCEPT ![loc[p].agent] = loc[p].run]
  /\ IF loc[p].job = NoRun THEN Back(p)
     ELSE To(p, "mark", [loc[p] EXCEPT !.run = NoRun])
  /\ UNCHANGED <<setVars, markVars, bornVars, outerVars, flight, jobs, stopping, up>>

-----------------------------------------------------------------------------
(* Release, ReleaseAbandoned, Invalidate.                                   *)

\* The run is dropped from the active set, if it is still there.
Detach(r) ==
  current' = [a \in Agents |-> IF current[a] = r THEN NoRun ELSE current[a]]

\* Mutant of ReleaseDetaches: a drained run stays current after its last lease.
ReleaseDetachesNot(r) == UNCHANGED current
ReleaseDetaches(r) == Detach(r)

\* The leases left after a release.
Left(r) == IF inflight[r] > 0 THEN inflight[r] - 1 ELSE 0

\* Mutant of LastOfDraining: the last release leaves the FINISH to others.
LastOfDrainingNever(r) == FALSE

LastOfDraining(r) == Left(r) = 0 /\ r \in draining

\* Release; the last lease of a draining run queues its FINISH.  A caller whose
\* run upstream no longer knows goes on to invalidate "the" run of the agent.
Release(c) ==
  /\ pc[c] = "leased"
  /\ \E refused \in {FALSE, up[origin[loc[c].run]] = "ended"} :
       LET r == loc[c].run
           l == IF refused THEN [NoLoc(c) EXCEPT !.agent = agentOf[r], !.ret = "invalid"]
                ELSE NoLoc(c)
       IN /\ inflight' = [inflight EXCEPT ![r] = Left(r)]
          /\ IF LastOfDraining(r)
             THEN ReleaseDetaches(r) /\ To(c, "mark", [l EXCEPT !.job = r])
             ELSE UNCHANGED current /\ To(c, l.ret, l)
  /\ UNCHANGED <<draining, dropped, finishing, queued, bornVars, outerVars, flight, jobs,
                 stopping, up, record>>

\* The last lease of a current run was abandoned: no new lease, FINISH.
ReleaseAbandoned(c) ==
  /\ pc[c] = "leased"
  /\ LET r == loc[c].run
     IN /\ inflight' = [inflight EXCEPT ![r] = Left(r)]
        /\ IF Left(r) = 0 /\ r \in Currents
           THEN Detach(r) /\ AppendDraining(r)
           ELSE UNCHANGED setVars
        /\ IF Left(r) = 0
           THEN To(c, "mark", [NoLoc(c) EXCEPT !.job = r])
           ELSE To(c, "idle", NoLoc(c))
  /\ UNCHANGED <<finishing, queued, bornVars, outerVars, flight, jobs, stopping, up, record>>

\* Invalidate takes the run that is current now, which is not finished.
Invalidate(c) ==
  /\ pc[c] = "invalid"
  /\ LET a == loc[c].agent
     IN /\ dropped' = dropped \cup ({current[a]} \ {NoRun})
        /\ current' = [current EXCEPT ![a] = NoRun]
        /\ record' = [record EXCEPT ![a] = NoRun]
  /\ To(c, "idle", NoLoc(c))
  /\ UNCHANGED <<draining, markVars, bornVars, outerVars, flight, jobs, stopping, up>>

-----------------------------------------------------------------------------
(* FINISH: enqueueFinish, enqueue, finishIfReadyCtx.                        *)

Mark(p) ==
  /\ pc[p] = "mark"
  /\ IF loc[p].job \in queued
     THEN Back(p) /\ UNCHANGED queued
     ELSE /\ queued' = queued \cup {loc[p].job}
          /\ To(p, "send", loc[p])
  /\ UNCHANGED <<setVars, inflight, finishing, bornVars, outerVars, flight, jobs, stopping,
                 up, record>>

\* A full queue makes the caller run the job itself.
Send(p) ==
  /\ pc[p] = "send"
  /\ IF Len(jobs) < QueueSize
     THEN jobs' = Append(jobs, loc[p].job) /\ Back(p)
     ELSE UNCHANGED jobs /\ To(p, "finish", loc[p])
  /\ UNCHANGED <<setVars, markVars, bornVars, outerVars, flight, stopping, up, record>>

\* Mutants of Finishable: a leased run, or one that is being finished already,
\* is finished.
FinishableLeased(r) == r \notin finishing /\ r \notin Currents
FinishableTwice(r) == inflight[r] = 0 /\ r \notin Currents

Finishable(r) == inflight[r] = 0 /\ r \notin finishing /\ r \notin Currents

Claim(p) ==
  /\ pc[p] = "finish"
  /\ queued' = queued \ {loc[p].job}
  /\ IF Finishable(loc[p].job)
     THEN /\ finishing' = finishing \cup {loc[p].job}
          /\ To(p, IF Persist THEN "dispatch" ELSE "call", loc[p])
     ELSE Back(p) /\ UNCHANGED finishing
  /\ UNCHANGED <<setVars, inflight, bornVars, outerVars, flight, jobs, stopping, up, record>>

\* removeRun: the record of the run's agent goes, whoever's it is.
Dispatch(p) ==
  /\ pc[p] = "dispatch"
  /\ record' = [record EXCEPT ![agentOf[loc[p].job]] = NoRun]
  /\ To(p, "call", loc[p])
  /\ UNCHANGED <<setVars, markVars, bornVars, outerVars, flight, jobs, stopping, up>>

CallOk(p) ==
  /\ pc[p] = "call"
  /\ up' = [up EXCEPT ![origin[loc[p].job]] = "ended"]
  /\ draining' = draining \ {loc[p].job}
  /\ Back(p)
  /\ UNCHANGED <<current, dropped, markVars, bornVars, outerVars, flight, jobs, stopping, record>>

\* Mutant of CallRetries: a run that was lifted off the list is not put back.
CallRetriesNot(r) == UNCHANGED <<draining, dropped>>
CallRetries(r) == AppendDraining(r)

\* FINISH failed: a later Maintain retries.  (One that reached upstream and
\* whose answer was lost is retried like the others.)
CallErr(p) ==
  /\ pc[p] = "call"
  /\ "err" \in EnvOps
  /\ finishing' = finishing \ {loc[p].job}
  /\ CallRetries(loc[p].job)
  /\ Back(p)
  /\ UNCHANGED <<current, inflight, queued, bornVars, outerVars, flight, jobs, stopping, up, record>>

-----------------------------------------------------------------------------
(* The loops: worker, Maintain, FinishAllRuns.                              *)

\* Shutdown has closed finishStop.
StopClosed == pc[Stopper] \in {"waiting", "save", "last", "done"}

WorkerTake ==
  /\ pc[Worker] = "work"
  /\ jobs # <<>>
  /\ jobs' = Tail(jobs)
  /\ To(Worker, "finish", [NoLoc(Worker) EXCEPT !.job = Head(jobs)])
  /\ UNCHANGED <<setVars, markVars, bornVars, outerVars, flight, stopping, up, record>>

\* finishStop is closed and the queue empty, or the shutdown deadline passed.
WorkerExit ==
  /\ pc[Worker] = "work"
  /\ StopClosed
  /\ jobs = <<>> \/ "deadline" \in EnvOps
  /\ To(Worker, "exited", NoLoc(Worker))
  /\ UNCHANGED <<setVars, markVars, bornVars, outerVars, flight, jobs, stopping, up, record>>

\* Maintain: rotate the aged runs, then queue the FINISH of the draining ones.
\* Shutdown waits for the maintenance goroutine to end before it begins.
Maintain ==
  /\ "maintain" \in EnvOps
  /\ pc[Maint] = "rest"
  /\ pc[Stopper] = "rest"
  /\ ~cooling
  /\ DrainTo(draining, {})
  /\ To(Maint, "turn", [NoLoc(Maint) EXCEPT
                          !.plan = {r \in Currents : origin[r] \in aged},
                          !.todo = draining'])
  /\ UNCHANGED <<current, markVars, bornVars, outerVars, flight, jobs, stopping, up, record>>

MaintainTurn ==
  /\ pc[Maint] = "turn"
  /\ LET l == loc[Maint]
     IN IF l.plan # {}
        THEN \E r \in l.plan :
               To(Maint, "rotate", [l EXCEPT !.plan = @ \ {r}, !.agent = agentOf[r],
                                             !.ret = "turn"])
        ELSE IF l.todo # {}
             THEN \E r \in l.todo :
                    To(Maint, "mark", [l EXCEPT !.todo = @ \ {r}, !.job = r, !.ret = "turn"])
             ELSE To(Maint, "rest", NoLoc(Maint))
  /\ UNCHANGED <<setVars, markVars, bornVars, outerVars, flight, jobs, stopping, up, record>>

\* FinishAllRuns: the idle runs leave both sets and are finished one by one;
\* the busy ones are left to the release of their last lease.
FinishAllRuns ==
  /\ "drain" \in EnvOps
  /\ pc[Drainer] = "rest"
  /\ LET idle(S) == {r \in S : inflight[r] = 0}
         kept == draining \ idle(draining)
         busy == Currents \ idle(Currents)
     IN /\ current' = [a \in Agents |-> IF current[a] \in idle(Currents) THEN NoRun
                                        ELSE current[a]]
        /\ DrainTo(kept, busy \ kept)
        /\ To(Drainer, "each",
              [NoLoc(Drainer) EXCEPT !.todo = idle(Currents) \cup idle(draining)])
  /\ UNCHANGED <<markVars, bornVars, outerVars, flight, jobs, stopping, up, record>>

FinishEach ==
  /\ pc[Drainer] = "each"
  /\ LET l == loc[Drainer]
     IN IF l.todo = {} THEN To(Drainer, "rest", NoLoc(Drainer))
        ELSE \E r \in l.todo :
               To(Drainer, "finish", [l EXCEPT !.todo = @ \ {r}, !.job = r, !.ret = "each"])
  /\ UNCHANGED <<setVars, markVars, bornVars, outerVars, flight, jobs, stopping, up, record>>

-----------------------------------------------------------------------------
(* Shutdown, and the process that comes after it.                           *)

\* Shutdown refuses new STARTs first ...
ShutdownBegin ==
  /\ "shutdown" \in EnvOps
  /\ pc[Stopper] = "rest"
  /\ pc[Maint] = "rest"
  /\ stopping' = TRUE
  /\ To(Stopper, "flagged", NoLoc(Stopper))
  /\ UNCHANGED <<setVars, markVars, bornVars, outerVars, flight, jobs, up, record>>

\* ... then stops the worker ...
ShutdownStop ==
  /\ pc[Stopper] = "flagged"
  /\ To(Stopper, "waiting", NoLoc(Stopper))
  /\ UNCHANGED <<setVars, markVars, bornVars, outerVars, flight, jobs, stopping, up, record>>

\* Mutant of Unfinished: the draining list is cleared without a look.
UnfinishedCurrents == Currents

Unfinished == draining \cup Currents

\* ... waits for it, up to the deadline, and claims what is left.  With a
\* store the current runs are kept, without one everything goes.
ShutdownClaim ==
  /\ pc[Stopper] = "waiting"
  /\ pc[Worker] = "exited" \/ "deadline" \in EnvOps
  /\ IF Persist
     THEN /\ finishing' = finishing \cup draining
          /\ To(Stopper, "save", [NoLoc(Stopper) EXCEPT !.plan = Currents,
                                                        !.todo = draining \ finishing])
          /\ UNCHANGED <<current, draining>>
     ELSE /\ finishing' = finishing \cup Unfinished
          /\ To(Stopper, "last", [NoLoc(Stopper) EXCEPT
                                    !.todo = Unfinished \ finishing])
          /\ current' = [a \in Agents |-> NoRun]
          /\ draining' = {}
  /\ UNCHANGED <<dropped, inflight, queued, bornVars, outerVars, flight, jobs, stopping, up,
                 record>>

ShutdownSave ==
  /\ pc[Stopper] = "save"
  /\ LET l == loc[Stopper]
     IN IF l.plan = {} THEN To(Stopper, "last", l) /\ UNCHANGED record
        ELSE \E r \in l.plan :
               /\ record' = [record EXCEPT ![agentOf[r]] = origin[r]]
               /\ To(Stopper, "save", [l EXCEPT !.plan = @ \ {r}])
  /\ UNCHANGED <<setVars, markVars, bornVars, outerVars, flight, jobs, stopping, up>>

\* The claimed runs are finished in turn; one that succeeds takes the record
\* of its agent with it.
ShutdownLast ==
  /\ pc[Stopper] = "last"
  /\ LET l == loc[Stopper]
     IN IF l.todo = {} THEN To(Stopper, "done", NoLoc(Stopper)) /\ UNCHANGED <<up, record>>
        ELSE \E r \in l.todo :
               /\ To(Stopper, "last", [l EXCEPT !.todo = @ \ {r}])
               /\ \/ /\ up' = [up EXCEPT ![origin[r]] = "ended"]
                     /\ record' = IF Persist THEN [record EXCEPT ![agentOf[r]] = NoRun]
                                  ELSE record
                  \/ "err" \in EnvOps /\ UNCHANGED <<up, record>>
  /\ UNCHANGED <<setVars, markVars, bornVars, outerVars, flight, jobs, stopping>>

\* The process dies, after a shutdown or without one; a new one starts with
\* the records of the old.
Restart ==
  /\ "crash" \in EnvOps
  /\ current' = [a \in Agents |-> NoRun]
  /\ flight' = [a \in Agents |-> NoProc]
  /\ draining' = {}
  /\ inflight' = [r \in Runs |-> 0]
  /\ finishing' = {}
  /\ queued' = {}
  /\ jobs' = <<>>
  /\ stopping' = FALSE
  /\ cooling' = FALSE
  /\ dropped' = Runs \ Unmade
  /\ pc' = [p \in Procs |-> Home(p)]
  /\ loc' = [p \in Procs |-> NoLoc(p)]
  /\ UNCHANGED <<bornVars, aged, up, record>>

-----------------------------------------------------------------------------
(* The outside.                                                             *)

\* The rotation interval of a running run is over.
GrowOld(r) ==
  /\ "age" \in EnvOps
  /\ up[r] = "running"
  /\ aged' = aged \cup {r}
  /\ UNCHANGED <<setVars, markVars, bornVars, cooling, flight, jobs, stopping, up, record, pc, loc>>

\* A refusal starts a cooldown, its window runs out.
ToggleCooling ==
  /\ "cool" \in EnvOps
  /\ cooling' = ~cooling
  /\ UNCHANGED <<setVars, markVars, bornVars, aged, flight, jobs, stopping, up, record, pc, loc>>

\* Upstream ends a run by itself.
Gone(r) ==
  /\ "gone" \in EnvOps
  /\ up[r] = "running"
  /\ up' = [up EXCEPT ![r] = "ended"]
  /\ UNCHANGED <<setVars, markVars, bornVars, outerVars, flight, jobs, stopping, record, pc, loc>>

Env == \/ \E r \in Runs : GrowOld(r) \/ Gone(r)
       \/ ToggleCooling
       \/ Restart

-----------------------------------------------------------------------------
\* What a process does once it is inside a call.
Step(p) ==
  \/ Check(p) \/ Lease(p)
  \/ RotateRefused(p) \/ RotateNotNeeded(p) \/ RotateWait(p) \/ RotateLead(p)
  \/ Lookup(p) \/ Purge(p) \/ AdoptRefused(p) \/ Adopt(p)
  \/ StartErr(p) \/ StartOk(p) \/ StartLate(p) \/ Discard(p) \/ PersistNew(p)
  \/ Release(p) \/ ReleaseAbandoned(p) \/ Invalidate(p)
  \/ Mark(p) \/ Send(p) \/ Claim(p) \/ Dispatch(p) \/ CallOk(p) \/ CallErr(p)

\* What the background goroutines do by themselves.
Background == \/ WorkerTake \/ WorkerExit
              \/ MaintainTurn \/ FinishEach
              \/ ShutdownStop \/ ShutdownClaim \/ ShutdownSave \/ ShutdownLast

Next == \/ \E p \in Procs : Step(p) \/ Cancelled(p)
        \/ \E c \in Callers, a \in Agents : Acquire(c, a)
        \/ \E p \in Callers \cup {Maint}, a \in Agents : Precreate(p, a)
        \/ Background
        \/ Maintain \/ FinishAllRuns \/ ShutdownBegin
        \/ Env

\* Goroutines are scheduled and every call returns; nothing is promised about
\* the maintenance ticker, so that what ends does not end because of a retry.
Fairness == /\ \A p \in Procs : WF_vars(Step(p))
            /\ WF_vars(WorkerTake \/ WorkerExit)
            /\ WF_vars(MaintainTurn)
            /\ WF_vars(FinishEach)
            /\ WF_vars(ShutdownStop \/ ShutdownClaim \/ ShutdownSave \/ ShutdownLast)

Spec == Init /\ [][Next]_vars
FairSpec == Spec /\ Fairness

-----------------------------------------------------------------------------
(* Safety.                                                                  *)

Leasers(r) == {c \in Callers : pc[c] = "leased" /\ loc[c].run = r}

\* inflight of a run is the number of leases out on it, so that a FINISH waits
\* for the last one and for no more (runs.go:295-302, 319-330).
LeaseCount == \A r \in Runs : inflight[r] = Cardinality(Leasers(r))

\* The draining list respects RUNS_DRAIN_QUEUE_CAP, and a current run is on it
\* only as long as somebody leases it: finishIfReady skips current runs, so an
\* idle one would stay there for ever (runs.go:331-336).
DrainSound == /\ Cardinality(draining) <= DrainCap
              /\ \A r \in draining \cap Currents : inflight[r] > 0

\* The processes that will look at a run again with a FINISH in mind.
Pursued == {loc[p].job : p \in {q \in Procs : pc[q] \in FinishPCs \cup {"persist"}}}
           \cup loc[Drainer].todo \cup Jobs
           \cup {loc[p].run : p \in {q \in Procs : pc[q] = "discard"}}

\* A run that is alive upstream is current, draining, or on its way to a
\* FINISH, unless the manager let it go on purpose: "in no set" its FINISH
\* "would be lost forever" (steps.go:252-255).
NoOrphan ==
  pc[Stopper] = "rest" =>
    \A r \in Runs \ (Unmade \cup dropped) :
      up[origin[r]] = "running" => r \in Currents \cup draining \cup Pursued

\* A FINISH goes out once at a time: two processes never have one of the same
\* run in flight, the runs a shutdown has claimed included ("re-FINISHing the
\* same run id upstream is a duplicate call", runs.go:520-524).
FinishedOnce ==
  /\ \A p, q \in Procs :
       pc[p] = "call" /\ pc[q] = "call" /\ loc[p].job = loc[q].job => p = q
  /\ \A p \in Procs : pc[p] = "call" /\ pc[Stopper] \in {"save", "last"} =>
       loc[p].job \notin loc[Stopper].todo

\* One flight per agent, led by the process that is starting the run, and
\* nobody waits for a flight that has landed (runs.go:592-633).
FlightSound ==
  /\ \A p \in Procs : pc[p] \in {"lookup", "purge", "adopt", "start"} =>
       flight[loc[p].agent] = p
  /\ \A p \in Procs : pc[p] = "await" => flight[loc[p].agent] # NoProc

\* After a shutdown without a store no run is current, and none becomes so: a
\* START that was in flight is discarded (runs.go:31-36).
ClosedStays == ~Persist /\ pc[Stopper] \in {"last", "done"} => Currents = {}

\* No two objects with one upstream id carry leases: a resumed run is not
\* leased while the object it was is: they would be counted apart (runs.go:672-692).
OneObjectLeased ==
  \A r, s \in Runs : inflight[r] > 0 /\ inflight[s] > 0 /\ origin[r] = origin[s] => r = s

-----------------------------------------------------------------------------
(* Liveness.                                                                *)

\* Upstream has finished the run of the object.
Finished(r) == r \notin Unmade /\ up[origin[r]] = "ended"

\* A run that is neither current nor leased is finished or dropped, without
\* help from the maintenance ticker, as long as upstream takes FINISHes.
RetiredEnds ==
  \A r \in Runs : r \notin Unmade \cup Currents /\ inflight[r] = 0 ~>
                  r \in dropped \/ Finished(r)

\* A shutdown without a store comes to its end with every run finished or let
\* go on purpose, late STARTs and runs under a lease included: none that
\* "would never be FINISHed" (runs.go:422-428).
ShutdownEndsRuns ==
  stopping ~> /\ pc[Stopper] = "done"
              /\ \A r \in Runs \ Unmade : r \in dropped \/ Finished(r)

-----------------------------------------------------------------------------
(* The contract with upstream, without a store.                             *)

\* Someone is about to FINISH the run: it is claimed, or was started too late.
Closing(r) ==
  \/ \E p \in Procs :
       \/ pc[p] \in {"dispatch", "call"} /\ loc[p].job = r
       \/ pc[p] = "discard" /\ loc[p].run = r
  \/ r \in loc[Stopper].todo

\* Where in its life each run is.
Lives == [r \in Runs |-> IF r \in Unmade THEN "unborn"
                         ELSE IF Closing(r) THEN "closing"
                         ELSE IF r \in finishing THEN "ended"
                         ELSE IF r \in Currents THEN "open" ELSE "retired"]

Life == INSTANCE RunLifecycle WITH
  AllRuns <- Runs,
  leases <- inflight,
  life <- Lives

\* Single flight, leases, draining and the FINISH queue together keep the
\* life cycle of every run.
RunsLiveOnce == Life!LifeSpec

-----------------------------------------------------------------------------
(* What the comments say, and the code does not do: see the README.         *)

\* "a draining run whose FINISH is still in flight can never be adopted here"
\* (runs.go:649-653).
AdoptedAlive ==
  \A a \in Agents, p \in Procs :
    pc[p] = "call" /\ current[a] # NoRun => origin[current[a]] # origin[loc[p].job]

\* Invalidate is for a run that is gone, "e.g. on runId not found"
\* (runs.go:362): what it drops "without finishing it" is not running.
InvalidatesDead ==
  [][\A c \in Callers :
       Invalidate(c) /\ current[loc[c].agent] # NoRun =>
         up[origin[current[loc[c].agent]]] = "ended"]_vars
=============================================================================
