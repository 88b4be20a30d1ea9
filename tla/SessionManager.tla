--------------------------- MODULE SessionManager ---------------------------
(***************************************************************************)
(* The cached upstream session of one account (session.Manager): who       *)
(* admits a new one, who waits for it, who may ride the old one, and what  *)
(* the store keeps.  Upstream has one live session per account, so every   *)
(* admission disowns the instance other turns may still dispatch on.       *)
(*                                                                         *)
(* A step is one critical section of Manager.mu, one upstream call or one  *)
(* write of the store; commit lets go of mu during the write.              *)
(***************************************************************************)
EXTENDS Naturals, FiniteSets

CONSTANTS
  Callers,      \* goroutines that call EnsureSessionForModel
  Seatless,     \* those of them that take no seat first (maturityTouchRun)
  ReAdmit,      \* the goroutine of asyncReAdmit
  Poller,       \* the maintenance goroutine in Poll
  Ender,        \* the goroutine that ends the session (removal, idle, shutdown)
  Models,
  Fallback,     \* DefaultFallbackModelFor
  Insts,        \* session instances upstream can hand out
  MaxOuter,     \* maxOuterIterations
  MaxRefresh,   \* maxRefreshIterations
  MaxCalls,     \* bound: calls of EnsureSessionForModel
  MaxEvents,    \* bound: refusals, errors and other events from outside
  EnvOps,       \* what happens from outside
  NoInst, NoModel, NoProc

Answers == {"active", "queued", "ended", "gone", "refused", "locked", "unavail", "disabled",
            "err", "ctx", "waitreq"}
AllEnvOps == {"age", "kill", "cancel", "expire", "poll", "end", "clear", "restart", "crash", "err"}

ASSUME SessionAssumption ==
  /\ IsFiniteSet(Callers) /\ Seatless \subseteq Callers
  /\ Fallback \in Models /\ NoModel \notin Models /\ NoInst \notin Insts
  /\ MaxOuter \in Nat \ {0} /\ MaxRefresh \in Nat \ {0}
  /\ MaxCalls \in Nat /\ MaxEvents \in Nat /\ EnvOps \subseteq AllEnvOps
  /\ Cardinality({ReAdmit, Poller, Ender, NoProc}) = 4
  /\ Callers \cap {ReAdmit, Poller, Ender, NoProc} = {}

Procs == Callers \cup {ReAdmit, Poller, Ender}

VARIABLES
  cache,    \* m.state: status, instance, model, and whether pollAt has passed
  store,    \* the row of sessions_persist
  persist,  \* who holds persistMu
  age,      \* where each instance is in its life, as expiresAt tells
  bound,    \* the model upstream bound it to
  live,     \* the account's active_instance_id upstream
  flight,   \* who refreshes (m.refreshing, m.refreshCh)
  ferr,     \* m.refreshErr
  tried,    \* m.reAdmitExpiry, named by the instance that expires
  unav,     \* the models cached as unavailable
  events,   \* how many of them there were
  calls,    \* how many calls
  pc, loc

upVars == <<age, bound, live>>
memVars == <<tried, unav, events, calls>>
vars == <<cache, store, persist, age, bound, live, flight, ferr, tried, unav, events,
          calls, pc, loc>>

NoRow == [st |-> "none", inst |-> NoInst, model |-> NoModel, due |-> FALSE]
Rows == [st : {"none", "active", "ended", "queued", "disabled"},
         inst : Insts \cup {NoInst}, model : Models \cup {NoModel}, due : BOOLEAN]
Row(st, i, m) == [st |-> st, inst |-> i, model |-> m, due |-> FALSE]

RefreshPCs == {"short", "loop", "get", "resume", "release", "post", "answer",
               "unlock", "write", "land"}
PCs == RefreshPCs \cup {"idle", "top", "parked", "woken", "trust", "turn", "report",
                        "polled", "logged", "panic", "delete"}

\* Requested and target model, instance at hand, upstream's answer, what a
\* write is to store or drop and where it continues, loop counters.
Locals == [model : Models \cup {NoModel}, target : Models \cup {NoModel},
           inst : Insts \cup {NoInst}, ans : Answers \cup {""},
           row : Rows, drop : Insts \cup {NoInst}, next : PCs,
           tries : 0 .. MaxOuter, iter : 0 .. MaxRefresh]
NoLoc == [model |-> NoModel, target |-> NoModel, inst |-> NoInst, ans |-> "", row |-> NoRow,
          drop |-> NoInst, next |-> "idle", tries |-> 0, iter |-> 0]

\* A fresh process, or one that an earlier call has left with a session.
Init ==
  /\ \/ /\ cache = NoRow /\ live = NoInst
        /\ age = [i \in Insts |-> "unborn"] /\ bound = [i \in Insts |-> NoModel]
     \/ \E i \in Insts, m \in Models :
          /\ cache = Row("active", i, m) /\ live = i
          /\ age = [j \in Insts |-> IF j = i THEN "fresh" ELSE "unborn"]
          /\ bound = [j \in Insts |-> IF j = i THEN m ELSE NoModel]
  /\ store = cache /\ persist = NoProc
  /\ flight = NoProc /\ ferr = "" /\ tried = NoInst /\ unav = {}
  /\ events = 0 /\ calls = 0
  /\ pc = [p \in Procs |-> "idle"] /\ loc = [p \in Procs |-> NoLoc]

-----------------------------------------------------------------------------
(* What the critical sections are made of.                                 *)

NoEvent == UNCHANGED events
Event(kind) == kind \in EnvOps \cup {"answer"} /\ events < MaxEvents /\ events' = events + 1

To(p, where, l) == pc' = [pc EXCEPT ![p] = where] /\ loc' = [loc EXCEPT ![p] = l]
Out(p) == To(p, "idle", NoLoc)

\* sessionUsable: until the grace drain closes.
Usable(c) == c.st \in {"active", "ended"} /\ c.inst # NoInst /\ age[c.inst] # "over"
Waiting(c) == c.st = "queued" /\ ~c.due
Matches(c, m) == m = NoModel \/ c.model = NoModel \/ c.model = m

ReAdmitDue(c) == \/ c.st = "active" /\ age[c.inst] = "lead"
                 \/ age[c.inst] = "grace"

\* The gate if the turns were counted once they had a session.
SeatIdleLate == Cardinality({p \in Callers \ Seatless : pc[p] = "turn"}) <= 1
\* seatCounter.idle: no turn but the caller's own.
Seats == Cardinality({p \in Callers \ Seatless : pc[p] # "idle"})
SeatIdle == Seats <= 1

\* commit takes persistMu before it lets go of mu, so that the writes reach the
\* store in the order of the commits; without persistMu they would not.
CommitUnordered(p, c, next, l) ==
  /\ persist' = p
  /\ cache' = c
  /\ To(p, "write", [l EXCEPT !.row = c, !.drop = cache.inst, !.next = next])
Commit(p, c, next, l) ==
  /\ persist = NoProc
  /\ persist' = p
  /\ cache' = c
  /\ To(p, "write", [l EXCEPT !.row = c, !.drop = cache.inst, !.next = next])

\* persistSaveLocked and persistRemoveLocked; Store.Remove leaves a row of
\* another instance alone, unless it is told none.
Write(p) ==
  LET l == loc[p] IN
  /\ pc[p] = "write"
  /\ store' = IF l.row.st # "none" THEN l.row
              ELSE IF l.drop \in {NoInst, store.inst} THEN NoRow ELSE store
  /\ persist' = IF persist = p THEN NoProc ELSE persist
  /\ IF l.next = "idle" THEN Out(p)
     ELSE To(p, l.next, [l EXCEPT !.row = NoRow, !.drop = NoInst, !.next = "idle"])
  /\ UNCHANGED <<cache, upVars, flight, ferr, memVars>>

-----------------------------------------------------------------------------
(* EnsureSessionForModel.                                                  *)

Ensure(p) ==
  /\ pc[p] = "idle" /\ calls < MaxCalls /\ calls' = calls + 1
  /\ \E m \in Models : To(p, "top", [NoLoc EXCEPT !.model = m])
  /\ UNCHANGED <<cache, store, persist, upVars, flight, ferr, tried, unav, events>>

Ride(p) == To(p, "turn", [NoLoc EXCEPT !.inst = cache.inst])
Again(p) == To(p, "top", [NoLoc EXCEPT !.model = loc[p].model, !.tries = loc[p].tries + 1])
Reusable(p) == Usable(cache) /\ Matches(cache, loc[p].model)
Triggers == tried # cache.inst /\ ReAdmitDue(cache)
MaySpin(p) == loc[p].tries < MaxOuter
AtTop(p) == pc[p] = "top" /\ MaySpin(p)

\* Out of attempts, or the context is done.  (A context that is done at the
\* top of the loop ends the call as if it had been so in the park.)
GiveUp(p) ==
  /\ \/ pc[p] = "top" /\ ~MaySpin(p) /\ NoEvent
     \/ pc[p] = "parked" /\ Event("cancel")
  /\ Out(p)
  /\ UNCHANGED <<cache, store, persist, upVars, flight, ferr, tried, unav, calls>>

\* Fast path: the cached instance as it is, and so too while the seat gate
\* defers the re-admission.
Reuse(p) ==
  /\ AtTop(p) /\ flight = NoProc /\ Reusable(p)
  /\ Triggers => ~SeatIdle
  /\ Ride(p)
  /\ UNCHANGED <<cache, store, persist, upVars, flight, ferr, memVars>>

\* Fast path, expiry near: start asyncReAdmit and loop into the park.
Trigger(p) ==
  /\ AtTop(p) /\ flight = NoProc /\ Reusable(p) /\ Triggers /\ SeatIdle
  /\ tried' = cache.inst
  /\ flight' = ReAdmit /\ ferr' = ""
  /\ pc' = [pc EXCEPT ![ReAdmit] = "short"]
  /\ loc' = [loc EXCEPT ![ReAdmit] = [NoLoc EXCEPT !.model = loc[p].model, !.target = loc[p].model],
                        ![p].tries = @ + 1]
  /\ UNCHANGED <<cache, store, persist, upVars, unav, events, calls>>

\* Disabled upstream, or in the waiting room until pollAt.
NoSession(p) ==
  /\ AtTop(p) /\ flight = NoProc
  /\ cache.st = "disabled" \/ Waiting(cache)
  /\ Out(p)
  /\ UNCHANGED <<cache, store, persist, upVars, flight, ferr, memVars>>

Park(p) ==
  /\ AtTop(p) /\ flight # NoProc
  /\ To(p, "parked", loc[p])
  /\ UNCHANGED <<cache, store, persist, upVars, flight, ferr, memVars>>

Refresh(p) ==
  /\ AtTop(p) /\ flight = NoProc
  /\ ~Reusable(p) /\ cache.st # "disabled" /\ ~Waiting(cache)
  /\ flight' = p /\ ferr' = ""
  /\ To(p, "short", [loc[p] EXCEPT !.target = loc[p].model])
  /\ UNCHANGED <<cache, store, persist, upVars, memVars>>

\* A waiter reads the error after mu was released: the next flight may have
\* cleared it.  An aborted leader's error is not the waiter's.
Wake(p) ==
  /\ pc[p] = "woken"
  /\ \/ ferr = "" /\ Again(p)
     \/ ferr = "ctx" /\ Again(p)
     \/ ferr = "err" /\ Usable(cache) /\ Ride(p)
     \/ ferr = "err" /\ ~Usable(cache) /\ Out(p)
  /\ UNCHANGED <<cache, store, persist, upVars, flight, ferr, memVars>>

\* The refresher's own read of the state, after it let go of mu.
Trust(p) ==
  /\ pc[p] = "trust"
  /\ \/ cache.st = "active" /\ Ride(p)
     \/ (cache.st = "disabled" \/ Waiting(cache)) /\ Out(p)
     \/ cache.st \in {"none", "ended"} /\ Again(p)
     \/ cache.st = "queued" /\ cache.due /\ Again(p)
  /\ UNCHANGED <<cache, store, persist, upVars, flight, ferr, memVars>>

\* A flight that landed but kept the flag up when it failed.
LandKeepsFlag(p) ==
  LET failed == loc[p].ans \in {"err", "ctx"} IN
  /\ pc[p] = "land"
  /\ flight' = IF failed THEN flight ELSE NoProc
  /\ ferr' = IF failed THEN loc[p].ans ELSE ferr
  /\ To(p, IF p = ReAdmit \/ failed THEN "idle" ELSE "trust",
        IF p = ReAdmit \/ failed THEN NoLoc ELSE [NoLoc EXCEPT !.model = loc[p].model, !.tries = loc[p].tries])
  /\ UNCHANGED <<cache, store, persist, upVars, memVars>>
\* The flight is over: keep its error, wake who waits.
Land(p) ==
  LET l == loc[p]
      failed == l.ans \in {"err", "ctx"} IN
  /\ pc[p] = "land"
  /\ flight' = NoProc
  /\ ferr' = IF failed THEN l.ans ELSE ferr
  /\ pc' = [q \in Procs |-> CASE q = p -> IF p = ReAdmit \/ failed THEN "idle" ELSE "trust"
                              [] pc[q] = "parked" -> "woken"
                              [] OTHER -> pc[q]]
  /\ loc' = [loc EXCEPT ![p] = IF p = ReAdmit \/ failed THEN NoLoc
                               ELSE [NoLoc EXCEPT !.model = l.model, !.tries = l.tries]]
  /\ UNCHANGED <<cache, store, persist, upVars, memVars>>

-----------------------------------------------------------------------------
(* refresh, run by a caller or, pre-emptively, by ReAdmit.                 *)

Preemptive(p) == p = ReAdmit
Finish(p, ans) == To(p, "land", [loc[p] EXCEPT !.ans = ans, !.inst = NoInst, !.row = NoRow])
Loop(l) == [l EXCEPT !.ans = "", !.inst = NoInst]
NextRound(p, l) == To(p, "loop", Loop(l))

\* modelUnavailableShortCircuit.
ShortPass(p) ==
  /\ pc[p] = "short" /\ (loc[p].target \notin unav \/ loc[p].target = Fallback)
  /\ To(p, "loop", loc[p])
  /\ UNCHANGED <<cache, store, persist, upVars, flight, ferr, memVars>>
ShortReuse(p) ==
  /\ pc[p] = "short" /\ loc[p].target \in unav \ {Fallback}
  /\ cache.model = Fallback /\ Usable(cache)
  /\ Finish(p, "")
  /\ UNCHANGED <<cache, store, persist, upVars, flight, ferr, memVars>>
ShortDrop(p) ==
  /\ pc[p] = "short" /\ loc[p].target \in unav \ {Fallback}
  /\ ~(cache.model = Fallback /\ Usable(cache))
  /\ Commit(p, NoRow, "loop", [loc[p] EXCEPT !.target = Fallback])
  /\ UNCHANGED <<store, upVars, flight, ferr, memVars>>

\* A budget that allows one round too many, and the code's.
MayLoopLong(p) == loc[p].iter <= MaxRefresh
MayLoop(p) == loc[p].iter < MaxRefresh

Stop(p) ==
  /\ pc[p] = "loop"
  /\ \/ ~MayLoop(p) /\ Finish(p, "err") /\ NoEvent
     \/ Event("cancel") /\ Finish(p, "ctx")
  /\ UNCHANGED <<cache, store, persist, upVars, flight, ferr, tried, unav, calls>>

\* One round: read the cache, decide what to ask upstream.  The lookup of a
\* persisted session drops one that expired or serves another model.
Held(p) == /\ cache.st = "active" /\ cache.inst # NoInst
           /\ cache.model \notin {NoModel, loc[p].target} /\ Usable(cache)
Resumable(p) == /\ age[store.inst] \in {"fresh", "lead"}
                /\ Matches(store, loc[p].target)
Round(p) ==
  LET l == [loc[p] EXCEPT !.iter = @ + 1] IN
  /\ pc[p] = "loop" /\ MayLoop(p)
  /\ CASE cache.st = "queued" -> To(p, "get", [l EXCEPT !.inst = cache.inst]) /\ UNCHANGED store
       [] cache.st = "none" /\ store.st = "active" ->
            IF Resumable(p) THEN To(p, "resume", [l EXCEPT !.inst = store.inst]) /\ UNCHANGED store
            ELSE To(p, "post", l) /\ store' = NoRow
       [] cache.st = "none" /\ store.st # "active" -> To(p, "post", l) /\ UNCHANGED store
       [] OTHER -> /\ UNCHANGED store
                   /\ IF Held(p) THEN To(p, "release", [l EXCEPT !.inst = cache.inst])
                      ELSE To(p, "post", l)
  /\ UNCHANGED <<cache, persist, upVars, flight, ferr, memVars>>

Answer(p, ans, i) == To(p, "answer", [loc[p] EXCEPT !.ans = ans, !.inst = i])
Gone(i) == live' = IF live = i THEN NoInst ELSE live

\* GET of the queued row: still queued, admitted, or the seat is gone.
GetQueued(p) ==
  LET i == loc[p].inst IN
  /\ pc[p] = "get"
  /\ \/ age[i] = "queued" /\ Answer(p, "queued", i) /\ NoEvent /\ UNCHANGED upVars
     \/ /\ age[i] = "queued" /\ Answer(p, "active", i) /\ NoEvent
        /\ age' = [age EXCEPT ![i] = "fresh"] /\ live' = i /\ UNCHANGED bound
     \/ age[i] # "queued" /\ Answer(p, "gone", i) /\ NoEvent /\ UNCHANGED upVars
     \/ /\ Event("err") /\ UNCHANGED upVars
        /\ \E a \in {"err", "waitreq"} : Answer(p, a, i)
  /\ UNCHANGED <<cache, store, persist, flight, ferr, tried, unav, calls>>

\* GET of the persisted row.  A dead one is dropped from the store, a
\* transport error never leads to an admission.
Resume(p) ==
  LET i == loc[p].inst
      drop == store' = IF store.inst = i THEN NoRow ELSE store IN
  /\ pc[p] = "resume"
  /\ \/ live = i /\ Answer(p, "active", i) /\ NoEvent /\ UNCHANGED store
     \/ live # i /\ drop /\ NoEvent /\ To(p, "post", [loc[p] EXCEPT !.inst = NoInst])
     \/ Event("err") /\ Finish(p, "err") /\ (drop \/ UNCHANGED store)
  /\ UNCHANGED <<cache, persist, upVars, flight, ferr, tried, unav, calls>>

\* releaseHeldSlotForTarget: DELETE, and only then forget, if still there.
Release(p) ==
  LET i == loc[p].inst IN
  /\ pc[p] = "release"
  /\ \/ Gone(i) /\ NoEvent /\ To(p, "unlock", [loc[p] EXCEPT !.next = "post"])
     \/ Event("err") /\ UNCHANGED live /\ To(p, "post", [loc[p] EXCEPT !.inst = NoInst])
  /\ UNCHANGED <<cache, store, persist, age, bound, flight, ferr, tried, unav, calls>>
Released(p) ==
  /\ pc[p] = "unlock" /\ loc[p].next = "post"
  /\ IF cache.inst = loc[p].inst THEN Commit(p, NoRow, "post", Loop(loc[p]))
     ELSE To(p, "post", [Loop(loc[p]) EXCEPT !.next = "idle"]) /\ UNCHANGED <<cache, persist>>
  /\ UNCHANGED <<store, upVars, flight, ferr, memVars>>

\* POST: a fresh instance disowns the account's old one; a queued one does
\* not yet; a refusal leaves all as it is.
Admit(p) ==
  \E i \in Insts :
    /\ pc[p] = "post" /\ age[i] = "unborn"
    /\ bound' = [bound EXCEPT ![i] = loc[p].target]
    /\ \/ age' = [age EXCEPT ![i] = "fresh"] /\ live' = i /\ NoEvent /\ Answer(p, "active", i)
       \/ /\ age' = [age EXCEPT ![i] = "queued"] /\ UNCHANGED live
          /\ Event("answer") /\ Answer(p, "queued", i)
    /\ UNCHANGED <<cache, store, persist, flight, ferr, tried, unav, calls>>
Refuse(p) ==
  /\ pc[p] = "post"
  /\ \/ Event("answer") /\ \E a \in {"gone", "refused", "disabled"} : Answer(p, a, NoInst)
     \/ live # NoInst /\ age[live] = "grace" /\ NoEvent /\ Answer(p, "ended", live)
     \/ /\ live # NoInst /\ bound[live] # loc[p].target
        /\ Event("answer") /\ \E i \in {live, NoInst} : Answer(p, "locked", i)
     \/ loc[p].target # Fallback /\ Event("answer") /\ Answer(p, "unavail", NoInst)
     \/ Event("err") /\ Answer(p, "err", NoInst)
     \/ (\A i \in Insts : age[i] # "unborn") /\ NoEvent /\ Answer(p, "refused", NoInst)
  /\ UNCHANGED <<cache, store, persist, upVars, flight, ferr, tried, unav, calls>>

\* What refresh makes of the answer.
Failed(p) ==
  /\ pc[p] = "answer" /\ loc[p].ans \in {"err", "refused"}
  /\ Finish(p, "err")
  /\ UNCHANGED <<cache, store, persist, upVars, flight, ferr, memVars>>
WaitingRoomGone(p) ==
  /\ pc[p] = "answer" /\ loc[p].ans = "waitreq"
  /\ IF cache.inst = loc[p].inst THEN Commit(p, NoRow, "land", [Loop(loc[p]) EXCEPT !.ans = "err"])
     ELSE Finish(p, "err") /\ UNCHANGED <<cache, persist>>
  /\ UNCHANGED <<store, upVars, flight, ferr, memVars>>
Admitted(p) ==
  /\ pc[p] = "answer" /\ loc[p].ans \in {"active", "disabled"}
  /\ LET i == loc[p].inst
         row == IF loc[p].ans = "active" THEN Row("active", i, bound[i])
                ELSE Row("disabled", NoInst, NoModel)
     IN Commit(p, row, "land", Loop(loc[p]))
  /\ UNCHANGED <<store, upVars, flight, ferr, memVars>>
Queued(p) ==
  /\ pc[p] = "answer" /\ loc[p].ans = "queued"
  /\ IF Preemptive(p) THEN Finish(p, "") /\ UNCHANGED <<cache, persist>>
     ELSE Commit(p, Row("queued", loc[p].inst, bound[loc[p].inst]), "land", Loop(loc[p]))
  /\ UNCHANGED <<store, upVars, flight, ferr, memVars>>
InGrace(i) == i # NoInst /\ age[i] = "grace"
Ended(p) ==
  LET i == loc[p].inst IN
  /\ pc[p] = "answer" /\ loc[p].ans \in {"ended", "gone"}
  /\ IF Preemptive(p) THEN Finish(p, "err") /\ UNCHANGED <<cache, persist>>
     ELSE IF loc[p].ans = "ended" /\ InGrace(i)
          THEN Commit(p, Row("ended", i, bound[i]), "land", Loop(loc[p]))
          ELSE Commit(p, NoRow, "loop", Loop(loc[p]))
  /\ UNCHANGED <<store, upVars, flight, ferr, memVars>>
\* model_locked: forget, DELETE the lock's instance or the held one, retry.
Locked(p) ==
  /\ pc[p] = "answer" /\ loc[p].ans = "locked"
  /\ Commit(p, NoRow, "unlock",
            [loc[p] EXCEPT !.inst = IF @ = NoInst THEN cache.inst ELSE @])
  /\ UNCHANGED <<store, upVars, flight, ferr, memVars>>
Unlock(p) ==
  /\ pc[p] = "unlock" /\ loc[p].next = "idle"
  /\ \E i \in IF loc[p].inst = NoInst THEN {live, NoInst} ELSE {loc[p].inst} :
       IF i = NoInst THEN UNCHANGED live ELSE Gone(i)
  /\ NextRound(p, loc[p])
  /\ UNCHANGED <<cache, store, persist, age, bound, flight, ferr, memVars>>
Unavailable(p) ==
  /\ pc[p] = "answer" /\ loc[p].ans = "unavail"
  /\ unav' = unav \cup {loc[p].target}
  /\ Commit(p, NoRow, "loop", [Loop(loc[p]) EXCEPT !.target = Fallback])
  /\ UNCHANGED <<store, upVars, flight, ferr, tried, events, calls>>

-----------------------------------------------------------------------------
(* The turn that was given a session, and the other users of the cache.    *)

TurnOver(p) ==
  /\ pc[p] = "turn"
  /\ Out(p)
  /\ UNCHANGED <<cache, store, persist, upVars, flight, ferr, memVars>>
\* The turn was refused: InvalidateInstance, a compare-and-swap.
Disown(p) ==
  /\ pc[p] = "turn" /\ live # loc[p].inst
  /\ cache.inst = loc[p].inst
  /\ Commit(p, NoRow, "idle", NoLoc)
  /\ UNCHANGED <<store, upVars, flight, ferr, memVars>>

\* The poll's read of the instance and its GET are one step: PollCommit ignores
\* an instance that has left the cache since.
PollGet ==
  LET i == cache.inst
      says == IF live # i \/ age[i] = "over" THEN "gone"
              ELSE IF age[i] = "grace" THEN "ended" ELSE "active" IN
  /\ Event("poll") /\ pc[Poller] = "idle"
  /\ cache.st \in {"active", "ended"} /\ i # NoInst
  /\ \E a \in {says, "gone"} :
       /\ a = says \/ "err" \in EnvOps
       /\ IF a = "active" THEN Out(Poller)
          ELSE To(Poller, "polled", [NoLoc EXCEPT !.inst = i, !.ans = a])
  /\ UNCHANGED <<cache, store, persist, upVars, flight, ferr, tried, unav, calls>>
PollCommit ==
  LET i == loc[Poller].inst IN
  /\ pc[Poller] = "polled"
  /\ IF cache.inst # i THEN Out(Poller) /\ UNCHANGED <<cache, persist>>
     ELSE IF loc[Poller].ans = "ended" /\ InGrace(i)
          THEN Commit(Poller, Row("ended", i, cache.model), "logged", loc[Poller])
          ELSE Commit(Poller, NoRow, "idle", NoLoc)
  /\ UNCHANGED <<store, upVars, flight, ferr, memVars>>
\* The log line reads m.state.model after the commit.
PollLog ==
  /\ pc[Poller] = "logged"
  /\ IF cache.st = "none" THEN To(Poller, "panic", NoLoc) ELSE Out(Poller)
  /\ UNCHANGED <<cache, store, persist, upVars, flight, ferr, memVars>>

\* EndSession of a removed or idle account; a DELETE of a row that is gone
\* changes nothing.
EndSession ==
  /\ Event("end") /\ pc[Ender] = "idle" /\ cache.st # "none"
  /\ IF live # NoInst /\ live = cache.inst
     THEN Commit(Ender, NoRow, "delete", [NoLoc EXCEPT !.inst = live])
     ELSE Commit(Ender, NoRow, "idle", NoLoc)
  /\ UNCHANGED <<store, upVars, flight, ferr, tried, unav, calls>>
Delete ==
  /\ pc[Ender] = "delete"
  /\ Gone(loc[Ender].inst)
  /\ Out(Ender)
  /\ UNCHANGED <<cache, store, persist, age, bound, flight, ferr, memVars>>
ClearQueued ==
  /\ Event("clear") /\ pc[Ender] = "idle" /\ cache.st = "queued"
  /\ Commit(Ender, NoRow, "idle", NoLoc)
  /\ UNCHANGED <<store, upVars, flight, ferr, tried, unav, calls>>
\* Shutdown and restart: the row is saved, a usable active session is kept
\* upstream, every other is DELETEd and its row stays.
Fresh ==
  /\ cache' = NoRow /\ persist' = NoProc
  /\ flight' = NoProc /\ ferr' = "" /\ tried' = NoInst /\ unav' = {}
  /\ pc' = [p \in Procs |-> "idle"] /\ loc' = [p \in Procs |-> NoLoc]
  /\ UNCHANGED <<age, bound, calls>>
Restart ==
  /\ Event("restart") /\ \A p \in Procs : pc[p] \in {"idle", "turn"}
  /\ store' = IF cache.inst # NoInst THEN cache ELSE store
  /\ live' = IF live = cache.inst /\ ~(cache.st = "active" /\ Usable(cache)) THEN NoInst ELSE live
  /\ Fresh
Crash ==
  /\ Event("crash")
  /\ Fresh /\ UNCHANGED <<store, live>>

\* Time and upstream.
Older == [fresh |-> "lead", lead |-> "grace", grace |-> "over"]
\* Sessions are equally long: the live one does not overtake an older one
\* that is still cached.
Age ==
  /\ "age" \in EnvOps
  /\ \E i \in {cache.inst, live} \ {NoInst} :
       /\ age[i] \in DOMAIN Older /\ (cache.inst \notin {i, NoInst} => age[cache.inst] # age[i])
       /\ age' = [age EXCEPT ![i] = Older[@]]
  /\ UNCHANGED <<cache, store, persist, bound, live, flight, ferr, memVars, pc, loc>>
PollAt ==
  /\ Waiting(cache)
  /\ cache' = [cache EXCEPT !.due = TRUE]
  /\ UNCHANGED <<store, persist, upVars, flight, ferr, memVars, pc, loc>>
Kill ==
  /\ Event("kill") /\ live # NoInst /\ age[live] # "over" /\ live' = NoInst
  /\ UNCHANGED <<cache, store, persist, age, bound, flight, ferr, tried, unav, calls, pc, loc>>
Expire ==
  /\ Event("expire") /\ unav # {} /\ unav' = {}
  /\ UNCHANGED <<cache, store, persist, upVars, flight, ferr, tried, calls, pc, loc>>

CallerStep(p) ==
  \/ GiveUp(p) \/ Reuse(p) \/ Trigger(p) \/ NoSession(p) \/ Park(p) \/ Refresh(p)
  \/ Wake(p) \/ Trust(p) \/ TurnOver(p)
RefreshStep(p) ==
  \/ ShortPass(p) \/ ShortReuse(p) \/ ShortDrop(p) \/ Stop(p) \/ Round(p)
  \/ GetQueued(p) \/ Resume(p) \/ Release(p) \/ Released(p) \/ Admit(p) \/ Refuse(p)
  \/ Failed(p) \/ WaitingRoomGone(p) \/ Admitted(p) \/ Queued(p) \/ Ended(p)
  \/ Locked(p) \/ Unlock(p) \/ Unavailable(p) \/ Write(p) \/ Land(p)
PollStep == PollCommit \/ PollLog \/ Write(Poller)
EndStep == Delete \/ Write(Ender)

Next ==
  \/ \E p \in Callers : Ensure(p) \/ CallerStep(p) \/ Disown(p)
  \/ \E p \in Callers \cup {ReAdmit} : RefreshStep(p)
  \/ PollGet \/ PollStep \/ EndSession \/ ClearQueued \/ EndStep \/ Restart \/ Crash
  \/ Age \/ PollAt \/ Kill \/ Expire

Spec == Init /\ [][Next]_vars

\* Goroutines are scheduled, upstream calls and the async re-admission have
\* timeouts, a turn ends.
Fairness ==
  /\ \A p \in Callers : WF_vars(CallerStep(p) \/ RefreshStep(p))
  /\ WF_vars(RefreshStep(ReAdmit)) /\ WF_vars(PollStep) /\ WF_vars(EndStep)
FairSpec == Spec /\ Fairness

-----------------------------------------------------------------------------
(* What makes it correct.                                                  *)

TypeOK ==
  /\ cache \in Rows /\ store \in Rows /\ persist \in Procs \cup {NoProc}
  /\ age \in [Insts -> {"unborn", "queued", "fresh", "lead", "grace", "over"}]
  /\ bound \in [Insts -> Models \cup {NoModel}] /\ live \in Insts \cup {NoInst}
  /\ flight \in Callers \cup {ReAdmit, NoProc} /\ ferr \in {"", "err", "ctx"}
  /\ tried \in Insts \cup {NoInst} /\ unav \subseteq Models /\ events \in 0 .. MaxEvents /\ calls \in 0 .. MaxCalls
  /\ pc \in [Procs -> PCs] /\ loc \in [Procs -> Locals]

\* Admissions are single-flight: whoever is inside refresh, also between the
\* halves of a commit, is the one the flag names, and nobody waits for a flight
\* that has landed.
Refreshing(p) == \/ pc[p] \in RefreshPCs \ {"write"}
                 \/ pc[p] = "write" /\ loc[p].next \in RefreshPCs
SingleFlight ==
  /\ \A p \in Callers \cup {ReAdmit} : Refreshing(p) <=> flight = p
  /\ \A p \in Callers : pc[p] = "parked" => flight # NoProc

\* A pre-emptive re-admission never disowns the instance a turn dispatches on.
SeatGate ==
  [][pc'[ReAdmit] # pc[ReAdmit] /\ live' # live =>
       \A p \in Callers : pc[p] = "turn" => loc[p].inst # live]_vars

\* Commits reach the store in their order: with no write under way the store
\* has the session the cache has.
StoreMirrors ==
  (persist = NoProc /\ \A p \in Procs : pc[p] # "write") =>
    (cache.inst # NoInst => store.inst = cache.inst /\ store.st = cache.st)

\* commit gives mu back as it got it: the poll that just committed a session
\* finds one.
PollKeepsState == pc[Poller] # "panic"

\* Every EnsureSessionForModel returns: no waiter is left behind by a flight,
\* no loop goes on for ever.
EnsureReturns == \A p \in Callers : pc[p] = "top" ~> pc[p] \in {"idle", "turn"}
=============================================================================
