----------------------------- MODULE AcquireRoute -----------------------------
(***************************************************************************)
(* The pooled acquire route: how a request walks the accounts until one of *)
(* them yields a lease (pool/acquire_route.go), the live-turn slots it     *)
(* takes on the way (pool/slot_ledger.go), the per-model FIFO it parks on  *)
(* when a lane is full (pool/model_queue.go), the spill budget             *)
(* (pool/spill_queue.go) and the seat count that tells the session how     *)
(* many turns ride an account (pool/seat.go).                              *)
(*                                                                         *)
(* One process per request.  A step is what the code does between two      *)
(* points where another goroutine can interfere: a routeMu critical        *)
(* section, an upstream call, a timer.  Whoever else touches the state     *)
(* (the dashboard that edits the roster, the clock that lifts refusals)    *)
(* is an environment action.  Timers fire at any moment.                   *)
(***************************************************************************)
EXTENDS Naturals, Sequences, FiniteSets

CONSTANTS
  Requests,   \* the goroutines that call Pool.Acquire
  Entries,    \* the tokenEntry objects that ever exist
  Models,     \* the models the registry serves
  NoEntry,    \* "no entry": a nil *tokenEntry or *slotPermit
  NoModel,    \* the model of a cold session and of a request that is not walking
  FirstRoster,\* the entries the pool starts with, in index order
  Cap,        \* SLOTS_PER_ACCOUNT, positive: 0 switches slots and queues off
  Depth,      \* QUEUE_DEPTH
  MaxSpill,   \* MAX_SPILL_ACCOUNTS, 0 for no bound
  Refusals,   \* the upstream refusals that may happen
  EnvOps      \* the environment actions that may happen

AllRefusals == {"short429", "long429", "banned", "country", "ipCapped", "other"}
AllEnvOps == {"cancel", "remove", "reorder", "add", "lock", "expire", "coldSession"}

ASSUME RouteAssumption ==
  /\ NoEntry \notin Entries
  /\ NoModel \notin Models
  /\ Cap \in Nat \ {0}
  /\ Depth \in Nat
  /\ MaxSpill \in Nat
  /\ FirstRoster \in Seq(Entries)
  /\ Refusals \subseteq AllRefusals
  /\ EnvOps \subseteq AllEnvOps
  /\ IsFiniteSet(Requests)

VARIABLES
  roster,   \* the current entry list (tokenRoster.toks)
  spare,    \* entries that never were in the roster
  locked,   \* entries the operator locked
  dead,     \* quarantined entries
  cool,     \* [Entries -> {"none", "ban", "country"}]: the cooldown memory
  refused,  \* [Entries -> SUBSET Models]: remembered per-model 429s
  warm,     \* [Entries -> Models]: the model of the usable cached session
  seat,     \* [Entries -> Nat]: seatCounter
  live,     \* [Entries -> [Models -> Nat]]: slotState.live
  queue,    \* [Models -> Seq(Requests)]: routeQueues
  permit,   \* [Requests -> Entries]: the unreleased slotPermit of a request
  lane,     \* [Requests -> Nat]: the roster index that came with the permit
  model,    \* [Requests -> Models]: the requested model
  pc,       \* [Requests -> STRING]: where in the walk a request is
  ws,       \* [Requests -> record]: the walkState and the walk's locals
  ctxDead   \* [Requests -> BOOLEAN]: the caller's ctx has ended

slotVars   == <<live, queue, permit, lane>>
gateVars   == <<locked, dead, cool, refused>>
rosterVars == <<roster, spare>>
reqVars    == <<model, pc, ws, ctxDead>>
vars == <<roster, spare, locked, dead, cool, refused, warm, seat,
          live, queue, permit, lane, model, pc, ws, ctxDead>>

PCs == {"idle", "scan", "walk", "full", "parked", "admit", "session", "run",
        "leased", "next", "fail", "jail", "rescan", "refull", "reparked", "retry", "back"}

\* The points inside admitOnLane at which the turn counts in its seat.
SeatPCs == {"session", "run", "leased", "next", "fail",
            "jail", "rescan", "refull", "reparked"}

WalkStates == [snap : Seq(Entries), order : SUBSET Nat, cur : Nat, pos : Nat,
               park : BOOLEAN, hops : Nat, paid : Nat, tok : Entries \cup {NoEntry}]

NoWalk == [snap |-> <<>>, order |-> {}, cur |-> 0, pos |-> 0, park |-> FALSE,
           hops |-> 0, paid |-> 0, tok |-> NoEntry]

\* The shared pool state ...
PoolTypeOK ==
  /\ roster \in Seq(Entries)
  /\ spare \subseteq Entries
  /\ locked \subseteq Entries
  /\ dead \subseteq Entries
  /\ cool \in [Entries -> {"none", "ban", "country"}]
  /\ refused \in [Entries -> SUBSET Models]
  /\ warm \in [Entries -> Models \cup {NoModel}]
  /\ seat \in [Entries -> Nat]

\* ... and the requests with the slots and queues they are in.
TurnTypeOK ==
  /\ live \in [Entries -> [Models -> Nat]]
  /\ queue \in [Models -> Seq(Requests)]
  /\ permit \in [Requests -> Entries \cup {NoEntry}]
  /\ lane \in [Requests -> Nat]
  /\ model \in [Requests -> Models \cup {NoModel}]
  /\ pc \in [Requests -> PCs]
  /\ ws \in [Requests -> WalkStates]
  /\ ctxDead \in [Requests -> BOOLEAN]

\* Every variable has its type; for a request: its place in the walk is one the
\* code has, and every entry it names is one that exists.
TypeOK == PoolTypeOK /\ TurnTypeOK

Init ==
  /\ roster = FirstRoster
  /\ spare = Entries \ {FirstRoster[i] : i \in DOMAIN FirstRoster}
  /\ locked = {}
  /\ dead = {}
  /\ cool = [e \in Entries |-> "none"]
  /\ refused = [e \in Entries |-> {}]
  /\ warm = [e \in Entries |-> NoModel]
  /\ seat = [e \in Entries |-> 0]
  /\ live = [e \in Entries |-> [m \in Models |-> 0]]
  /\ queue = [m \in Models |-> <<>>]
  /\ permit = [r \in Requests |-> NoEntry]
  /\ lane = [r \in Requests |-> 0]
  /\ model = [r \in Requests |-> NoModel]
  /\ pc = [r \in Requests |-> "idle"]
  /\ ws = [r \in Requests |-> NoWalk]
  /\ ctxDead = [r \in Requests |-> FALSE]

-----------------------------------------------------------------------------
(* Pure reads of the shared state.                                          *)

\* The entry a walk loaded is still at its index in the current roster.
OnRoster(e, i) == i \in DOMAIN roster /\ roster[i] = e

\* laneAdmissible, and walkGates' verdict: may this lane serve the model now?
Admissible(e, m) == /\ e \notin locked
                    /\ e \notin dead
                    /\ cool[e] = "none"
                    /\ m \notin refused[e]

\* spillOrder: the unlocked, unquarantined entries, or all of them when that
\* leaves none.  The order is the index order, so the set of indices says all.
SpillOrder ==
  LET eligible == {i \in DOMAIN roster : roster[i] \notin locked \cup dead}
  IN IF eligible = {} THEN DOMAIN roster ELSE eligible

\* Mutant of PosInOrder: the index that vanished is not shifted to the head.
PosInOrderUnshifted(w, i) == IF i \in w.order THEN i ELSE 0 - 1

\* posInOrder, 0 when the index is not in the walk's order.
PosInOrder(w, i) == IF i \in w.order THEN i ELSE 0

\* q without its i-th element.
Without(q, i) == [j \in 1..(Len(q) - 1) |-> IF j < i THEN q[j] ELSE q[j + 1]]

-----------------------------------------------------------------------------
(* The slot ledger, one routeMu critical section each.                      *)

\* Mutant of TakeSlot: the cap is compared with <=.
TakeSlotOver(r, e, i) ==
  /\ live[e][model[r]] <= Cap
  /\ live' = [live EXCEPT ![e][model[r]] = @ + 1]
  /\ permit' = [permit EXCEPT ![r] = e]
  /\ lane' = [lane EXCEPT ![r] = i]
  /\ UNCHANGED queue

\* slotTry: take a slot of lane (e, model[r]); i is the lane's roster index.
TakeSlot(r, e, i) ==
  /\ live[e][model[r]] < Cap
  /\ live' = [live EXCEPT ![e][model[r]] = @ + 1]
  /\ permit' = [permit EXCEPT ![r] = e]
  /\ lane' = [lane EXCEPT ![r] = i]
  /\ UNCHANGED queue

\* Mutant of FirstAlive: the hand-off takes the head, its ctx alive or not.
FirstAliveAnyCtx(q, i) == i = 1

\* handoffModelQueueLocked's loop drops the waiters at the front of q whose
\* ctx has ended; the i-th, if there is one, is the first that is left.
FirstAlive(q, i) == /\ i \in 1..(Len(q) + 1)
                    /\ \A j \in 1..(i - 1) : ctxDead[q[j]]
                    /\ i <= Len(q) => ~ctxDead[q[i]]

\* Mutants of HandOff: the waiter's slot is counted without uncounting the
\* releasing turn's, and the other way round.
HandOffCounts(r, w, e) ==
  /\ permit' = [permit EXCEPT ![r] = NoEntry, ![w] = e]
  /\ \E i \in DOMAIN roster : roster[i] = e /\ lane' = [lane EXCEPT ![r] = 0, ![w] = i]
  /\ live' = [live EXCEPT ![e][model[r]] = @ + 1]
HandOffFrees(r, w, e) ==
  /\ permit' = [permit EXCEPT ![r] = NoEntry, ![w] = e]
  /\ \E i \in DOMAIN roster : roster[i] = e /\ lane' = [lane EXCEPT ![r] = 0, ![w] = i]
  /\ live' = [live EXCEPT ![e][model[r]] = @ - 1]

\* The slot of the freed lane (e, m) goes to the waiter w, with the lane's
\* current index; live is decremented and incremented again.
HandOff(r, w, e) ==
  /\ permit' = [permit EXCEPT ![r] = NoEntry, ![w] = e]
  /\ \E i \in DOMAIN roster :
       /\ roster[i] = e
       /\ lane' = [lane EXCEPT ![r] = 0, ![w] = i]
  /\ UNCHANGED live

\* slotPermit.Release of a pooled lane.
ReleaseSlot(r) ==
  LET e == permit[r]
      m == model[r]
      q == queue[m]
      willing == (\E i \in DOMAIN roster : roster[i] = e) /\ Admissible(e, m)
  IN \E i \in 1..(Len(q) + 1) :
       /\ FirstAlive(q, i)
       /\ IF i <= Len(q) /\ willing
          THEN /\ HandOff(r, q[i], e)
               /\ queue' = [queue EXCEPT ![m] = SubSeq(q, i + 1, Len(q))]
          ELSE /\ live' = [live EXCEPT ![e][m] = IF @ > 0 THEN @ - 1 ELSE 0]
               /\ permit' = [permit EXCEPT ![r] = NoEntry]
               /\ lane' = [lane EXCEPT ![r] = 0]
               /\ queue' = [queue EXCEPT ![m] = SubSeq(q, i, Len(q))]

\* Mutant of Dequeue: the timer branch forgets the queue.
DequeueForgotten(r) == UNCHANGED slotVars

\* removeModelWaiterLocked: a waiter the hand-off loop already dropped is in
\* no queue, and nothing happens.
Dequeue(r) ==
  /\ \/ \E i \in DOMAIN queue[model[r]] :
          /\ queue[model[r]][i] = r
          /\ queue' = [queue EXCEPT ![model[r]] = Without(@, i)]
     \/ /\ \A i \in DOMAIN queue[model[r]] : queue[model[r]][i] # r
        /\ UNCHANGED queue
  /\ UNCHANGED <<live, permit, lane>>

-----------------------------------------------------------------------------
(* Moves of one request.                                                    *)

Goto(r, state, w) == /\ pc' = [pc EXCEPT ![r] = state]
                     /\ ws' = [ws EXCEPT ![r] = w]
                     /\ UNCHANGED <<model, ctxDead>>

\* Acquire returns an error, or the lease of an earlier one has ended.
Return(r) == /\ pc' = [pc EXCEPT ![r] = "idle"]
             /\ ws' = [ws EXCEPT ![r] = NoWalk]
             /\ model' = [model EXCEPT ![r] = NoModel]
             /\ ctxDead' = [ctxDead EXCEPT ![r] = FALSE]

\* seatCounter.release, when the request counts in a seat.
DropSeat(r) ==
  IF pc[r] \in SeatPCs
  THEN seat' = [seat EXCEPT ![ws[r].tok] = IF @ > 0 THEN @ - 1 ELSE 0]
  ELSE UNCHANGED seat

\* Mutant of LaneNext: the walk comes back to the lane it leaves.
LaneNextSame(r, w) == Goto(r, "walk", [w EXCEPT !.tok = NoEntry]) /\ DropSeat(r)

\* laneNext: the walk goes on at the next position.
LaneNext(r, w) == /\ Goto(r, "walk", [w EXCEPT !.pos = @ + 1, !.tok = NoEntry])
                  /\ DropSeat(r)

\* laneFail: the error goes straight to the caller.
LaneFail(r) == Return(r) /\ DropSeat(r)

\* spillChain.note: one more lane exhausted.  The chain without a bound keeps
\* no count here.
Noted(w) == [w EXCEPT !.hops = IF MaxSpill = 0 THEN 0 ELSE @ + 1]
MaySpill(w) == MaxSpill = 0 \/ w.hops <= MaxSpill

\* A slotQueueExhaustedError meets the budget: next lane, or the tail.
Spill(r, w) == IF MaySpill(Noted(w))
               THEN LaneNext(r, Noted(w))
               ELSE LaneFail(r)

\* Mutant of ToAdmit: the granted lane is looked up in the walk's own snapshot.
ToAdmitByIndex(r, e, i, w, park) ==
  Goto(r, "admit", [w EXCEPT !.tok = IF i \in DOMAIN w.snap THEN w.snap[i] ELSE e,
                             !.cur = 0, !.park = park, !.pos = PosInOrder(w, i)])

\* A permit in hand, the request goes to admitOnLane from roster index i.
ToAdmit(r, e, i, w, park) ==
  Goto(r, "admit", [w EXCEPT !.tok = e, !.cur = 0, !.park = park,
                             !.pos = PosInOrder(w, i)])

\* Pool.Acquire up to the walk: the roster and the order are read once.  An
\* empty roster returns an error at once.
Acquire(r, m) ==
  /\ pc[r] = "idle"
  /\ roster # <<>>
  /\ model' = [model EXCEPT ![r] = m]
  /\ pc' = [pc EXCEPT ![r] = "scan"]
  /\ ws' = [ws EXCEPT ![r] = [NoWalk EXCEPT !.snap = roster, !.order = SpillOrder,
                                            !.cur = 1, !.pos = 1, !.park = TRUE]]
  /\ UNCHANGED <<ctxDead, slotVars, gateVars, rosterVars, warm, seat>>

-----------------------------------------------------------------------------
(* scanWarmFree: on arrival ("scan"), and after a jail whose entry left the *)
(* roster ("rescan").                                                       *)

ScanPCs == {"scan", "rescan"}

ScanOver(r) == ws[r].cur > Len(ws[r].snap) \/ ctxDead[r]
ScanEntry(r) == ws[r].snap[ws[r].cur]

ScanHit(r) == /\ ~ScanOver(r)
              /\ ws[r].cur \in ws[r].order \cap DOMAIN ws[r].snap
              /\ Admissible(ScanEntry(r), model[r])
              /\ warm[ScanEntry(r)] = model[r]
              /\ live[ScanEntry(r)][model[r]] < Cap

ScanNext(r) ==
  /\ pc[r] \in ScanPCs
  /\ ~ScanOver(r)
  /\ ~ScanHit(r)
  /\ Goto(r, pc[r], [ws[r] EXCEPT !.cur = @ + 1])
  /\ UNCHANGED <<slotVars, gateVars, rosterVars, warm, seat>>

\* The first warm lane with a free slot is taken.  After a jail it becomes
\* the carry of smartRetry.
ScanTake(r) ==
  /\ pc[r] \in ScanPCs
  /\ ScanHit(r)
  /\ TakeSlot(r, ScanEntry(r), ws[r].cur)
  /\ IF pc[r] = "scan"
     THEN ToAdmit(r, ScanEntry(r), ws[r].cur, ws[r], TRUE)
     ELSE Goto(r, "retry", [ws[r] EXCEPT !.cur = 0, !.tok = NoEntry])
  /\ DropSeat(r)
  /\ UNCHANGED <<gateVars, rosterVars, warm>>

ScanMiss(r) ==
  /\ pc[r] \in ScanPCs
  /\ ScanOver(r)
  /\ Goto(r, IF pc[r] = "scan" THEN "walk" ELSE "refull", [ws[r] EXCEPT !.cur = 0])
  /\ UNCHANGED <<slotVars, gateVars, rosterVars, warm, seat>>

-----------------------------------------------------------------------------
(* scaleoutFrom: one step per lane of the order.                            *)

WalkOn(r) == pc[r] = "walk" /\ ws[r].pos <= Len(ws[r].snap) /\ ~ctxDead[r]
WalkEntry(r) == ws[r].snap[ws[r].pos]
WalkOpen(r) == /\ WalkOn(r)
               /\ ws[r].pos \in ws[r].order \cap DOMAIN ws[r].snap
               /\ Admissible(WalkEntry(r), model[r])
WalkFull(r) == WalkOpen(r) /\ live[WalkEntry(r)][model[r]] >= Cap

\* The order is exhausted (walkTail), or the caller's ctx has ended.
WalkEnd(r) ==
  /\ pc[r] = "walk"
  /\ ws[r].pos > Len(ws[r].snap) \/ ctxDead[r]
  /\ Return(r)
  /\ UNCHANGED <<slotVars, gateVars, rosterVars, warm, seat>>

\* The lane is not in the order, or walkGates refuses it.
WalkSkip(r) ==
  /\ WalkOn(r)
  /\ ~WalkOpen(r)
  /\ LaneNext(r, ws[r])
  /\ UNCHANGED <<slotVars, gateVars, rosterVars, warm>>

\* A free slot: admit here, warm or cold.
WalkTake(r) ==
  /\ WalkOpen(r)
  /\ TakeSlot(r, WalkEntry(r), ws[r].pos)
  /\ ToAdmit(r, WalkEntry(r), ws[r].pos, ws[r], ws[r].park)
  /\ UNCHANGED <<gateVars, rosterVars, warm, seat>>

\* The lane is full and the request may still park.  slotTry has let go of
\* routeMu; modelPark takes it again.
WalkToPark(r) ==
  /\ WalkFull(r)
  /\ ws[r].park
  /\ Goto(r, "full", ws[r])
  /\ UNCHANGED <<slotVars, gateVars, rosterVars, warm, seat>>

\* The lane is full and the request has paid its park: spill past it.
WalkSpill(r) ==
  /\ WalkFull(r)
  /\ ~ws[r].park
  /\ Spill(r, ws[r])
  /\ UNCHANGED <<slotVars, gateVars, rosterVars, warm>>

-----------------------------------------------------------------------------
(* modelPark, from parkOnFullLane ("full", "parked": tail join) and from    *)
(* modelRequeue ("refull", "reparked": head join).                          *)

\* A spill out of parkOnFullLane goes on without parking again.
NoPark(r) == IF pc[r] \in {"full", "parked"} THEN [ws[r] EXCEPT !.park = FALSE]
             ELSE ws[r]

\* Mutant of QueueFull: the depth is exceeded by one.
QueueFullLate(r) == Len(queue[model[r]]) > Depth

QueueFull(r) == Len(queue[model[r]]) >= Depth

\* The queue is at its depth: "full", at once.
ParkRefused(r) ==
  /\ pc[r] \in {"full", "refull"}
  /\ QueueFull(r)
  /\ Spill(r, NoPark(r))
  /\ UNCHANGED <<slotVars, gateVars, rosterVars, warm>>

Park(r) ==
  /\ pc[r] \in {"full", "refull"}
  /\ ~QueueFull(r)
  /\ IF pc[r] = "full"
     THEN /\ queue' = [queue EXCEPT ![model[r]] = Append(@, r)]
          /\ Goto(r, "parked", ws[r])
     ELSE /\ queue' = [queue EXCEPT ![model[r]] = <<r>> \o @]
          /\ Goto(r, "reparked", ws[r])
  /\ UNCHANGED <<live, permit, lane, gateVars, rosterVars, warm, seat>>

Parked(r) == pc[r] \in {"parked", "reparked"}

\* w.ch is closed, or the ctx or timer branch sees w.granted: take the grant.
ParkGranted(r) ==
  /\ Parked(r)
  /\ permit[r] # NoEntry
  /\ IF pc[r] = "parked"
     THEN ToAdmit(r, permit[r], lane[r], ws[r], FALSE)
     ELSE Goto(r, "retry", [ws[r] EXCEPT !.tok = NoEntry])
  /\ DropSeat(r)
  /\ UNCHANGED <<slotVars, gateVars, rosterVars, warm>>

ParkCancelled(r) ==
  /\ Parked(r)
  /\ permit[r] = NoEntry
  /\ ctxDead[r]
  /\ Dequeue(r)
  /\ LaneFail(r)
  /\ UNCHANGED <<gateVars, rosterVars, warm>>

\* QUEUE_WAIT has elapsed: ws.queueWait grows by a whole wait.  Waits beyond
\* PaidTop are not told apart.
PaidTop == 2

ParkTimeout(r) ==
  /\ Parked(r)
  /\ permit[r] = NoEntry
  /\ Dequeue(r)
  /\ Spill(r, [NoPark(r) EXCEPT !.paid = IF @ < PaidTop THEN @ + 1 ELSE @])
  /\ UNCHANGED <<gateVars, rosterVars, warm>>

-----------------------------------------------------------------------------
(* admitOnLane.                                                             *)

\* The seat is counted and the entry re-validated before any upstream call.
Admit(r) ==
  /\ pc[r] = "admit"
  /\ seat' = [seat EXCEPT ![ws[r].tok] = @ + 1]
  /\ Goto(r, IF OnRoster(ws[r].tok, lane[r]) THEN "session" ELSE "next", ws[r])
  /\ UNCHANGED <<slotVars, gateVars, rosterVars, warm>>

\* EnsureSessionForModel has succeeded: ClearCooldowns forgets every cooldown
\* and every per-model refusal of the entry.  An entry that left the roster
\* meanwhile is not leased.
SessionOk(r) ==
  /\ pc[r] = "session"
  /\ warm' = [warm EXCEPT ![ws[r].tok] = model[r]]
  /\ cool' = [cool EXCEPT ![ws[r].tok] = "none"]
  /\ refused' = [refused EXCEPT ![ws[r].tok] = {}]
  /\ Goto(r, IF OnRoster(ws[r].tok, lane[r]) THEN "run" ELSE "next", ws[r])
  /\ UNCHANGED <<locked, dead, slotVars, rosterVars, seat>>

\* Mutant of RunOk: the deferred seat release runs for a granted lane too.
RunOkDropsSeat(r) ==
  /\ pc[r] = "run"
  /\ Goto(r, IF OnRoster(ws[r].tok, lane[r]) THEN "leased" ELSE "next", ws[r])
  /\ IF OnRoster(ws[r].tok, lane[r]) THEN DropSeat(r) ELSE UNCHANGED seat
  /\ UNCHANGED <<slotVars, gateVars, rosterVars, warm>>

\* runs.Acquire has succeeded; the last roster check precedes the lease.
RunOk(r) ==
  /\ pc[r] = "run"
  /\ Goto(r, IF OnRoster(ws[r].tok, lane[r]) THEN "leased" ELSE "next", ws[r])
  /\ UNCHANGED <<slotVars, gateVars, rosterVars, warm, seat>>

Upstream(r) == pc[r] \in {"session", "run"}

\* A 429 whose window fits in QUEUE_WAIT: wait it out, slot and seat held.
RefusedShort(r) ==
  /\ "short429" \in Refusals
  /\ Upstream(r)
  /\ Goto(r, "jail", ws[r])
  /\ UNCHANGED <<slotVars, gateVars, rosterVars, warm, seat>>

\* A longer 429: remembered for the model, next lane.
RefusedLong(r) ==
  /\ "long429" \in Refusals
  /\ Upstream(r)
  /\ refused' = [refused EXCEPT ![ws[r].tok] = @ \cup {model[r]}]
  /\ Goto(r, "next", ws[r])
  /\ UNCHANGED <<locked, dead, cool, slotVars, rosterVars, warm, seat>>

\* A live ban: cooldown memory and quarantine, next lane.
RefusedBanned(r) ==
  /\ "banned" \in Refusals
  /\ Upstream(r)
  /\ cool' = [cool EXCEPT ![ws[r].tok] = "ban"]
  /\ dead' = dead \cup {ws[r].tok}
  /\ Goto(r, "next", ws[r])
  /\ UNCHANGED <<locked, refused, slotVars, rosterVars, warm, seat>>

\* A country block cools the entry down (a live ban outranks it) and, like an
\* IP cap, surfaces at once: the next account shares the egress.
RefusedCountry(r) ==
  /\ "country" \in Refusals
  /\ Upstream(r)
  /\ cool' = [cool EXCEPT ![ws[r].tok] = IF @ = "ban" THEN @ ELSE "country"]
  /\ Goto(r, "fail", ws[r])
  /\ UNCHANGED <<locked, dead, refused, slotVars, rosterVars, warm, seat>>

RefusedIp(r) ==
  /\ "ipCapped" \in Refusals
  /\ Upstream(r)
  /\ Goto(r, "fail", ws[r])
  /\ UNCHANGED <<slotVars, gateVars, rosterVars, warm, seat>>

\* Anything else, the caller's own ctx ending during the call included.
RefusedOther(r) ==
  /\ "other" \in Refusals \/ ctxDead[r]
  /\ Upstream(r)
  /\ Goto(r, "next", ws[r])
  /\ UNCHANGED <<slotVars, gateVars, rosterVars, warm, seat>>

\* routeSlot.Release, after the refusal has been written down: the hand-off
\* reads the gates as they are by then.
LaneLost(r) ==
  /\ pc[r] \in {"next", "fail", "back"}
  /\ ReleaseSlot(r)
  /\ IF pc[r] = "fail" THEN LaneFail(r) ELSE LaneNext(r, ws[r])
  /\ UNCHANGED <<gateVars, rosterVars, warm>>

-----------------------------------------------------------------------------
(* modelRequeue, and smartRetry with the carry it returns.                  *)

\* The jail sleep ends with the ctx ...
JailCancelled(r) ==
  /\ pc[r] = "jail"
  /\ ctxDead[r]
  /\ ReleaseSlot(r)
  /\ LaneFail(r)
  /\ UNCHANGED <<gateVars, rosterVars, warm>>

\* ... or with the timer: same lane, held permit.
JailOver(r) ==
  /\ pc[r] = "jail"
  /\ OnRoster(ws[r].tok, lane[r])
  /\ Goto(r, "retry", [ws[r] EXCEPT !.tok = NoEntry])
  /\ DropSeat(r)
  /\ UNCHANGED <<slotVars, gateVars, rosterVars, warm>>

\* The entry left meanwhile: drop the permit, scan, rejoin at the head.
JailGone(r) ==
  /\ pc[r] = "jail"
  /\ ~OnRoster(ws[r].tok, lane[r])
  /\ ReleaseSlot(r)
  /\ Goto(r, "rescan", [ws[r] EXCEPT !.cur = 1])
  /\ UNCHANGED <<gateVars, rosterVars, warm, seat>>

\* smartRetry gives the carried permit back: the ctx is dead ...
RetryCancelled(r) ==
  /\ pc[r] = "retry"
  /\ ctxDead[r]
  /\ ReleaseSlot(r)
  /\ Return(r)
  /\ UNCHANGED <<gateVars, rosterVars, warm, seat>>

\* ... or the entry moved or left (the walk restarts at the head), or its
\* gates fail now (the walk goes on past the lane).
RetryElsewhere(r) ==
  /\ pc[r] = "retry"
  /\ ~ctxDead[r]
  /\ \/ /\ ~OnRoster(permit[r], lane[r])
        /\ Goto(r, "back", [ws[r] EXCEPT !.pos = 0, !.park = TRUE])
     \/ /\ OnRoster(permit[r], lane[r])
        /\ ~Admissible(permit[r], model[r])
        /\ Goto(r, "back", [ws[r] EXCEPT !.pos = PosInOrder(ws[r], lane[r]),
                                         !.park = TRUE])
  /\ UNCHANGED <<slotVars, gateVars, rosterVars, warm, seat>>

\* Mutant of RetryAdmit: the carried permit is used without a look at the ctx.
RetryAdmitDeaf(r) ==
  /\ pc[r] = "retry"
  /\ OnRoster(permit[r], lane[r])
  /\ Admissible(permit[r], model[r])
  /\ ToAdmit(r, permit[r], lane[r], ws[r], TRUE)
  /\ UNCHANGED <<slotVars, gateVars, rosterVars, warm, seat>>

RetryAdmit(r) ==
  /\ pc[r] = "retry"
  /\ ~ctxDead[r]
  /\ OnRoster(permit[r], lane[r])
  /\ Admissible(permit[r], model[r])
  /\ ToAdmit(r, permit[r], lane[r], ws[r], TRUE)
  /\ UNCHANGED <<slotVars, gateVars, rosterVars, warm, seat>>

\* LeaseRelease and LeaseAbandon: the turn is over.
LeaseEnd(r) ==
  /\ pc[r] = "leased"
  /\ DropSeat(r)
  /\ ReleaseSlot(r)
  /\ Return(r)
  /\ UNCHANGED <<gateVars, rosterVars, warm>>

-----------------------------------------------------------------------------
(* The environment.                                                         *)

\* The caller's ctx ends: client disconnect, deadline, shutdown.
Cancel(r) ==
  /\ "cancel" \in EnvOps
  /\ pc[r] # "idle"
  /\ ~ctxDead[r]
  /\ ctxDead' = [ctxDead EXCEPT ![r] = TRUE]
  /\ UNCHANGED <<slotVars, gateVars, rosterVars, warm, seat, model, pc, ws>>

\* RemoveLastToken, RemoveTokenAt.  Their busy check is not atomic with the
\* removal, so that it excludes no state here.
Remove(i) ==
  /\ "remove" \in EnvOps
  /\ roster' = Without(roster, i)
  /\ UNCHANGED <<spare, slotVars, gateVars, warm, seat, reqVars>>

\* SwapTokens, and MoveToken over one place.
Reorder(i, j) ==
  /\ "reorder" \in EnvOps
  /\ i # j
  /\ roster' = [roster EXCEPT ![i] = roster[j], ![j] = roster[i]]
  /\ UNCHANGED <<spare, slotVars, gateVars, warm, seat, reqVars>>

\* AddToken appends a new entry.
Add(e) ==
  /\ "add" \in EnvOps
  /\ spare' = spare \ {e}
  /\ roster' = Append(roster, e)
  /\ UNCHANGED <<slotVars, gateVars, warm, seat, reqVars>>

\* LockToken, UnlockLockToken.
ToggleLock(e) ==
  /\ "lock" \in EnvOps
  /\ locked' = IF e \in locked THEN locked \ {e} ELSE locked \cup {e}
  /\ UNCHANGED <<dead, cool, refused, slotVars, rosterVars, warm, seat, reqVars>>

\* A refusal window runs out: one model's 429, or the entry's cooldown, whose
\* deadline a temporary ban shares with its quarantine.
Expire(e) ==
  /\ "expire" \in EnvOps
  /\ \/ /\ \E m \in refused[e] : refused' = [refused EXCEPT ![e] = @ \ {m}]
        /\ UNCHANGED <<dead, cool>>
     \/ /\ cool[e] # "none" \/ e \in dead
        /\ cool' = [cool EXCEPT ![e] = "none"]
        /\ dead' = dead \ {e}
        /\ UNCHANGED refused
  /\ UNCHANGED <<locked, slotVars, rosterVars, warm, seat, reqVars>>

\* The cached session expires, is superseded or ended.
ColdSession(e) ==
  /\ "coldSession" \in EnvOps
  /\ warm[e] # NoModel
  /\ warm' = [warm EXCEPT ![e] = NoModel]
  /\ UNCHANGED <<slotVars, gateVars, rosterVars, seat, reqVars>>

Env == \/ \E i \in DOMAIN roster : Remove(i)
       \/ \E i, j \in DOMAIN roster : Reorder(i, j)
       \/ \E e \in spare : Add(e)
       \/ \E e \in Entries : ToggleLock(e) \/ Expire(e) \/ ColdSession(e)

-----------------------------------------------------------------------------
\* What a request's goroutine does once it is in Acquire.
Step(r) ==
  \/ ScanNext(r) \/ ScanTake(r) \/ ScanMiss(r)
  \/ WalkEnd(r) \/ WalkSkip(r) \/ WalkTake(r) \/ WalkToPark(r) \/ WalkSpill(r)
  \/ ParkRefused(r) \/ Park(r)
  \/ ParkGranted(r) \/ ParkCancelled(r) \/ ParkTimeout(r)
  \/ Admit(r) \/ SessionOk(r) \/ RunOk(r)
  \/ RefusedShort(r) \/ RefusedLong(r) \/ RefusedBanned(r) \/ RefusedCountry(r)
  \/ RefusedIp(r) \/ RefusedOther(r) \/ LaneLost(r)
  \/ JailCancelled(r) \/ JailOver(r) \/ JailGone(r)
  \/ RetryCancelled(r) \/ RetryElsewhere(r) \/ RetryAdmit(r)
  \/ LeaseEnd(r)

Next == \/ \E r \in Requests : \/ \E m \in Models : Acquire(r, m)
                               \/ Step(r)
                               \/ Cancel(r)
        \/ Env

\* Goroutines are scheduled, timers fire, upstream calls return (each has a
\* timeout), and the server ends every lease it was given.
Fairness == \A r \in Requests : WF_vars(Step(r))

Spec == Init /\ [][Next]_vars
FairSpec == Spec /\ Fairness

-----------------------------------------------------------------------------
(* Safety.                                                                  *)

\* The turns that own an unreleased permit of lane (e, m).
Holders(e, m) == {r \in Requests : permit[r] = e /\ model[r] = m}

\* The live counter of a lane is the number of permits out on it: no path of
\* the walk leaks a slot (the old requeue leaked one per cycle,
\* model_queue.go:56-60) or gives one back twice.
SlotConservation ==
  \A e \in Entries, m \in Models : live[e][m] = Cardinality(Holders(e, m))

\* SLOTS_PER_ACCOUNT is a hard wall per (account, model) (slot_ledger.go:4-11),
\* across hand-overs, retries, and removals of the account.
SlotCap == \A e \in Entries, m \in Models : Cardinality(Holders(e, m)) <= Cap

\* Nobody is in a queue twice.
QueueDistinct ==
  \A m \in Models : \A i, j \in DOMAIN queue[m] : i # j => queue[m][i] # queue[m][j]

\* Whoever is in a queue is parked there, for that model, without a grant.
QueueOwned ==
  \A m \in Models : \A i \in DOMAIN queue[m] :
    LET w == queue[m][i] IN Parked(w) /\ model[w] = m /\ permit[w] = NoEntry

\* Whoever is parked without a grant is in the queue, unless a hand-off found
\* its ctx dead and dropped it.
WaiterQueued ==
  \A r \in Requests : Parked(r) /\ permit[r] = NoEntry /\ ~ctxDead[r] =>
    \E i \in DOMAIN queue[model[r]] : queue[model[r]][i] = r

\* A parked request is either granted or in its model's queue, exactly once:
\* "never both and never neither" (model_queue.go:33-38).
QueueSound == QueueDistinct /\ QueueOwned /\ WaiterQueued

\* QUEUE_DEPTH bounds every queue, head joins included (model_queue.go:264-282).
QueueBound == \A m \in Models : Len(queue[m]) <= Depth

\* An idle caller holds no permit, and a request past its roster check works
\* on the account whose slot it holds, also when its permit came from a
\* hand-off or was carried through a jail (acquire_route.go:651-657).
PermitMatchesTurn ==
  \A r \in Requests :
    /\ pc[r] \in {"idle", "scan", "walk", "full", "rescan", "refull"} => permit[r] = NoEntry
    /\ pc[r] \in {"admit", "session", "run", "leased", "next", "fail", "jail"} =>
         permit[r] = ws[r].tok /\ permit[r] # NoEntry
    /\ pc[r] \in {"retry", "back"} => permit[r] # NoEntry

\* A request in the walk knows its model.
ModelKnown == \A r \in Requests : pc[r] # "idle" => model[r] \in Models

\* The seat counter of an account is the number of turns between their
\* admission and the end of their lease (seat.go:8-27), retries included.
SeatConservation ==
  \A e \in Entries :
    seat[e] = Cardinality({r \in Requests : pc[r] \in SeatPCs /\ ws[r].tok = e})

\* A hand-off serves the queue in order: a grant goes to a waiter whose ctx is
\* live, past none but ctx-dead ones, on a lane of the roster that may serve
\* the model (model_queue.go:211-255).
GrantInOrder ==
  [][\A w \in Requests : Parked(w) /\ permit[w] = NoEntry /\ permit'[w] # NoEntry =>
       /\ ~ctxDead[w]
       /\ OnRoster(permit'[w], lane'[w])
       /\ Admissible(permit'[w], model[w])
       /\ \E i \in DOMAIN queue[model[w]] :
            /\ queue[model[w]][i] = w
            /\ \A j \in 1..(i - 1) : ctxDead[queue[model[w]][j]]]_vars

-----------------------------------------------------------------------------
(* Liveness.                                                                *)

\* A cancelled request leaves the walk, its lease included, whatever the
\* upstream answers: no permit or queue place outlives its caller.
CancelledLeaves == \A r \in Requests : ctxDead[r] ~> pc[r] = "idle"

\* Unless upstream answers with short 429s for ever, every Acquire comes to a
\* lease or an error: parks time out and the walk never comes back to a lane it
\* has left.
AcquireEnds ==
  <>[][\A r \in Requests : ~RefusedShort(r)]_vars =>
    \A r \in Requests : pc[r] # "idle" ~> pc[r] \in {"idle", "leased"}

-----------------------------------------------------------------------------
(* The slots seen as a semaphore per lane.                                  *)

NoLane == <<NoEntry, NoModel>>

\* The lane whose slot each request holds.
Holding == [r \in Requests |-> IF permit[r] = NoEntry THEN NoLane
                               ELSE <<permit[r], model[r]>>]

Sem == INSTANCE SlotSemaphore WITH
         Turns <- Requests,
         Lanes <- Entries \X Models,
         holds <- Holding

\* Walk, queue, hand-off and requeue together implement the semaphore.
SlotsAreSemaphore == Sem!SemSpec

-----------------------------------------------------------------------------
(* What the comments say and the code does not do: see the README.          *)

\* "work-conserving FIFO" (model_queue.go:1): with every lane admissible and
\* nobody dead, a request that waits in the queue waits because the lane it
\* found full is full.
WorkConserving ==
  \A r \in Requests :
    pc[r] = "parked" /\ permit[r] = NoEntry /\ ~ctxDead[r] =>
      live[WalkEntry(r)][model[r]] >= Cap

\* "the single QUEUE_WAIT deadline is never paid twice" (acquire_route.go:553).
SingleWait == \A r \in Requests : ws[r].paid <= 1
=============================================================================
