------------------------------- MODULE Maturity -------------------------------
(***************************************************************************)
(* pool/maturity.go: the nightly walk that touches every account whose     *)
(* streak needs it shortly before the Pacific midnight, and the touches an *)
(* operator forces, which run beside it.                                   *)
(*                                                                         *)
(* A tick is a few minutes.  Every night has the window (preflight, the    *)
(* fire gate, a last buffer) at the end of its Day ticks.                  *)
(***************************************************************************)
EXTENDS Integers, Sequences

CONSTANTS
  Rosters,          \* how many accounts there may be
  Day, Window, Gate, Buffer,   \* lengths, in ticks
  Throttle, Backoff,
  MaxClock, MaxActs            \* bounds, by the size of the roster

VARIABLES
  clock,
  fit,       \* fit[a] for the a-th account of the roster: "open", "locked" (or banned), "cooling" (quarantined, cooling, blocked)
  traffic,   \* traffic[a]: the last day with a client's request
  used,      \* used[a]: the last day upstream counts
  streak,    \* streak[a]: whether today was used, as cached
  mat,       \* mat[a]: the MaturitySnapshot
  backoff,   \* maturityBackoffUntil
  job,       \* the walk of the maintenance tick, the operator's walk
  past       \* history

matVars == <<clock, fit, traffic, used, streak, mat, backoff, job, past>>

Accounts == DOMAIN fit
Who == {"tick", "forced"}
MaturityAssumption == Day \in Nat \ {0} /\ Window \in Nat /\ Gate \in Nat /\ Buffer \in Nat /\ Throttle \in Nat /\ Backoff \in Nat
DayOf(t) == t \div Day
Never == -1     \* a day that is none
InWindow(t) == t % Day >= Day - Window
InFireGate(t) == t % Day >= Day - Gate - Buffer /\ t % Day < Day - Buffer
NoJob == [pc |-> "idle", i |-> 0, now |-> 0, all |-> FALSE, since |-> 0]

MatInit ==
  /\ clock = 0 /\ fit \in {[a \in 1 .. n |-> "open"] : n \in Rosters}
  /\ traffic = [a \in Accounts |-> Never] /\ used = [a \in Accounts |-> Never]
  /\ streak = [a \in Accounts |-> "unknown"]
  /\ mat = [a \in Accounts |-> [touched |-> FALSE, at |-> 0, result |-> "none"]]
  /\ backoff = 0 /\ job = [w \in Who |-> NoJob]
  /\ past = [touch |-> [a \in Accounts |-> [by |-> "none", at |-> 0, done |-> Never]],
             acts |-> 0, erased |-> {}, limited |-> FALSE, ticked |-> 0]

\* The next account, or the end of the walk.
NextOf(w) == [job EXCEPT ![w] = IF job[w].i = Len(fit) THEN NoJob
                                ELSE [job[w] EXCEPT !.pc = "look", !.i = @ + 1]]
\* recordMaturitySkip
Skip(a) ==
  /\ mat' = [mat EXCEPT ![a].result = "skip"]
  /\ past' = IF mat[a].result = "ok" THEN [past EXCEPT !.erased = @ \cup {a}] ELSE past
SkipIf(cond, a) == IF cond THEN Skip(a) ELSE UNCHANGED <<mat, past>>
Truth(a) == IF used[a] = DayOf(clock) THEN "used" ELSE "unused"

-----------------------------------------------------------------------------
(* maturityTick, begun once a tick here.                                   *)
TickBegins ==
  /\ job["tick"].pc = "idle" /\ ~ (clock < backoff) /\ past.ticked # clock + 1
  /\ job' = [job EXCEPT !["tick"] = [NoJob EXCEPT !.pc = "look", !.i = 1, !.now = clock]]
  /\ past' = [past EXCEPT !.limited = FALSE, !.ticked = clock + 1]
  /\ UNCHANGED <<clock, fit, traffic, used, streak, mat, backoff>>
\* The health checks, and the streak fetched when it is stale.
Look ==
  LET w == job["tick"]
      a == w.i
  IN /\ w.pc = "look"
     /\ IF fit[a] # "open"
        THEN SkipIf(InWindow(w.now), a) /\ job' = NextOf("tick") /\ UNCHANGED streak
        ELSE /\ job' = [job EXCEPT !["tick"].pc = "decide"] /\ UNCHANGED <<mat, past>>
             /\ \/ streak' = [streak EXCEPT ![a] = Truth(a)]
                \/ UNCHANGED streak   \* an hour old at most, or not to be had
     /\ UNCHANGED <<clock, fit, traffic, used, backoff>>
TouchedToday(a, now) == mat[a].touched /\ DayOf(mat[a].at) = DayOf(now) /\ mat[a].result # "skip"
Throttled(a, now) == mat[a].touched /\ now < mat[a].at + Throttle
Active(a, now) == traffic[a] = DayOf(now) \/ streak[a] = "used"
OnRepeat(a, now) == TouchedToday(a, now) \/ Throttled(a, now)
Start(who) == job' = [job EXCEPT ![who].pc = "touch", ![who].since = clock] /\ UNCHANGED past
Decide ==
  LET w == job["tick"]
      a == w.i
  IN /\ w.pc = "decide"
     /\ \/ /\ Active(a, w.now)
           /\ SkipIf(InWindow(w.now), a) /\ job' = NextOf("tick")
        \/ /\ ~Active(a, w.now)
           /\ OnRepeat(a, w.now) \/ ~InWindow(w.now)
           /\ job' = NextOf("tick") /\ UNCHANGED <<mat, past>>
        \/ /\ ~Active(a, w.now) /\ ~OnRepeat(a, w.now) /\ InWindow(w.now)
           /\ \/ Skip(a) /\ job' = NextOf("tick")   \* before the gate, or no unmetered model
              \/ InFireGate(w.now) /\ Start("tick") /\ UNCHANGED mat
     /\ UNCHANGED <<clock, fit, traffic, used, streak, backoff>>

-----------------------------------------------------------------------------
(* ForceMaturityTouch                                                      *)
ForceBegins(all) ==
  /\ job["forced"].pc = "idle" /\ past.acts < MaxActs[Len(fit)]
  /\ job' = [job EXCEPT !["forced"] = [NoJob EXCEPT !.pc = "look", !.i = 1, !.now = clock, !.all = all]]
  /\ past' = [past EXCEPT !.acts = @ + 1]
  /\ UNCHANGED <<clock, fit, traffic, used, streak, mat, backoff>>
ForceLook ==
  LET w == job["forced"]
      a == w.i
      skips == \/ fit[a] = "locked"
               \/ /\ ~w.all
                  /\ \/ Active(a, w.now) \/ Throttled(a, w.now)
                     \/ TouchedToday(a, w.now) /\ mat[a].result = "ok"
  IN /\ w.pc = "look"
     /\ \/ job' = NextOf("forced") /\ UNCHANGED past    \* skipped, or no unmetered model
        \/ ~skips /\ Start("forced")
     /\ UNCHANGED <<clock, fit, traffic, used, streak, mat, backoff>>

-----------------------------------------------------------------------------
(* The touch itself: session, run, turn, FINISH.  Upstream counts the day  *)
(* of the turn; the snapshot the day the walk began.                       *)
Recorded(who, a, result) == [mat EXCEPT ![a] = [touched |-> TRUE, at |-> job[who].now, result |-> result]]
TouchOk(who) ==
  LET a == job[who].i IN
  /\ job[who].pc = "touch"
  /\ used' = [used EXCEPT ![a] = DayOf(clock)]
  /\ mat' = Recorded(who, a, "ok")
  /\ past' = [past EXCEPT !.touch[a] = [by |-> who, at |-> job[who].now, done |-> DayOf(clock)], !.erased = @ \ {a}]
  /\ job' = NextOf(who)
  /\ UNCHANGED <<clock, fit, traffic, streak, backoff>>
\* A forced touch that failed is not recorded.
TouchFails(who) ==
  LET a == job[who].i IN
  /\ job[who].pc = "touch"
  /\ IF who = "tick"
     THEN mat' = Recorded(who, a, "error") /\ past' = [past EXCEPT !.touch[a] = [by |-> who, at |-> job[who].now, done |-> Never]]
     ELSE UNCHANGED <<mat, past>>
  /\ job' = NextOf(who)
  /\ UNCHANGED <<clock, fit, traffic, used, streak, backoff>>
WalksOn(who) == NextOf(who)
\* A 429 ends the walk of the tick, the operator's goes on.
AfterLimit(who) == IF who = "tick" THEN [job EXCEPT ![who] = NoJob] ELSE NextOf(who)
TouchLimited(who) ==
  LET a == job[who].i IN
  /\ job[who].pc = "touch"
  /\ mat' = IF who = "tick" THEN Recorded(who, a, "error") ELSE mat
  /\ past' = IF who = "tick"
             THEN [past EXCEPT !.touch[a] = [by |-> who, at |-> job[who].now, done |-> Never], !.limited = TRUE]
             ELSE past
  /\ backoff' = job[who].now + Backoff
  /\ job' = AfterLimit(who)
  /\ UNCHANGED <<clock, fit, traffic, used, streak>>

-----------------------------------------------------------------------------
(* The rest of the world.  A touch ends within its timeout, shorter than   *)
(* the buffer; asyncStreakFetch may bring the truth at any time.           *)
Later == /\ clock < MaxClock[Len(fit)] /\ clock' = clock + 1
         /\ \A w \in Who : job[w].pc = "touch" => clock < job[w].since + Buffer
         /\ UNCHANGED <<fit, traffic, used, streak, mat, backoff, job, past>>
World(a) ==
  /\ past.acts < MaxActs[Len(fit)] /\ past' = [past EXCEPT !.acts = @ + 1]
  /\ \/ /\ \E f \in {"open", "locked", "cooling"} \ {fit[a]} : fit' = [fit EXCEPT ![a] = f]
        /\ UNCHANGED <<traffic, used, streak>>
     \/ /\ traffic' = [traffic EXCEPT ![a] = DayOf(clock)] /\ used' = [used EXCEPT ![a] = DayOf(clock)]
        /\ UNCHANGED <<fit, streak>>
     \/ streak' = [streak EXCEPT ![a] = Truth(a)] /\ UNCHANGED <<fit, traffic, used>>
  /\ UNCHANGED <<clock, mat, backoff, job>>

MatNext ==
  \/ TickBegins \/ Look \/ Decide \/ ForceLook \/ Later
  \/ \E all \in BOOLEAN : ForceBegins(all)
  \/ \E w \in Who : TouchOk(w) \/ TouchFails(w) \/ TouchLimited(w)
  \/ \E a \in Accounts : World(a)
MatSpec == MatInit /\ [][MatNext]_matVars

-----------------------------------------------------------------------------
\* What a touch that the nightly walk begins may rely on: the account was not
\* touched within the throttle, nor earlier that day unless a later skip erased it
\* from the snapshot; no 429 ended this walk.  And a success counts upstream for the
\* day it is recorded under when the walk was no slower than the buffer.  All that with
\* a forced touch of the same account under way or not.
TouchBegins(who, a) == job[who].pc # "touch" /\ job'[who].pc = "touch" /\ job[who].i = a
TouchStep ==
  /\ \A a \in Accounts : TouchBegins("tick", a) =>
       LET h == past.touch[a] IN
       /\ h.by # "none" => job["tick"].now >= h.at + Throttle
       /\ h.by # "none" /\ h.done # Never /\ a \notin past.erased => DayOf(h.at) # DayOf(job["tick"].now)
       /\ ~past.limited
  /\ \A a \in Accounts, w \in Who :
       job[w].pc = "touch" /\ job[w].i = a /\ past'.touch[a] # past.touch[a] /\ past'.touch[a].done # Never
       /\ w = "tick" /\ job[w].since = job[w].now => past'.touch[a].done = DayOf(job[w].now)
TouchesMeasured == [][TouchStep]_matVars
=============================================================================
