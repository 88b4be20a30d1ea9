------------------------------ MODULE SmartProbe ------------------------------
(***************************************************************************)
(* pool/smart_probe.go: which account the maintenance tick probes for its  *)
(* quota, and when.  Activity marks an account; a tick collects the due    *)
(* accounts by their places on the roster, and one detached worker probes  *)
(* them a stagger apart, while marks, roster edits and time go on.         *)
(***************************************************************************)
EXTENDS Naturals, Sequences, SequencesExt, FiniteSets

CONSTANTS
  Accounts, Boot,    \* the roster at the start
  Awake,             \* the accounts that start with quota memory
  Fresh, Base, Cap,  \* smartProbeFreshWindow, -BaseInterval, the backoff cap
  MaxPerTick,        \* smartProbeMaxPerTick
  Midnight,          \* the next Pacific midnight
  MaxClock, MaxActs    \* bounds: time; marks, roster edits and changes of health

VARIABLES
  clock,
  order,    \* the roster
  shut,     \* accounts the health guards turn away
  quota,    \* quota[a]: when it was saved and when it resets, 0 for unknown
  due,      \* due[a]: probeDirty, probeNextAt, probeLastAt, probeBackoffStep
  marker,   \* the account somebody is marking, between the two stores
  round,    \* the worker
  past      \* history: what each account's probes said, roster edits

probeVars == <<clock, order, shut, quota, due, marker, round, past>>

NoAccount == "none"
Least(S) == CHOOSE x \in S : \A y \in S : x <= y
Most(S) == CHOOSE x \in S : \A y \in S : x >= y
NoRound == [pc |-> "idle", todo |-> {}, at |-> 0, tok |-> NoAccount, asks |-> NoAccount, says |-> "none"]
ProbeAssumption ==
  /\ Fresh \in Nat /\ Base \in Nat /\ Cap \in Nat /\ Midnight \in Nat
  /\ Boot \in Seq(Accounts) /\ \A i, j \in DOMAIN Boot : Boot[i] = Boot[j] => i = j   \* AUTH_TOKENS is deduplicated

\* smartProbeRetryDelay, saturating at the cap.
RetryDelay(step) == Least({d \in 0 .. Cap : d = Cap \/ d = Base * 2 ^ step})
\* smartProbeResetInstant: Midnight when the memory has no instant; 0 without memory.
ResetInstant(a) ==
  IF ~quota[a].known THEN 0 ELSE IF quota[a].resets = 0 THEN Midnight ELSE quota[a].resets
\* smartProbeDueToken
IsFresh(a) == quota[a].saved # 0 /\ clock - quota[a].saved < Fresh
IsDue(a) ==
  /\ a \notin shut /\ ~IsFresh(a)
  /\ due[a].next = 0 \/ clock >= due[a].next
  /\ \/ due[a].dirty
     \/ ResetInstant(a) # 0 /\ clock >= ResetInstant(a) /\ ResetInstant(a) > due[a].last
\* smartProbeDue: places, not accounts; the round takes them in their order.
DuePlaces ==
  LET all == {i \in DOMAIN order : IsDue(order[i])}
  IN {i \in all : Cardinality({j \in all : j < i}) < MaxPerTick}

ProbeInit ==
  /\ clock = 1 /\ order = Boot /\ shut = {} /\ marker = NoAccount
  /\ quota = [a \in Accounts |-> [known |-> a \in Awake, saved |-> 0, resets |-> 0]]
  /\ due = [a \in Accounts |-> [dirty |-> FALSE, next |-> 0, last |-> 0, step |-> 0]]
  /\ round = NoRound
  /\ past = [of |-> [a \in Accounts |-> [says |-> "none", at |-> 0, refusals |-> 0, nudged |-> FALSE,
                                        owed |-> FALSE, awake |-> a \in Awake]],
             acts |-> 0, moved |-> FALSE]

-----------------------------------------------------------------------------
(* markProbeDirty, from lease grants, answered chats and 429 refusals.     *)
Active(h, looking) == [h EXCEPT !.awake = TRUE, !.owed = @ \/ ~looking]
Mark(a) ==
  /\ marker = NoAccount /\ marker' = a /\ past.acts < MaxActs
  /\ due' = [due EXCEPT ![a].dirty = TRUE]
  /\ past' = [past EXCEPT !.acts = @ + 1,
                          !.of[a] = Active(@, round.tok = a /\ round.pc \in {"asked", "answered"})]
  /\ UNCHANGED <<clock, order, shut, quota, round>>
MarkMoves(a) ==
  /\ marker = a /\ marker' = NoAccount
  /\ LET reached == due[a].next # 0 /\ due[a].next <= clock
     IN due' = IF reached THEN due ELSE [due EXCEPT ![a].next = clock]
  /\ past' = [past EXCEPT !.of[a].nudged = TRUE]
  /\ UNCHANGED <<clock, order, shut, quota, round>>

-----------------------------------------------------------------------------
(* A tick dispatches a round unless one is under way.                      *)
Tick ==
  /\ round.pc = "idle" /\ DuePlaces # {}
  /\ round' = [NoRound EXCEPT !.pc = "fire", !.todo = DuePlaces]
  /\ UNCHANGED <<clock, order, shut, quota, due, marker, past>>
\* smartProbeFireOne takes the account at the place...
Fire ==
  /\ round.pc = "fire"
  /\ \/ round.todo = {} /\ round' = NoRound
     \/ \E i \in round.todo :
          /\ \A j \in round.todo : i <= j
          /\ round' = IF i > Len(order) THEN [round EXCEPT !.todo = @ \ {i}]
                      ELSE [round EXCEPT !.todo = @ \ {i}, !.at = i, !.tok = order[i], !.pc = "ask"]
  /\ UNCHANGED <<clock, order, shut, quota, due, marker, past>>
\* ... and ProbeTokenDetailed looks the place up again.
Ask ==
  /\ round.pc = "ask"
  /\ IF round.at > Len(order)
     THEN round' = [round EXCEPT !.pc = "answered", !.says = "error"] /\ UNCHANGED past
     ELSE LET a == order[round.at] IN
          /\ round' = [round EXCEPT !.asks = a, !.pc = "asked"]
          /\ past' = [past EXCEPT !.of[a].owed = FALSE]
  /\ UNCHANGED <<clock, order, shut, quota, due, marker>>
Says == {"ok", "bare", "refused", "exhausted", "error", "banned"}
Heard(h, says) ==
  [h EXCEPT !.says = says, !.at = clock, !.nudged = FALSE, !.awake = @ \/ says \in {"ok", "exhausted"},
            !.refusals = CASE says = "refused" -> @ + 1 [] says \in {"error", "banned"} -> @ [] OTHER -> 0]
Answer(says) ==
  LET a == round.asks
      resets == Most({clock + 1, Midnight})
  IN /\ round.pc = "asked"
     /\ round' = [round EXCEPT !.pc = "answered", !.says = says]
     /\ CASE says = "ok" -> quota' = [quota EXCEPT ![a] = [known |-> TRUE, saved |-> clock, resets |-> resets]]
          [] says = "exhausted" -> quota' = [quota EXCEPT ![a] = [@ EXCEPT !.known = TRUE, !.resets = resets]]
          [] OTHER -> UNCHANGED quota
     /\ shut' = IF says \in {"exhausted", "banned"} /\ round.at <= Len(order)
                THEN shut \cup {order[round.at]} ELSE shut
     /\ past' = [past EXCEPT !.of[a] = Heard(@, says)]
     /\ UNCHANGED <<clock, order, due, marker>>
ClearMark(d) == [d EXCEPT !.last = clock, !.dirty = FALSE]
Clear ==
  /\ round.pc = "answered" /\ round' = [round EXCEPT !.pc = "settle"]
  /\ due' = [due EXCEPT ![round.tok] = ClearMark(@)]
  /\ UNCHANGED <<clock, order, shut, quota, marker, past>>
\* The outcome is folded into the schedule of the account taken first.
NextSchedule(d, says) ==
  CASE says = "refused" -> [d EXCEPT !.step = @ + 1, !.next = clock + RetryDelay(d.step + 1)]
    [] says = "exhausted" -> [d EXCEPT !.step = 0, !.next = Most({clock + 1, Midnight})]
    [] says \in {"error", "banned"} -> [d EXCEPT !.next = clock + Base]
    [] OTHER -> [d EXCEPT !.step = 0, !.next = 0]
Settle ==
  /\ round.pc = "settle"
  /\ due' = [due EXCEPT ![round.tok] = NextSchedule(@, round.says)]
  /\ round' = [NoRound EXCEPT !.pc = "fire", !.todo = round.todo]
  /\ UNCHANGED <<clock, order, shut, quota, marker, past>>
\* Shutdown ends the worker between two probes.
Stop == round.pc = "fire" /\ round' = NoRound /\ UNCHANGED <<clock, order, shut, quota, due, marker, past>>

-----------------------------------------------------------------------------
(* Time, the health of the accounts, and the operator.                     *)
Later == /\ clock < MaxClock /\ clock' = clock + 1
         /\ round.pc \notin {"ask", "answered", "settle"}   \* the stores of one fire share one now
         /\ UNCHANGED <<order, shut, quota, due, marker, round, past>>
Health(a) == /\ past.acts < MaxActs /\ past' = [past EXCEPT !.acts = @ + 1]
             /\ shut' = IF a \in shut THEN shut \ {a} ELSE shut \cup {a}
             /\ UNCHANGED <<clock, order, quota, due, marker, round>>
Move ==
  /\ past.acts < MaxActs
  /\ \/ \E i, j \in DOMAIN order : i < j /\ order' = [order EXCEPT ![i] = order[j], ![j] = order[i]]
     \/ \E i \in DOMAIN order : order' = RemoveAt(order, i)
  /\ past' = [past EXCEPT !.acts = @ + 1, !.moved = @ \/ round.pc # "idle"]
  /\ UNCHANGED <<clock, shut, quota, due, marker, round>>

ProbeNext ==
  \/ \E a \in Accounts : Mark(a) \/ MarkMoves(a) \/ Health(a)
  \/ Tick \/ Fire \/ Ask \/ Clear \/ Settle \/ Stop \/ Later \/ Move
  \/ \E says \in Says : Answer(says)
ProbeSpec == ProbeInit /\ [][ProbeNext]_probeVars

-----------------------------------------------------------------------------
\* A probe goes to an account that was active or has quota memory, not within the
\* fresh window of a metered answer, not within the delay its refusals in a row
\* have earned or the quiet interval after an error unless activity moved the
\* instant; and activity no probe has looked at since is remembered.  Of rounds
\* whose places moved under the worker nothing is said (README, section 5).
WellAsked(a) ==
  LET h == past.of[a] IN
  /\ h.awake
  /\ h.says = "ok" => clock - h.at >= Fresh
  /\ h.says = "refused" => h.nudged \/ clock >= h.at + RetryDelay(h.refusals)
  /\ h.says \in {"error", "banned"} => h.nudged \/ clock >= h.at + Base
MarkKept == \A a \in Accounts : past.of[a].owed => due[a].dirty
ProbeStep ==
  ~past.moved =>
    /\ round.pc = "ask" /\ round'.pc = "asked" => WellAsked(round'.asks)
    /\ MarkKept
ProbesMeasured == [][ProbeStep]_probeVars
=============================================================================
