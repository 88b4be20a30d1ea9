------------------------------ MODULE ChatEngine ------------------------------
(***************************************************************************)
(* server/engine.go and engine_attempt.go with the retries of the upstream *)
(* client below them: a chat acquires a lease, posts, waits out a queue on *)
(* the same session, ends the lease, reacts to what the upstream refused   *)
(* with, starts over once when its run is gone, and answers its client.    *)
(* An account is one pooled token or one client's own (bridge) token.      *)
(***************************************************************************)
EXTENDS Refusals, FiniteSets

CONSTANTS
  Chats, ChatAccounts,
  PooledAccounts,    \* served through the pool; the others through AcquireBridge
  Menu,              \* Menu[c]: what the upstream may refuse c with
  Leavers,           \* the chats whose client may go away
  Budget,            \* TRANSIENT_RETRIES
  MaxMoves           \* re-admissions nobody's chat asked for

VARIABLES
  sess,      \* instance of each account's cached session, 0 for none
  precious,  \* accounts whose session served a lease through the pool
  run,       \* current run of each account, 0 for none
  barred,    \* accounts remembered as banned
  born,      \* instances, runs and re-admissions so far
  chat,      \* each request
  verdicts   \* history: what the upstream said of which instance

cvars == <<sess, precious, run, barred, born, chat, verdicts>>

\* TRANSIENT_RETRIES and a Retry-After are numbers.
ASSUME ChatAssumption ==
  /\ Budget \in Nat
  /\ \A c \in Chats : \A reply \in Menu[c] : reply.delay \in Nat

Enders == {"superseded", "session_invalid", "room_required"}
NoAnswer == [class |-> "", status |-> 0, delay |-> 0]
NewChat(a) ==
  [pc |-> "acquire", acct |-> a, inst |-> 0, run |-> 0, lost |-> 0, round |-> 1, waits |-> 0, tries |-> 0,
   granted |-> 0, ended |-> 0, gone |-> FALSE, why |-> NoAnswer, told |-> NoAnswer]
CInit ==
  /\ sess = [a \in ChatAccounts |-> 0] /\ run = [a \in ChatAccounts |-> 0]
  /\ precious = {} /\ barred = {} /\ verdicts = {}
  /\ born = [sess |-> 0, run |-> 0, moves |-> 0]
  /\ chat \in [Chats -> {NewChat(a) : a \in ChatAccounts}]

-----------------------------------------------------------------------------
At(c, pc) == chat[c].pc = pc
Holds(c) == chat[c].granted > chat[c].ended
Canceled == [NoAnswer EXCEPT !.class = "canceled"]
Unreached == [class |-> "transport", status |-> 502, delay |-> 0]
\* Why a refusal leaves the engine: a client that went away comes first.
Cause(c, reply) == IF chat[c].gone THEN Canceled ELSE writeError(classifyError(reply), reply)

\* chatCore's rotate-and-retry-once, or the answer.
AfterError(c, k) ==
  IF k.why.class = "run_invalid" /\ k.round = 1 /\ ~k.gone
  THEN [k EXCEPT !.pc = "acquire", !.round = 2, !.waits = 0, !.tries = 0,
                  !.inst = 0, !.run = 0, !.lost = k.run]
  ELSE [k EXCEPT !.pc = "answer"]

AcquireFails(c) ==
  /\ At(c, "acquire")
  /\ \E reply \in Menu[c] :
       /\ chat[c].acct \in barred => classifyError(reply) = "banned"
       /\ chat' = [chat EXCEPT ![c] = AfterError(c, [@ EXCEPT !.why = Cause(c, reply)])]
       /\ barred' = IF Cause(c, reply).class = "banned" THEN barred \cup {chat[c].acct} ELSE barred
  /\ UNCHANGED <<sess, precious, run, born, verdicts>>

\* The session and the run that are cached, or fresh ones.
AcquireGrants(c) ==
  LET a == chat[c].acct
      newSess == sess[a] = 0
      newRun == run[a] = 0
      b == [born EXCEPT !.sess = IF newSess THEN @ + 1 ELSE @, !.run = IF newRun THEN @ + 1 ELSE @]
      i == IF newSess THEN b.sess ELSE sess[a]
      r == IF newRun THEN b.run ELSE run[a]
  IN /\ At(c, "acquire") /\ a \notin barred
     /\ born' = b
     /\ sess' = [sess EXCEPT ![a] = i]
     /\ run' = [run EXCEPT ![a] = r]
     /\ precious' = IF a \in PooledAccounts THEN precious \cup {a} ELSE precious
     /\ chat' = [chat EXCEPT ![c].pc = "post", ![c].inst = i, ![c].run = r, ![c].granted = @ + 1]
     /\ UNCHANGED <<barred, verdicts>>

Refused(c, why) ==
  [chat EXCEPT ![c].why = why, ![c].tries = 0, ![c].pc = IF why.class = "banned" THEN "ban" ELSE "release"]

\* ChatCompletions: a queue is waited out within the budget of the call.
WaitOnceMore(c) == chat[c].waits <= Budget
MayWait(c) == chat[c].waits < Budget
PostRefused(c) ==
  /\ At(c, "post")
  /\ \E reply \in Menu[c] :
       LET why == Cause(c, reply) IN
       /\ chat' = IF why.class \in Queues /\ MayWait(c)
                  THEN [chat EXCEPT ![c].pc = "wait", ![c].waits = @ + 1, ![c].tries = 0]
                  ELSE Refused(c, why)
       /\ verdicts' = verdicts \cup ({<<chat[c].inst, why.class>>} \cap (Nat \X Enders))
  /\ UNCHANGED <<sess, precious, run, barred, born>>

\* do: a connection that failed is tried again within the budget of the post.
PostLost(c) ==
  /\ At(c, "post")
  /\ chat' = IF chat[c].gone THEN Refused(c, Canceled)
             ELSE IF chat[c].tries < Budget THEN [chat EXCEPT ![c].pc = "backoff", ![c].tries = @ + 1]
             ELSE Refused(c, Unreached)
  /\ UNCHANGED <<sess, precious, run, barred, born, verdicts>>

WaitEnds(c) ==
  /\ At(c, "wait") \/ At(c, "backoff")
  /\ chat' = IF chat[c].gone THEN Refused(c, Canceled) ELSE [chat EXCEPT ![c].pc = "post"]
  /\ UNCHANGED <<sess, precious, run, barred, born, verdicts>>

-----------------------------------------------------------------------------
\* CooldownBan comes before the release.
Ban(c) ==
  /\ At(c, "ban")
  /\ barred' = barred \cup {chat[c].acct}
  /\ chat' = [chat EXCEPT ![c].pc = "release"]
  /\ UNCHANGED <<sess, precious, run, born, verdicts>>

\* LeaseRelease, or LeaseAbandon when the client is gone: the last one on an
\* abandoned run that is still current takes it out of use.
EndLease(c, pc) ==
  LET k == chat[c]
      alone == \A d \in Chats \ {c} : ~(Holds(d) /\ chat[d].run = k.run)
  IN /\ run' = IF k.gone /\ alone /\ run[k.acct] = k.run THEN [run EXCEPT ![k.acct] = 0] ELSE run
     /\ chat' = [chat EXCEPT ![c].pc = pc, ![c].ended = @ + 1]
     /\ UNCHANGED <<sess, precious, barred, born, verdicts>>

\* An attempt that succeeds without disarming its own release.
OkStillArmed(c) == At(c, "post") /\ EndLease(c, "relay")
\* The stream and the lease belong to chatCore from here on.
PostOk(c) ==
  /\ At(c, "post")
  /\ chat' = [chat EXCEPT ![c].pc = "relay", ![c].tries = 0]
  /\ UNCHANGED <<sess, precious, run, barred, born, verdicts>>

Release(c) == At(c, "release") /\ EndLease(c, "recover")
RelayDone(c) == At(c, "relay") /\ EndLease(c, "done")

\* A drop that does not look at the instance.
DropCurrent(a, i) == [sess EXCEPT ![a] = 0]
\* InvalidateInstanceWithReason drops the session of the instance it names; the
\* pool keeps one that served a lease unless another instance took over.
DropInstance(a, i) == IF sess[a] = i THEN [sess EXCEPT ![a] = 0] ELSE sess
KeepSession(k) == k.acct \in precious /\ sess[k.acct] # 0
SessionAfter(k) ==
  IF \/ k.why.class = "superseded"
     \/ k.why.class \in {"session_invalid", "room_required"} /\ ~KeepSession(k)
  THEN DropInstance(k.acct, k.inst) ELSE sess
Recover(c) ==
  LET k == chat[c] IN
  /\ At(c, "recover")
  /\ sess' = SessionAfter(k)
  /\ run' = IF k.why.class = "run_invalid" THEN [run EXCEPT ![k.acct] = 0] ELSE run
  /\ chat' = [chat EXCEPT ![c] = AfterError(c, k)]
  /\ UNCHANGED <<precious, barred, born, verdicts>>

Answer(c) ==
  /\ At(c, "answer")
  /\ chat' = [chat EXCEPT ![c].pc = "done",
                          ![c].told = IF chat[c].gone \/ chat[c].why = Canceled THEN NoAnswer ELSE chat[c].why]
  /\ UNCHANGED <<sess, precious, run, barred, born, verdicts>>

-----------------------------------------------------------------------------
ClientLeaves(c) ==
  /\ c \in Leavers /\ ~At(c, "done") /\ ~chat[c].gone
  /\ chat' = [chat EXCEPT ![c].gone = TRUE]
  /\ UNCHANGED <<sess, precious, run, barred, born, verdicts>>
\* The session manager replaces the instance before it expires.
Readmit(a) ==
  /\ sess[a] # 0 /\ born.moves < MaxMoves
  /\ born' = [born EXCEPT !.sess = @ + 1, !.moves = @ + 1]
  /\ sess' = [sess EXCEPT ![a] = born.sess + 1]
  /\ UNCHANGED <<precious, run, barred, chat, verdicts>>

CNext ==
  \/ \E c \in Chats : \/ AcquireFails(c) \/ AcquireGrants(c)
                      \/ PostRefused(c) \/ PostLost(c) \/ WaitEnds(c) \/ PostOk(c)
                      \/ Ban(c) \/ Release(c) \/ Recover(c) \/ RelayDone(c) \/ Answer(c)
                      \/ ClientLeaves(c)
  \/ \E a \in ChatAccounts : Readmit(a)
CSpec == CInit /\ [][CNext]_cvars

-----------------------------------------------------------------------------
CTypeOK ==
  /\ sess \in [ChatAccounts -> 0 .. born.sess] /\ run \in [ChatAccounts -> 0 .. born.run]
  /\ precious \subseteq PooledAccounts /\ barred \subseteq ChatAccounts
  /\ \A c \in Chats : /\ chat[c].inst <= born.sess /\ chat[c].run <= born.run
                      /\ chat[c].waits <= Budget /\ chat[c].tries <= Budget
                      /\ chat[c].round \in {1, 2}

\* A cached session is thrown away only when the upstream ended that very
\* instance; a chat never rides an instance that another chat was already
\* answered about as taken over; and the second round runs on another run than
\* the one it lost (engine_attempt.go:218-248, lifecycle.go:185-205).
LearnedOf(classes) == {chat[c].inst : c \in {d \in Chats : chat[d].pc = "done" /\ chat[d].ended > 0
                                                         /\ chat[d].why.class \in classes}}
Granted(c) == chat'[c].granted > chat[c].granted
FateStep ==
  /\ \A a \in ChatAccounts : sess[a] # 0 /\ sess'[a] = 0
       => \E class \in Enders : <<sess[a], class>> \in verdicts
  /\ \A c \in Chats : Granted(c) => /\ chat'[c].inst \notin LearnedOf({"superseded"})
                                    /\ chat'[c].run # chat[c].lost
SessionFate == [][FateStep]_cvars

\* Every lease is ended once and none is held by a chat that was answered; a
\* ban is remembered before the seat it was learned on is free again; a client
\* is told to come back only when that can help, and about a queue only after
\* the budget was spent on it (engine.go:214-227, engine_attempt.go:165-185,
\* server/errors.go:128-506).
ChatSettled ==
  \A c \in Chats : LET k == chat[c] IN
    /\ k.ended <= k.granted /\ k.granted <= k.ended + 1
    /\ k.pc \in {"answer", "done"} => k.granted = k.ended
    /\ k.why.class = "banned" /\ k.ended = k.granted /\ k.granted > 0 => k.acct \in barred
    /\ k.told.class \in Terminal => k.told.delay = 0
    /\ k.told.class \in Queues => /\ k.told.status \in {429, 503} /\ k.told.delay > 0
                                  /\ k.inst # 0 => k.waits = Budget
=============================================================================
