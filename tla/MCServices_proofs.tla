------------------------- MODULE MCServices_proofs -------------------------
(***************************************************************************)
(* What holds of chats, refusals and log records for any number of them,   *)
(* any accounts and models, any budget and any bound.  The components      *)
(* share no variable, so each keeps its own inductive invariant: CInv for  *)
(* the chats, GateInv for the gates, LogInv for the log.                   *)
(***************************************************************************)
EXTENDS MCServices, SequenceTheorems, TLAPS

(* The fate of leases, sessions and answers, whatever the upstream refuses *)
(* with.                                                                   *)

Holding == {"post", "wait", "backoff", "ban", "release", "relay"}
Ending == {"recover", "answer", "done"}
Early == {"acquire", "post", "wait", "backoff", "relay"}

Honest(a) ==
  /\ a.class \in Terminal => a.delay = 0
  /\ a.class \in Queues => a.status \in {429, 503} /\ a.delay > 0

\* A chat by itself.
Shape(k) ==
  k = [pc |-> k.pc, acct |-> k.acct, inst |-> k.inst, run |-> k.run, lost |-> k.lost, round |-> k.round,
       waits |-> k.waits, tries |-> k.tries, granted |-> k.granted, ended |-> k.ended, gone |-> k.gone,
       why |-> k.why, told |-> k.told]
Numbers(k) ==
  /\ k.acct \in ChatAccounts /\ k.waits \in 0 .. Budget
  /\ k.inst \in Nat /\ k.run \in Nat /\ k.lost \in Nat /\ k.granted \in Nat /\ k.ended \in Nat
Fields(k) == Shape(k) /\ Numbers(k)

\* Who holds a lease has been granted one more than it ended.
Place(k) ==
  /\ k.pc \in Holding \cup Ending \cup {"acquire"}
  /\ k.granted = k.ended + (IF k.pc \in Holding THEN 1 ELSE 0)
  /\ k.pc = "acquire" => k.inst = 0 /\ k.run = 0
  /\ k.pc \in Holding \cup {"recover"} => k.inst > 0 /\ k.run > 0

\* A queue is what a chat is refused with once the budget is spent on it, or where
\* nothing was posted; and the client is told what the chat was refused with.
Said(k) ==
  /\ k.pc \in Early => k.why.class \in {"", "run_invalid"}
  /\ k.why.class \in Queues /\ k.inst # 0 => k.waits = Budget
  /\ k.told = NoAnswer \/ (k.pc = "done" /\ k.told = k.why)

Fit(k) == Fields(k) /\ Place(k) /\ Honest(k.why) /\ Said(k)

\* A chat and what it shares: the ban it learned of is remembered before its seat is free,
\* what it ended a session for is what the upstream said, its session and run are nobody
\* else's, and what it found taken over or dead is not cached any more.
Known(k) ==
  /\ k.pc \in Ending \cup {"release"} /\ k.why.class = "banned" => k.acct \in barred
  /\ k.pc \in {"ban", "release", "recover"} /\ k.why.class \in Enders => <<k.inst, k.why.class>> \in verdicts
  /\ k.inst <= born.sess /\ k.run <= born.run /\ k.lost <= born.run
  /\ \A a \in ChatAccounts : /\ k.inst # 0 /\ sess[a] = k.inst => a = k.acct
                             /\ k.run # 0 /\ run[a] = k.run => a = k.acct
                             /\ k.lost # 0 => run[a] # k.lost
  /\ k.pc \in {"answer", "done"} /\ k.why.class = "superseded" /\ k.inst # 0 =>
       \A a \in ChatAccounts : sess[a] # k.inst

\* No two accounts share a session or a run, and none is newer than the newest.
Distinct(f, newest) ==
  /\ f \in [ChatAccounts -> Nat] /\ newest \in Nat
  /\ \A a \in ChatAccounts : f[a] <= newest
  /\ \A a, b \in ChatAccounts : f[a] = f[b] /\ f[a] # 0 => a = b
Books ==
  /\ Distinct(sess, born.sess) /\ Distinct(run, born.run)
  /\ born = [sess |-> born.sess, run |-> born.run, moves |-> born.moves] /\ born.moves \in Nat

CInv ==
  /\ Books /\ chat = [c \in Chats |-> chat[c]]
  /\ \A c \in Chats : Fit(chat[c]) /\ Known(chat[c])

-----------------------------------------------------------------------------
(* Answers.                                                                *)
LEMMA WrittenHonest ==
  ASSUME NEW class, NEW reply, reply.delay \in Nat
  PROVE  Honest(writeError(class, reply))
<1>1. CASE class \in Terminal
  <2>1. ClientDelay(class, reply) = 0
    BY <1>1 DEF Terminal, ClientDelay, Queues, RateLimits
  <2>2. class \notin Queues
    BY <1>1 DEF Terminal, Queues
  <2> QED
    BY <2>1, <2>2 DEF Honest, writeError
<1>2. CASE class \in Queues
  <2>1. ClientDelay(class, reply) > 0
    <3>1. ClientDelay(class, reply) = OrQueueWindow(reply.delay)
      BY <1>2 DEF ClientDelay, Queues, RateLimits
    <3> QED
      BY <3>1 DEF OrQueueWindow, QueueWindow
  <2>2. ClientStatus(class, reply) \in {429, 503}
    BY <1>2 DEF ClientStatus, Queues, RateLimits
  <2>3. class \notin Terminal
    BY <1>2 DEF Terminal, Queues
  <2> QED
    BY <2>1, <2>2, <2>3 DEF Honest, writeError
<1>3. CASE class \notin Terminal \cup Queues
  BY <1>3 DEF Honest, writeError
<1> QED
  BY <1>1, <1>2, <1>3

LEMMA PlainHonest ==
  /\ Honest(NoAnswer) /\ Honest(Canceled) /\ Honest(Unreached)
  /\ NoAnswer.class = "" /\ Canceled.class = "canceled" /\ Unreached.class = "transport"
BY DEF Honest, NoAnswer, Canceled, Unreached, Terminal, Queues

LEMMA CauseHonest ==
  ASSUME NEW c \in Chats, NEW reply \in Menu[c]
  PROVE  Honest(Cause(c, reply))
BY WrittenHonest, PlainHonest, ChatAssumption DEF Cause

-----------------------------------------------------------------------------
(* What a step of one chat leaves of the others.                           *)
Aged(f, newest, g) == \A a \in ChatAccounts : g[a] \in {f[a], 0} \/ g[a] > newest
Grown ==
  /\ barred \subseteq barred' /\ verdicts \subseteq verdicts'
  /\ born.sess <= born'.sess /\ born.run <= born'.run
  /\ Aged(sess, born.sess, sess') /\ Aged(run, born.run, run')

LEMMA OthersKnow ==
  ASSUME CInv, Books', Grown, NEW d \in Chats, chat'[d] = chat[d]
  PROVE  Fit(chat[d])' /\ Known(chat[d])'
<1> DEFINE k == chat[d]
<1>1. Fit(k) /\ Known(k) /\ k' = k
  BY DEF CInv
<1>2. Fit(k)'
  <2>1. Fit(k)' <=> Fit(k')
    BY DEF Fit, Fields, Shape, Numbers, Place, Honest, Said
  <2> QED
    BY <1>1, <2>1
<1>3. k.inst \in Nat /\ k.run \in Nat /\ k.lost \in Nat
  BY <1>1 DEF Fit, Fields, Numbers
<1>4. /\ born.sess \in Nat /\ born.run \in Nat /\ born'.sess \in Nat /\ born'.run \in Nat
      /\ \A a \in ChatAccounts : sess[a] \in Nat /\ run[a] \in Nat /\ sess'[a] \in Nat /\ run'[a] \in Nat
  BY DEF CInv, Books, Distinct
<1>5. k.inst <= born.sess /\ k.run <= born.run /\ k.lost <= born.run
  BY <1>1 DEF Known
<1> HIDE DEF k
<1>6. \A a \in ChatAccounts : /\ k.inst # 0 /\ sess'[a] = k.inst => sess[a] = k.inst
                              /\ k.run # 0 /\ run'[a] = k.run => run[a] = k.run
                              /\ k.lost # 0 /\ run'[a] = k.lost => run[a] = k.lost
  BY <1>3, <1>4, <1>5 DEF Grown, Aged
<1>7. Known(k)'
  BY <1>1, <1>3, <1>4, <1>5, <1>6 DEF Known, Grown
<1> QED
  BY <1>2, <1>7 DEF k

\* With the chat itself, it is all the invariant.
LEMMA ChatSteps ==
  ASSUME CInv, Books', Grown, NEW c \in Chats, chat' = [chat EXCEPT ![c] = chat'[c]],
         Fit(chat'[c]), Known(chat[c])'
  PROVE  CInv'
<1>1. \A d \in Chats \ {c} : chat'[d] = chat[d]
  BY DEF CInv
<1>2. chat' = [d \in Chats |-> chat'[d]]
  BY DEF CInv
<1>3. Fit(chat[c])'
  BY DEF Fit, Fields, Shape, Numbers, Place, Honest, Said
<1>4. \A d \in Chats : Fit(chat[d])' /\ Known(chat[d])'
  BY <1>1, <1>3, OthersKnow
<1> QED
  BY <1>2, <1>4 DEF CInv

\* Where nothing is opened or closed and the books of bans and verdicts stay.
LEMMA StillBooks ==
  ASSUME CInv, UNCHANGED <<sess, run, born>>, barred \subseteq barred', verdicts \subseteq verdicts'
  PROVE  Books' /\ Grown
<1>1. Books'
  BY DEF CInv, Books, Distinct
<1>2. born.sess \in Nat /\ born.run \in Nat
  BY DEF CInv, Books, Distinct
<1> QED
  BY <1>1, <1>2 DEF Grown, Aged

-----------------------------------------------------------------------------
(* One lemma per action.                                                   *)
LEMMA NewFits ==
  ASSUME NEW a \in ChatAccounts
  PROVE  Fit(NewChat(a))
<1> DEFINE n == NewChat(a)
<1>1. /\ n.pc = "acquire" /\ n.acct = a /\ n.inst = 0 /\ n.run = 0 /\ n.lost = 0 /\ n.waits = 0
      /\ n.granted = 0 /\ n.ended = 0 /\ n.why = NoAnswer /\ n.told = NoAnswer
  BY DEF NewChat
<1>2. n = [pc |-> n.pc, acct |-> n.acct, inst |-> n.inst, run |-> n.run, lost |-> n.lost, round |-> n.round,
           waits |-> n.waits, tries |-> n.tries, granted |-> n.granted, ended |-> n.ended, gone |-> n.gone,
           why |-> n.why, told |-> n.told]
  BY DEF NewChat
<1> HIDE DEF n
<1>3. Fields(n)
  BY <1>1, <1>2, ChatAssumption DEF Fields, Shape, Numbers
<1>4. Place(n)
  BY <1>1 DEF Place, Holding, Ending
<1>5. Said(n) /\ Honest(n.why)
  BY <1>1, PlainHonest DEF Said, Early, Queues
<1> QED
  BY <1>3, <1>4, <1>5 DEF n, Fit

LEMMA InitCInv == CInit => CInv
<1> SUFFICES ASSUME CInit PROVE CInv
  OBVIOUS
<1>1. Books
  BY DEF CInit, Books, Distinct
<1>2. ASSUME NEW c \in Chats PROVE Fit(chat[c]) /\ Known(chat[c])
  <2>1. PICK a \in ChatAccounts : chat[c] = NewChat(a)
    BY DEF CInit
  <2>2. Fit(chat[c])
    BY <2>1, NewFits
  <2>3. /\ chat[c].pc = "acquire" /\ chat[c].inst = 0 /\ chat[c].run = 0 /\ chat[c].lost = 0
    BY <2>1 DEF NewChat
  <2>4. Known(chat[c])
    BY <2>3 DEF CInit, Known, Ending
  <2> QED
    BY <2>2, <2>4
<1> QED
  BY <1>1, <1>2 DEF CInit, CInv

-----------------------------------------------------------------------------
(* How a chat's record is written.                                         *)
\* What a step of a chat that keeps its lease, or ends it, may write.
Moved(k, pc, why, waits, tries, ended) ==
  [pc |-> pc, acct |-> k.acct, inst |-> k.inst, run |-> k.run, lost |-> k.lost, round |-> k.round,
   waits |-> waits, tries |-> tries, granted |-> k.granted, ended |-> ended, gone |-> k.gone,
   why |-> why, told |-> k.told]
LEMMA MovedKeeps ==
  ASSUME NEW k, Numbers(k), NEW pc, NEW why, NEW waits \in 0 .. Budget, NEW tries, NEW ended \in Nat,
         NEW n, n = Moved(k, pc, why, waits, tries, ended)
  PROVE  /\ Fields(n)
         /\ n.pc = pc /\ n.why = why /\ n.waits = waits /\ n.ended = ended
         /\ n.acct = k.acct /\ n.inst = k.inst /\ n.run = k.run /\ n.lost = k.lost
         /\ n.granted = k.granted /\ n.told = k.told
<1>1. /\ n.pc = pc /\ n.why = why /\ n.waits = waits /\ n.ended = ended /\ n.tries = tries /\ n.round = k.round
      /\ n.acct = k.acct /\ n.inst = k.inst /\ n.run = k.run /\ n.lost = k.lost
      /\ n.granted = k.granted /\ n.told = k.told /\ n.gone = k.gone
  BY DEF Moved
<1>2. Shape(n)
  BY <1>1 DEF Moved, Shape
<1>3. Numbers(n)
  BY <1>1 DEF Numbers
<1> QED
  BY <1>1, <1>2, <1>3 DEF Fields

LEMMA AfterErrorKeeps ==
  ASSUME NEW c, NEW k, Fields(k), NEW n, n = AfterError(c, k)
  PROVE  /\ Fields(n)
         /\ n.acct = k.acct /\ n.granted = k.granted /\ n.ended = k.ended /\ n.why = k.why /\ n.told = k.told
         /\ \/ /\ n.pc = "acquire" /\ n.why.class = "run_invalid"
               /\ n.inst = 0 /\ n.run = 0 /\ n.lost = k.run /\ n.waits = 0
            \/ /\ n.pc = "answer"
               /\ n.inst = k.inst /\ n.run = k.run /\ n.lost = k.lost /\ n.waits = k.waits
<1>1. CASE k.why.class = "run_invalid" /\ k.round = 1 /\ ~k.gone
  <2>1. n = [k EXCEPT !.pc = "acquire", !.round = 2, !.waits = 0, !.tries = 0, !.inst = 0, !.run = 0, !.lost = k.run]
    BY <1>1 DEF AfterError
  <2>2. n = [pc |-> "acquire", acct |-> k.acct, inst |-> 0, run |-> 0, lost |-> k.run, round |-> 2,
             waits |-> 0, tries |-> 0, granted |-> k.granted, ended |-> k.ended, gone |-> k.gone,
             why |-> k.why, told |-> k.told]
    BY ZenonT(60), <2>1 DEF Fields, Shape
  <2>3. /\ n.pc = "acquire" /\ n.acct = k.acct /\ n.granted = k.granted /\ n.ended = k.ended /\ n.why = k.why
        /\ n.told = k.told /\ n.inst = 0 /\ n.run = 0 /\ n.lost = k.run /\ n.waits = 0
        /\ n.round = 2 /\ n.tries = 0 /\ n.gone = k.gone
    BY <2>2
  <2>4. Shape(n)
    BY <2>2, <2>3 DEF Shape
  <2>5. Numbers(n)
    BY <2>3, ChatAssumption DEF Fields, Numbers
  <2> QED
    BY <1>1, <2>3, <2>4, <2>5 DEF Fields
<1>2. CASE ~(k.why.class = "run_invalid" /\ k.round = 1 /\ ~k.gone)
  <2>1. n = [k EXCEPT !.pc = "answer"]
    BY <1>2 DEF AfterError
  <2>2. n = Moved(k, "answer", k.why, k.waits, k.tries, k.ended)
    BY <2>1 DEF Fields, Shape, Moved
  <2> QED
    BY <2>2, MovedKeeps DEF Fields, Numbers
<1> QED
  BY <1>1, <1>2

-----------------------------------------------------------------------------
(* One lemma per action.                                                   *)
LEMMA AcquireFailsSteps ==
  ASSUME CInv, NEW c \in Chats, AcquireFails(c)
  PROVE  CInv'
<1>1. PICK reply \in Menu[c] :
        /\ chat' = [chat EXCEPT ![c] = AfterError(c, [@ EXCEPT !.why = Cause(c, reply)])]
        /\ barred' = IF Cause(c, reply).class = "banned" THEN barred \cup {chat[c].acct} ELSE barred
  BY DEF AcquireFails
<1> DEFINE k == chat[c]
           why == Cause(c, reply)
           j == [k EXCEPT !.why = why]
           n == AfterError(c, j)
<1>2. Fields(k) /\ Place(k) /\ Said(k) /\ Known(k) /\ k.pc = "acquire" /\ Honest(why)
  BY CauseHonest DEF CInv, AcquireFails, At, Fit
<1>3. chat' = [chat EXCEPT ![c] = n] /\ chat'[c] = n
  BY <1>1 DEF CInv
<1>4. Books' /\ Grown
  BY StillBooks, <1>1 DEF AcquireFails
<1>5. UNCHANGED <<sess, run, born, verdicts>> /\ barred \subseteq barred' /\ (why.class = "banned" => k.acct \in barred')
  BY <1>1 DEF AcquireFails
<1> HIDE DEF k, why
<1>6. /\ Fields(j) /\ j.why = why /\ j.acct = k.acct /\ j.inst = k.inst /\ j.run = k.run
      /\ j.lost = k.lost /\ j.granted = k.granted /\ j.ended = k.ended /\ j.told = k.told
  <2>1. j = Moved(k, k.pc, why, k.waits, k.tries, k.ended)
    BY <1>2 DEF Fields, Shape, Moved
  <2> HIDE DEF j
  <2> QED
    BY <1>2, <2>1, MovedKeeps DEF Fields, Numbers
<1> HIDE DEF j
<1>7. /\ Fields(n) /\ n.acct = k.acct /\ n.granted = k.granted /\ n.ended = k.ended /\ n.why = why /\ n.told = k.told
      /\ n.pc \in {"acquire", "answer"} /\ n.inst = 0 /\ n.run = 0 /\ n.lost \in {0, k.lost}
      /\ n.pc = "acquire" => n.why.class = "run_invalid"
  <2>1. k.inst = 0 /\ k.run = 0
    BY <1>2 DEF Place
  <2> QED
    BY <1>6, <2>1, AfterErrorKeeps
<1> HIDE DEF n
<1>8. Fit(n)
  <2>1. k.granted \in Nat /\ k.ended \in Nat
    BY <1>2 DEF Fields, Numbers
  <2>2. Place(n)
    BY <1>2, <1>7, <2>1 DEF Place, Holding, Ending
  <2>3. Said(n)
    BY <1>2, <1>7 DEF Said, Early
  <2> QED
    BY <1>2, <1>7, <2>2, <2>3 DEF Fit
<1>9. /\ chat'[c].acct = k.acct /\ chat'[c].why = why /\ chat'[c].inst = 0 /\ chat'[c].run = 0
      /\ chat'[c].pc \in {"acquire", "answer"} /\ chat'[c].lost \in {0, k.lost}
  BY <1>3, <1>7
<1>10. Known(chat[c])'
  BY <1>2, <1>5, <1>9 DEF Known, CInv, Books, Distinct, Ending, Fields, Numbers
<1>11. chat' = [chat EXCEPT ![c] = chat'[c]] /\ Fit(chat'[c])
  BY <1>3, <1>8
<1> QED
  BY <1>4, <1>10, <1>11, ChatSteps

\* A chat that goes on with its lease.
Going == {"post", "wait", "backoff"}
LEMMA GoesOn ==
  ASSUME CInv, NEW c \in Chats, chat[c].pc \in Going, NEW pc \in Going \cup {"relay"},
         NEW waits \in 0 .. Budget, NEW tries,
         chat' = [chat EXCEPT ![c] = chat'[c]],
         chat'[c] = Moved(chat[c], pc, chat[c].why, waits, tries, chat[c].ended),
         UNCHANGED <<sess, run, born, barred>>, verdicts \subseteq verdicts'
  PROVE  CInv'
<1> DEFINE k == chat[c]
           n == chat'[c]
<1>1. Fields(k) /\ Place(k) /\ Honest(k.why) /\ Said(k) /\ Known(k) /\ n = Moved(k, pc, k.why, waits, tries, k.ended)
  BY DEF CInv, Fit
<1>2. Books' /\ Grown
  BY StillBooks
<1>3. k.pc \in Going /\ Numbers(k) /\ k.ended \in Nat
  BY <1>1 DEF Fields, Numbers
<1>4. /\ Fields(n) /\ n.pc = pc /\ n.why = k.why /\ n.waits = waits /\ n.ended = k.ended
      /\ n.acct = k.acct /\ n.inst = k.inst /\ n.run = k.run /\ n.lost = k.lost
      /\ n.granted = k.granted /\ n.told = k.told
  <2> HIDE DEF n, k
  <2> QED
    BY <1>1, <1>3, MovedKeeps
<1>5. Known(chat[c])'
  BY <1>1, <1>4 DEF Known, Ending, Going
<1> HIDE DEF n, k
<1>6. Fit(n)
  <2>1. Place(n)
    BY <1>1, <1>3, <1>4 DEF Place, Holding, Ending, Going
  <2>2. Said(n)
    BY <1>1, <1>3, <1>4 DEF Said, Early, Going, Queues
  <2> QED
    BY <1>1, <1>4, <2>1, <2>2 DEF Fit
<1>7. chat' = [chat EXCEPT ![c] = chat'[c]] /\ Fit(chat'[c])
  BY <1>1, <1>6 DEF n, k
<1> QED
  BY <1>2, <1>5, <1>7, ChatSteps

\* A chat that was refused goes on to end its lease.
LEMMA RefusedSteps ==
  ASSUME CInv, NEW c \in Chats, chat[c].pc \in Going, NEW why, Honest(why), chat' = Refused(c, why),
         why.class \in Queues => chat[c].waits = Budget,
         why.class \in Enders => <<chat[c].inst, why.class>> \in verdicts',
         UNCHANGED <<sess, run, born, barred>>, verdicts \subseteq verdicts'
  PROVE  CInv'
<1> DEFINE k == chat[c]
           n == chat'[c]
           pc == IF why.class = "banned" THEN "ban" ELSE "release"
<1>1. Fields(k) /\ Place(k) /\ Said(k) /\ Known(k) /\ k.pc \in Going
  BY DEF CInv, Fit
<1>2. Books' /\ Grown
  BY StillBooks
<1>3. n = Moved(k, pc, why, k.waits, 0, k.ended) /\ chat' = [chat EXCEPT ![c] = n]
  BY <1>1 DEF CInv, Refused, Moved, Fields, Shape
<1>4. Numbers(k) /\ k.ended \in Nat /\ k.waits \in 0 .. Budget
  BY <1>1 DEF Fields, Numbers
<1>5. /\ Fields(n) /\ n.pc = pc /\ n.why = why /\ n.waits = k.waits /\ n.ended = k.ended
      /\ n.acct = k.acct /\ n.inst = k.inst /\ n.run = k.run /\ n.lost = k.lost
      /\ n.granted = k.granted /\ n.told = k.told
  <2> HIDE DEF n, k, pc
  <2> QED
    BY <1>3, <1>4, MovedKeeps
<1>6. Known(chat[c])'
  BY <1>1, <1>5 DEF Known, Ending
<1>7. k.waits = Budget \/ why.class \notin Queues
  OBVIOUS
<1>8. pc \in {"ban", "release"}
  OBVIOUS
<1> HIDE DEF n, k, pc
<1>9. Fit(n)
  <2>1. Place(n)
    BY <1>1, <1>5, <1>8 DEF Place, Holding, Ending, Going
  <2>2. Said(n)
    BY <1>1, <1>5, <1>7, <1>8 DEF Said, Early, Going
  <2> QED
    BY <1>5, <2>1, <2>2 DEF Fit
<1>10. chat' = [chat EXCEPT ![c] = chat'[c]] /\ Fit(chat'[c])
  BY <1>3, <1>9 DEF n
<1> QED
  BY <1>2, <1>6, <1>10, ChatSteps

LEMMA PostSteps ==
  ASSUME CInv, NEW c \in Chats, PostRefused(c) \/ PostLost(c) \/ WaitEnds(c) \/ PostOk(c)
  PROVE  CInv'
<1> DEFINE k == chat[c]
<1>1. Shape(k) /\ Numbers(k) /\ k.pc \in Going /\ chat = [d \in Chats |-> chat[d]]
  BY DEF CInv, Fit, Fields, PostRefused, PostLost, WaitEnds, PostOk, At, Going
<1>2. k.waits \in 0 .. Budget /\ k.inst \in Nat /\ Budget \in Nat
  BY <1>1, ChatAssumption DEF Numbers
<1>3. CASE PostRefused(c)
  <2>1. PICK reply \in Menu[c] :
          /\ chat' = IF Cause(c, reply).class \in Queues /\ MayWait(c)
                     THEN [chat EXCEPT ![c].pc = "wait", ![c].waits = @ + 1, ![c].tries = 0]
                     ELSE Refused(c, Cause(c, reply))
          /\ verdicts' = verdicts \cup ({<<chat[c].inst, Cause(c, reply).class>>} \cap (Nat \X Enders))
    BY <1>3 DEF PostRefused
  <2>2. UNCHANGED <<sess, run, born, barred>>
    BY <1>3 DEF PostRefused
  <2>3. CASE Cause(c, reply).class \in Queues /\ MayWait(c)
    <3>1. k.waits + 1 \in 0 .. Budget
      BY <1>2, <2>3 DEF MayWait
    <3>2. chat' = [chat EXCEPT ![c] = chat'[c]] /\ chat'[c] = Moved(k, "wait", k.why, k.waits + 1, 0, k.ended)
      BY <1>1, <2>1, <2>3 DEF Moved, Shape
    <3>3. "wait" \in Going
      BY DEF Going
    <3> QED
      BY ZenonT(60), <1>1, <2>1, <2>2, <3>1, <3>2, <3>3, GoesOn
  <2>4. CASE ~(Cause(c, reply).class \in Queues /\ MayWait(c))
    <3> DEFINE why == Cause(c, reply)
    <3>1. Honest(why) /\ chat' = Refused(c, why)
      BY <2>1, <2>4, CauseHonest
    <3>2. why.class \in Queues => chat[c].waits = Budget
      BY <1>2, <2>4 DEF MayWait
    <3>3. why.class \in Enders => <<chat[c].inst, why.class>> \in verdicts'
      BY <1>2, <2>1
    <3>4. verdicts \subseteq verdicts'
      BY <2>1
    <3> HIDE DEF why
    <3> QED
      BY <1>1, <2>2, <3>1, <3>2, <3>3, <3>4, RefusedSteps
  <2> QED
    BY <2>3, <2>4
<1>4. ASSUME UNCHANGED <<sess, run, born, barred, verdicts>>, NEW why \in {Canceled, Unreached}, chat' = Refused(c, why)
      PROVE  CInv'
  <2>1. Honest(why) /\ why.class \notin Queues /\ why.class \notin Enders
    BY <1>4, PlainHonest DEF Queues, Enders
  <2> QED
    BY <1>1, <1>4, <2>1, RefusedSteps
<1>5. CASE PostLost(c)
  <2>1. UNCHANGED <<sess, run, born, barred, verdicts>>
    BY <1>5 DEF PostLost
  <2>2. CASE chat' = Refused(c, Canceled) \/ chat' = Refused(c, Unreached)
    BY <1>4, <2>1, <2>2
  <2>3. CASE chat' = [chat EXCEPT ![c].pc = "backoff", ![c].tries = @ + 1]
    <3>1. chat' = [chat EXCEPT ![c] = chat'[c]] /\ chat'[c] = Moved(k, "backoff", k.why, k.waits, k.tries + 1, k.ended)
      BY <1>1, <2>3 DEF Moved, Shape
    <3>2. "backoff" \in Going
      BY DEF Going
    <3> QED
      BY <1>1, <1>2, <2>1, <3>1, <3>2, GoesOn
  <2> QED
    BY <1>5, <2>2, <2>3 DEF PostLost
<1>6. CASE WaitEnds(c)
  <2>1. UNCHANGED <<sess, run, born, barred, verdicts>>
    BY <1>6 DEF WaitEnds
  <2>2. CASE chat' = Refused(c, Canceled)
    BY <1>4, <2>1, <2>2
  <2>3. CASE chat' = [chat EXCEPT ![c].pc = "post"]
    <3>1. chat' = [chat EXCEPT ![c] = chat'[c]] /\ chat'[c] = Moved(k, "post", k.why, k.waits, k.tries, k.ended)
      BY <1>1, <2>3 DEF Moved, Shape
    <3>2. "post" \in Going
      BY DEF Going
    <3> QED
      BY <1>1, <1>2, <2>1, <3>1, <3>2, GoesOn
  <2> QED
    BY <1>6, <2>2, <2>3 DEF WaitEnds
<1>7. CASE PostOk(c)
  <2>1. UNCHANGED <<sess, run, born, barred, verdicts>>
    BY <1>7 DEF PostOk
  <2>2. chat' = [chat EXCEPT ![c] = chat'[c]] /\ chat'[c] = Moved(k, "relay", k.why, k.waits, 0, k.ended)
    BY <1>1, <1>7 DEF Moved, Shape, PostOk
  <2> QED
    BY <1>1, <1>2, <2>1, <2>2, GoesOn
<1> QED
  BY <1>3, <1>5, <1>6, <1>7

\* What a grant writes: the session and the run that were cached, or the next ones.
LEMMA GrantWrites ==
  ASSUME CInv, NEW c \in Chats, AcquireGrants(c), NEW a, a = chat[c].acct
  PROVE  /\ a \in ChatAccounts /\ UNCHANGED <<barred, verdicts>>
         /\ born'.sess = IF sess[a] = 0 THEN born.sess + 1 ELSE born.sess
         /\ born'.run = IF run[a] = 0 THEN born.run + 1 ELSE born.run
         /\ born' = [sess |-> born'.sess, run |-> born'.run, moves |-> born.moves]
         /\ sess'[a] = IF sess[a] = 0 THEN born.sess + 1 ELSE sess[a]
         /\ run'[a] = IF run[a] = 0 THEN born.run + 1 ELSE run[a]
         /\ sess' = [sess EXCEPT ![a] = sess'[a]] /\ run' = [run EXCEPT ![a] = run'[a]]
         /\ chat' = [chat EXCEPT ![c].pc = "post", ![c].inst = sess'[a], ![c].run = run'[a], ![c].granted = @ + 1]
<1>1. a \in ChatAccounts /\ Books
  BY DEF CInv, Fit, Fields, Numbers
<1>2. /\ born'.sess = IF sess[a] = 0 THEN born.sess + 1 ELSE born.sess
      /\ born'.run = IF run[a] = 0 THEN born.run + 1 ELSE born.run
      /\ born' = [sess |-> born'.sess, run |-> born'.run, moves |-> born.moves]
  BY <1>1 DEF AcquireGrants, Books
<1>3. /\ sess' = [sess EXCEPT ![a] = IF sess[a] = 0 THEN born'.sess ELSE sess[a]]
      /\ run' = [run EXCEPT ![a] = IF run[a] = 0 THEN born'.run ELSE run[a]]
      /\ chat' = [chat EXCEPT ![c].pc = "post", ![c].inst = IF sess[a] = 0 THEN born'.sess ELSE sess[a],
                             ![c].run = IF run[a] = 0 THEN born'.run ELSE run[a], ![c].granted = @ + 1]
  BY DEF AcquireGrants
<1>4. sess \in [ChatAccounts -> Nat] /\ run \in [ChatAccounts -> Nat]
  BY <1>1 DEF Books, Distinct
<1>5. /\ sess'[a] = IF sess[a] = 0 THEN born'.sess ELSE sess[a]
      /\ run'[a] = IF run[a] = 0 THEN born'.run ELSE run[a]
  BY <1>1, <1>3, <1>4
<1>6. UNCHANGED <<barred, verdicts>>
  BY DEF AcquireGrants
<1> QED
  BY <1>1, <1>2, <1>3, <1>5, <1>6

LEMMA AcquireGrantsSteps ==
  ASSUME CInv, NEW c \in Chats, AcquireGrants(c)
  PROVE  CInv'
<1> DEFINE k == chat[c]
           n == chat'[c]
           a == chat[c].acct
           i == sess'[a]
           r == run'[a]
<1>1. Fields(k) /\ Place(k) /\ Honest(k.why) /\ Said(k) /\ Known(k) /\ Numbers(k) /\ Shape(k) /\ k.pc = "acquire"
  BY DEF CInv, Fit, Fields, AcquireGrants, At
<1>2. a \in ChatAccounts /\ Books /\ UNCHANGED <<barred, verdicts>>
  BY GrantWrites DEF CInv
<1>3. /\ born'.sess = IF sess[a] = 0 THEN born.sess + 1 ELSE born.sess
      /\ born'.run = IF run[a] = 0 THEN born.run + 1 ELSE born.run
      /\ born' = [sess |-> born'.sess, run |-> born'.run, moves |-> born.moves]
  BY GrantWrites
<1>4. /\ i = IF sess[a] = 0 THEN born.sess + 1 ELSE sess[a]
      /\ r = IF run[a] = 0 THEN born.run + 1 ELSE run[a]
      /\ sess' = [sess EXCEPT ![a] = i] /\ run' = [run EXCEPT ![a] = r]
  BY GrantWrites
<1>5. /\ born.sess \in Nat /\ born.run \in Nat /\ born.moves \in Nat
      /\ \A b \in ChatAccounts : sess[b] \in 0 .. born.sess /\ run[b] \in 0 .. born.run
      /\ sess \in [ChatAccounts -> Nat] /\ run \in [ChatAccounts -> Nat]
  BY <1>2 DEF Books, Distinct
<1>6. i \in Nat \ {0} /\ r \in Nat \ {0} /\ i <= born'.sess /\ r <= born'.run
  BY <1>2, <1>3, <1>4, <1>5
<1>7. Books' /\ Grown
  <2>1. Distinct(sess', born'.sess) /\ Aged(sess, born.sess, sess') /\ born.sess <= born'.sess
    BY <1>2, <1>3, <1>4, <1>5 DEF Books, Distinct, Aged
  <2>2. Distinct(run', born'.run) /\ Aged(run, born.run, run') /\ born.run <= born'.run
    BY <1>2, <1>3, <1>4, <1>5 DEF Books, Distinct, Aged
  <2> QED
    BY <1>2, <1>3, <1>5, <2>1, <2>2 DEF Books, Grown, Distinct
<1>8. chat' = [chat EXCEPT ![c] = n]
      /\ n = [pc |-> "post", acct |-> k.acct, inst |-> i, run |-> r, lost |-> k.lost, round |-> k.round,
              waits |-> k.waits, tries |-> k.tries, granted |-> k.granted + 1, ended |-> k.ended, gone |-> k.gone,
              why |-> k.why, told |-> k.told]
  <2>1. chat' = [chat EXCEPT ![c].pc = "post", ![c].inst = i, ![c].run = r, ![c].granted = @ + 1]
    BY GrantWrites
  <2>2. chat = [d \in Chats |-> chat[d]]
    BY DEF CInv
  <2> HIDE DEF i, r
  <2> QED
    BY <1>1, <2>1, <2>2 DEF Shape
<1>9. /\ n.pc = "post" /\ n.acct = a /\ n.inst = i /\ n.run = r /\ n.lost = k.lost /\ n.waits = k.waits
      /\ n.granted = k.granted + 1 /\ n.ended = k.ended /\ n.why = k.why /\ n.told = k.told
      /\ n.round = k.round /\ n.tries = k.tries /\ n.gone = k.gone
  BY <1>8
<1>10. Known(chat[c])'
  <2>1. k.lost \in Nat /\ k.lost <= born'.run /\ born'.run \in Nat /\ born'.sess \in Nat
    BY <1>1, <1>3, <1>5 DEF Known, Numbers
  <2>2. \A b \in ChatAccounts : k.lost # 0 => run'[b] # k.lost
    BY <1>1, <1>2, <1>4, <1>5, <2>1 DEF Known
  <2>3. \A b \in ChatAccounts : (sess'[b] = i => b = a) /\ (run'[b] = r => b = a)
    BY <1>2, <1>4, <1>5, <1>6, <1>7 DEF Books, Distinct
  <2> HIDE DEF i, r, n, k, a
  <2> QED
    BY <1>6, <1>9, <2>1, <2>2, <2>3 DEF Known, Ending, n
<1> HIDE DEF n, k, a, i, r
<1>11. Fit(n)
  <2>1. Shape(n)
    BY <1>8, <1>9 DEF Shape, a
  <2>2. Numbers(n)
    BY <1>1, <1>2, <1>6, <1>9 DEF Numbers
  <2>3. Place(n)
    BY <1>1, <1>6, <1>9 DEF Place, Numbers, Holding, Ending
  <2>4. Said(n)
    BY <1>1, <1>9 DEF Said, Early, Queues
  <2> QED
    BY <1>1, <1>9, <2>1, <2>2, <2>3, <2>4 DEF Fit, Fields
<1>12. chat' = [chat EXCEPT ![c] = chat'[c]] /\ Fit(chat'[c])
  BY <1>8, <1>11 DEF n
<1> QED
  BY <1>7, <1>10, <1>12, ChatSteps

LEMMA BanSteps ==
  ASSUME CInv, NEW c \in Chats, Ban(c)
  PROVE  CInv'
<1> DEFINE k == chat[c]
           n == chat'[c]
<1>1. Fields(k) /\ Place(k) /\ Honest(k.why) /\ Said(k) /\ Known(k) /\ Numbers(k) /\ Shape(k) /\ k.pc = "ban"
  BY DEF CInv, Fit, Fields, Ban, At
<1>2. UNCHANGED <<sess, run, born, verdicts>> /\ barred' = barred \cup {k.acct}
  BY DEF Ban
<1>3. Books' /\ Grown
  BY <1>2, StillBooks
<1>4. chat' = [chat EXCEPT ![c] = n] /\ n = Moved(k, "release", k.why, k.waits, k.tries, k.ended)
  BY <1>1 DEF CInv, Ban, Moved, Shape
<1>5. k.ended \in Nat /\ k.waits \in 0 .. Budget
  BY <1>1 DEF Numbers
<1>6. /\ Fields(n) /\ n.pc = "release" /\ n.why = k.why /\ n.waits = k.waits /\ n.ended = k.ended
      /\ n.acct = k.acct /\ n.inst = k.inst /\ n.run = k.run /\ n.lost = k.lost
      /\ n.granted = k.granted /\ n.told = k.told
  <2> HIDE DEF n, k
  <2> QED
    BY <1>1, <1>4, <1>5, MovedKeeps
<1>7. Known(chat[c])'
  BY <1>1, <1>2, <1>6 DEF Known
<1> HIDE DEF n, k
<1>8. Fit(n)
  <2>1. Place(n)
    BY <1>1, <1>6 DEF Place, Holding, Ending
  <2>2. Said(n)
    BY <1>1, <1>6 DEF Said, Early
  <2> QED
    BY <1>1, <1>6, <2>1, <2>2 DEF Fit
<1>9. chat' = [chat EXCEPT ![c] = chat'[c]] /\ Fit(chat'[c])
  BY <1>4, <1>8 DEF n
<1> QED
  BY <1>3, <1>7, <1>9, ChatSteps

\* Sessions and runs that are only taken out of use.
LEMMA DropBooks ==
  ASSUME CInv, UNCHANGED <<born, barred, verdicts>>,
         NEW a, sess' \in {sess, [sess EXCEPT ![a] = 0]}, run' \in {run, [run EXCEPT ![a] = 0]}
  PROVE  Books' /\ Grown
<1>1. /\ born.sess \in Nat /\ born.run \in Nat
      /\ sess \in [ChatAccounts -> Nat] /\ run \in [ChatAccounts -> Nat]
  BY DEF CInv, Books, Distinct
<1>2. Distinct(sess', born.sess) /\ Aged(sess, born.sess, sess')
  BY <1>1 DEF CInv, Books, Distinct, Aged
<1>3. Distinct(run', born.run) /\ Aged(run, born.run, run')
  BY <1>1 DEF CInv, Books, Distinct, Aged
<1> QED
  BY <1>1, <1>2, <1>3 DEF CInv, Books, Grown, Distinct

LEMMA EndLeaseSteps ==
  ASSUME CInv, NEW c \in Chats, Release(c) \/ RelayDone(c)
  PROVE  CInv'
<1> DEFINE k == chat[c]
           n == chat'[c]
<1>1. Fields(k) /\ Place(k) /\ Honest(k.why) /\ Said(k) /\ Known(k) /\ Numbers(k) /\ Shape(k)
  BY DEF CInv, Fit, Fields
<1>2. PICK pc \in {"recover", "done"} :
        /\ EndLease(c, pc)
        /\ k.pc = IF pc = "recover" THEN "release" ELSE "relay"
  BY DEF Release, RelayDone, At
<1>3. /\ UNCHANGED <<born, barred, verdicts, sess>>
      /\ run' \in {run, [run EXCEPT ![k.acct] = 0]}
  BY <1>2 DEF EndLease
<1>4. Books' /\ Grown
  BY <1>3, DropBooks
<1>5. chat' = [chat EXCEPT ![c] = n] /\ n = Moved(k, pc, k.why, k.waits, k.tries, k.ended + 1)
  <2>1. chat' = [chat EXCEPT ![c].pc = pc, ![c].ended = @ + 1]
    BY <1>2 DEF EndLease
  <2> QED
    BY <1>1, <2>1 DEF CInv, Moved, Shape
<1>6. k.ended + 1 \in Nat /\ k.ended \in Nat /\ k.waits \in 0 .. Budget
  BY <1>1 DEF Numbers
<1>7. /\ Fields(n) /\ n.pc = pc /\ n.why = k.why /\ n.waits = k.waits /\ n.ended = k.ended + 1
      /\ n.acct = k.acct /\ n.inst = k.inst /\ n.run = k.run /\ n.lost = k.lost
      /\ n.granted = k.granted /\ n.told = k.told
  <2> HIDE DEF n, k
  <2> QED
    BY <1>1, <1>5, <1>6, MovedKeeps
<1>8. Known(chat[c])'
  <2>1. pc = "done" => k.why.class \in {"", "run_invalid"}
    BY <1>1, <1>2 DEF Said, Early
  <2>2. \A a \in ChatAccounts : run'[a] \in {run[a], 0}
    BY <1>3 DEF CInv, Books, Distinct
  <2>3. k.run \in Nat /\ k.lost \in Nat
    BY <1>1 DEF Numbers
  <2> QED
    BY <1>1, <1>2, <1>3, <1>7, <2>1, <2>2, <2>3 DEF Known, Ending
<1> HIDE DEF n, k
<1>9. Fit(n)
  <2>1. Place(n)
    BY <1>1, <1>2, <1>6, <1>7 DEF Place, Holding, Ending
  <2>2. Said(n)
    BY <1>1, <1>2, <1>7 DEF Said, Early
  <2> QED
    BY <1>1, <1>7, <2>1, <2>2 DEF Fit
<1>10. chat' = [chat EXCEPT ![c] = chat'[c]] /\ Fit(chat'[c])
  BY <1>5, <1>9 DEF n
<1> QED
  BY <1>4, <1>8, <1>10, ChatSteps

LEMMA RecoverSteps ==
  ASSUME CInv, NEW c \in Chats, Recover(c)
  PROVE  CInv'
<1> DEFINE k == chat[c]
           n == chat'[c]
<1>1. Fields(k) /\ Place(k) /\ Honest(k.why) /\ Said(k) /\ Known(k) /\ Numbers(k) /\ k.pc = "recover"
  BY DEF CInv, Fit, Fields, Recover, At
<1>2. /\ UNCHANGED <<born, barred, verdicts>>
      /\ sess' \in {sess, [sess EXCEPT ![k.acct] = 0]}
      /\ k.why.class = "superseded" => sess' = DropInstance(k.acct, k.inst)
      /\ run' = IF k.why.class = "run_invalid" THEN [run EXCEPT ![k.acct] = 0] ELSE run
  BY DEF Recover, SessionAfter, DropInstance
<1>3. Books' /\ Grown
  BY <1>2, DropBooks
<1>4. chat' = [chat EXCEPT ![c] = n] /\ n = AfterError(c, k)
  BY DEF CInv, Recover
<1>5. /\ Fields(n)
      /\ n.acct = k.acct /\ n.granted = k.granted /\ n.ended = k.ended /\ n.why = k.why /\ n.told = k.told
      /\ \/ /\ n.pc = "acquire" /\ n.why.class = "run_invalid"
            /\ n.inst = 0 /\ n.run = 0 /\ n.lost = k.run /\ n.waits = 0
         \/ /\ n.pc = "answer"
            /\ n.inst = k.inst /\ n.run = k.run /\ n.lost = k.lost /\ n.waits = k.waits
  <2> HIDE DEF n, k
  <2> QED
    BY <1>1, <1>4, AfterErrorKeeps
<1>6. /\ k.inst \in Nat \ {0} /\ k.run \in Nat \ {0} /\ k.lost \in Nat /\ k.acct \in ChatAccounts
      /\ k.inst <= born.sess /\ k.run <= born.run /\ k.lost <= born.run
      /\ sess \in [ChatAccounts -> Nat] /\ run \in [ChatAccounts -> Nat]
  BY <1>1 DEF Place, Numbers, Known, CInv, Books, Distinct
<1>7. \A a \in ChatAccounts : /\ sess'[a] \in {sess[a], 0} /\ run'[a] \in {run[a], 0}
                              /\ k.why.class = "superseded" => sess'[a] # k.inst
                              /\ k.why.class = "run_invalid" => run'[a] # k.run
  <2> TAKE a \in ChatAccounts
  <2>1. sess'[a] \in {sess[a], 0} /\ run'[a] \in {run[a], 0}
    BY <1>2, <1>6
  <2>2. CASE a = k.acct
    BY <1>2, <1>6, <2>1, <2>2 DEF DropInstance
  <2>3. CASE a # k.acct
    <3>1. sess[a] # k.inst /\ run[a] # k.run
      BY <1>1, <1>6, <2>3 DEF Known
    <3> QED
      BY <1>6, <2>1, <3>1
  <2> QED
    BY <2>2, <2>3
<1>8. Known(chat[c])'
  <2>1. CASE n.pc = "acquire"
    <3>1. n.inst = 0 /\ n.run = 0 /\ n.lost = k.run /\ k.why.class = "run_invalid" /\ n.acct = k.acct
      BY <1>5, <2>1
    <3>2. born' = born /\ k.run <= born.run /\ k.run # 0
      BY <1>2, <1>6
    <3>3. k.why.class \notin {"banned", "superseded"}
      BY <3>1
    <3>4. \A a \in ChatAccounts : run'[a] # k.run
      BY <1>7, <3>1
    <3>5. 0 <= born.sess /\ 0 <= born.run
      BY <1>6 DEF CInv, Books, Distinct
    <3> HIDE DEF k, n
    <3> QED
      BY <1>5, <2>1, <3>1, <3>2, <3>3, <3>4, <3>5 DEF Known, Ending, n
  <2>2. CASE n.pc = "answer"
    <3>1. n.inst = k.inst /\ n.run = k.run /\ n.lost = k.lost /\ n.why = k.why /\ n.acct = k.acct
      BY <1>5, <2>2
    <3>2. born' = born /\ barred' = barred /\ (k.why.class = "banned" => k.acct \in barred)
      BY <1>1, <1>2 DEF Known, Ending
    <3>3. \A a \in ChatAccounts : /\ sess'[a] = k.inst => a = k.acct
                                  /\ run'[a] = k.run => a = k.acct
                                  /\ k.lost # 0 => run'[a] # k.lost
      BY <1>1, <1>6, <1>7 DEF Known
    <3> HIDE DEF k, n
    <3> QED
      BY <1>6, <1>7, <2>2, <3>1, <3>2, <3>3 DEF Known, Ending, n
  <2> QED
    BY <1>5, <2>1, <2>2
<1> HIDE DEF n, k
<1>9. Fit(n)
  <2>1. Place(n)
    BY <1>1, <1>5 DEF Place, Holding, Ending
  <2>2. Said(n)
    BY <1>1, <1>5 DEF Said, Early
  <2> QED
    BY <1>1, <1>5, <2>1, <2>2 DEF Fit
<1>10. chat' = [chat EXCEPT ![c] = chat'[c]] /\ Fit(chat'[c])
  BY <1>4, <1>9 DEF n
<1> QED
  BY <1>3, <1>8, <1>10, ChatSteps

LEMMA AnswerSteps ==
  ASSUME CInv, NEW c \in Chats, Answer(c)
  PROVE  CInv'
<1> DEFINE k == chat[c]
           n == chat'[c]
<1>1. Fields(k) /\ Place(k) /\ Honest(k.why) /\ Said(k) /\ Known(k) /\ Numbers(k) /\ Shape(k) /\ k.pc = "answer"
  BY DEF CInv, Fit, Fields, Answer, At
<1>2. UNCHANGED <<sess, run, born, barred, verdicts>>
  BY DEF Answer
<1>3. Books' /\ Grown
  BY <1>2, StillBooks
<1>4. PICK said \in {NoAnswer, k.why} : chat' = [chat EXCEPT ![c].pc = "done", ![c].told = said]
  BY DEF Answer
<1>5. chat' = [chat EXCEPT ![c] = n]
      /\ n = [pc |-> "done", acct |-> k.acct, inst |-> k.inst, run |-> k.run, lost |-> k.lost, round |-> k.round,
              waits |-> k.waits, tries |-> k.tries, granted |-> k.granted, ended |-> k.ended, gone |-> k.gone,
              why |-> k.why, told |-> said]
  BY <1>1, <1>4 DEF CInv, Shape
<1>6. /\ n.pc = "done" /\ n.why = k.why /\ n.waits = k.waits /\ n.ended = k.ended /\ n.round = k.round
      /\ n.acct = k.acct /\ n.inst = k.inst /\ n.run = k.run /\ n.lost = k.lost /\ n.tries = k.tries
      /\ n.granted = k.granted /\ n.told = said /\ n.gone = k.gone
  BY <1>5
<1>7. Known(chat[c])'
  BY <1>1, <1>2, <1>6 DEF Known, Ending
<1> HIDE DEF n, k
<1>8. Fit(n)
  <2>1. Shape(n)
    BY <1>5, <1>6 DEF Shape
  <2>2. Numbers(n)
    BY <1>1, <1>6 DEF Numbers
  <2>3. Place(n)
    BY <1>1, <1>6 DEF Place, Holding, Ending
  <2>4. Said(n)
    BY <1>1, <1>4, <1>6 DEF Said, Early
  <2> QED
    BY <1>1, <1>6, <2>1, <2>2, <2>3, <2>4 DEF Fit, Fields
<1>9. chat' = [chat EXCEPT ![c] = chat'[c]] /\ Fit(chat'[c])
  BY <1>5, <1>8 DEF n
<1> QED
  BY <1>3, <1>7, <1>9, ChatSteps

LEMMA ClientLeavesSteps ==
  ASSUME CInv, NEW c \in Chats, ClientLeaves(c)
  PROVE  CInv'
<1> DEFINE k == chat[c]
           n == chat'[c]
<1>1. Fields(k) /\ Place(k) /\ Honest(k.why) /\ Said(k) /\ Known(k) /\ Numbers(k) /\ Shape(k)
  BY DEF CInv, Fit, Fields
<1>2. UNCHANGED <<sess, run, born, barred, verdicts>>
  BY DEF ClientLeaves
<1>3. Books' /\ Grown
  BY <1>2, StillBooks
<1>4. chat' = [chat EXCEPT ![c] = n]
      /\ n = [pc |-> k.pc, acct |-> k.acct, inst |-> k.inst, run |-> k.run, lost |-> k.lost, round |-> k.round,
              waits |-> k.waits, tries |-> k.tries, granted |-> k.granted, ended |-> k.ended, gone |-> TRUE,
              why |-> k.why, told |-> k.told]
  BY <1>1 DEF CInv, Shape, ClientLeaves
<1>5. /\ n.pc = k.pc /\ n.why = k.why /\ n.waits = k.waits /\ n.ended = k.ended /\ n.round = k.round
      /\ n.acct = k.acct /\ n.inst = k.inst /\ n.run = k.run /\ n.lost = k.lost /\ n.tries = k.tries
      /\ n.granted = k.granted /\ n.told = k.told /\ n.gone
  BY <1>4
<1>6. Known(chat[c])'
  BY <1>1, <1>2, <1>5 DEF Known
<1> HIDE DEF n, k
<1>7. Fit(n)
  <2>1. Shape(n)
    BY <1>4, <1>5 DEF Shape
  <2>2. Numbers(n)
    BY <1>1, <1>5 DEF Numbers
  <2>3. Place(n)
    BY <1>1, <1>5 DEF Place
  <2>4. Said(n)
    BY <1>1, <1>5 DEF Said
  <2> QED
    BY <1>1, <1>5, <2>1, <2>2, <2>3, <2>4 DEF Fit, Fields
<1>8. chat' = [chat EXCEPT ![c] = chat'[c]] /\ Fit(chat'[c])
  BY <1>4, <1>7 DEF n
<1> QED
  BY <1>3, <1>6, <1>8, ChatSteps

LEMMA ReadmitSteps ==
  ASSUME CInv, NEW a \in ChatAccounts, Readmit(a)
  PROVE  CInv'
<1>1. /\ born.sess \in Nat /\ born.run \in Nat /\ born.moves \in Nat
      /\ sess \in [ChatAccounts -> Nat] /\ run \in [ChatAccounts -> Nat]
  BY DEF CInv, Books, Distinct
<1>2. /\ UNCHANGED <<run, barred, chat, verdicts>> /\ sess' = [sess EXCEPT ![a] = born.sess + 1]
      /\ born' = [sess |-> born.sess + 1, run |-> born.run, moves |-> born.moves + 1]
  BY <1>1 DEF Readmit, CInv, Books
<1>3. Distinct(sess', born'.sess) /\ Aged(sess, born.sess, sess')
  BY <1>1, <1>2 DEF CInv, Books, Distinct, Aged
<1>4. Books' /\ Grown
  BY <1>1, <1>2, <1>3 DEF CInv, Books, Grown, Distinct, Aged
<1>5. \A d \in Chats : Fit(chat[d])' /\ Known(chat[d])'
  BY <1>2, <1>4, OthersKnow
<1> QED
  BY <1>2, <1>4, <1>5 DEF CInv

LEMMA NextCInv == CInv /\ [CNext]_cvars => CInv'
<1> SUFFICES ASSUME CInv, [CNext]_cvars PROVE CInv'
  OBVIOUS
<1>1. CASE UNCHANGED cvars
  <2>1. Books' /\ Grown /\ chat' = chat
    BY <1>1, StillBooks DEF cvars
  <2>2. \A d \in Chats : Fit(chat[d])' /\ Known(chat[d])'
    BY <2>1, OthersKnow
  <2> QED
    BY <2>1, <2>2 DEF CInv
<1>2. ASSUME NEW c \in Chats, AcquireFails(c) PROVE CInv'
  BY <1>2, AcquireFailsSteps
<1>3. ASSUME NEW c \in Chats, AcquireGrants(c) PROVE CInv'
  BY <1>3, AcquireGrantsSteps
<1>4. ASSUME NEW c \in Chats, PostRefused(c) \/ PostLost(c) \/ WaitEnds(c) \/ PostOk(c) PROVE CInv'
  BY <1>4, PostSteps
<1>5. ASSUME NEW c \in Chats, Ban(c) PROVE CInv'
  BY <1>5, BanSteps
<1>6. ASSUME NEW c \in Chats, Release(c) \/ RelayDone(c) PROVE CInv'
  BY <1>6, EndLeaseSteps
<1>7. ASSUME NEW c \in Chats, Recover(c) PROVE CInv'
  BY <1>7, RecoverSteps
<1>8. ASSUME NEW c \in Chats, Answer(c) PROVE CInv'
  BY <1>8, AnswerSteps
<1>9. ASSUME NEW c \in Chats, ClientLeaves(c) PROVE CInv'
  BY <1>9, ClientLeavesSteps
<1>10. ASSUME NEW a \in ChatAccounts, Readmit(a) PROVE CInv'
  BY <1>10, ReadmitSteps
<1> QED
  BY <1>1, <1>2, <1>3, <1>4, <1>5, <1>6, <1>7, <1>8, <1>9, <1>10 DEF CNext

LEMMA CInvSettles == CInv => ChatSettled
<1> SUFFICES ASSUME CInv, NEW c \in Chats
             PROVE  LET k == chat[c] IN
                    /\ k.ended <= k.granted /\ k.granted <= k.ended + 1
                    /\ k.pc \in {"answer", "done"} => k.granted = k.ended
                    /\ k.why.class = "banned" /\ k.ended = k.granted /\ k.granted > 0 => k.acct \in barred
                    /\ k.told.class \in Terminal => k.told.delay = 0
                    /\ k.told.class \in Queues => /\ k.told.status \in {429, 503} /\ k.told.delay > 0
                                                  /\ k.inst # 0 => k.waits = Budget
  BY DEF ChatSettled
<1> DEFINE k == chat[c]
<1>1. Place(k) /\ Honest(k.why) /\ Said(k) /\ Known(k) /\ k.granted \in Nat /\ k.ended \in Nat
  BY DEF CInv, Fit, Fields, Numbers
<1>2. k.ended <= k.granted /\ k.granted <= k.ended + 1 /\ (k.pc \in {"answer", "done"} => k.granted = k.ended)
  BY <1>1 DEF Place, Holding
<1>3. k.why.class = "banned" /\ k.ended = k.granted => k.acct \in barred
  <2>1. k.ended = k.granted => k.pc \in Ending \cup {"acquire"}
    BY <1>1 DEF Place
  <2>2. k.why.class = "banned" => k.pc # "acquire"
    BY <1>1 DEF Said, Early
  <2> QED
    BY <1>1, <2>1, <2>2 DEF Known
<1>4. Honest(k.told) /\ (k.told.class \in Queues /\ k.inst # 0 => k.waits = Budget)
  BY <1>1, PlainHonest DEF Said, Queues
<1> QED
  BY <1>2, <1>3, <1>4 DEF Honest

\* Every lease is ended once and none is held by a chat that was answered; a ban is remembered
\* before the seat it was learned on is free again; and a client is told to come back only when
\* that can help (engine.go:214-227, engine_attempt.go:165-185, server/errors.go:128-506).
THEOREM EveryChatSettles == CSpec => []ChatSettled
<1>1. CSpec => []CInv
  BY InitCInv, NextCInv, PTL DEF CSpec
<1> QED
  BY <1>1, CInvSettles, PTL

-----------------------------------------------------------------------------
(* What a step never does.                                                 *)
\* A step that drops no session and grants no lease.
Quiet ==
  /\ \A a \in ChatAccounts : sess'[a] = sess[a] \/ sess'[a] # 0
  /\ \A d \in Chats : chat'[d].granted = chat[d].granted

LEMMA QuietFate == CInv /\ Quiet => FateStep
<1> SUFFICES ASSUME CInv, Quiet PROVE FateStep
  OBVIOUS
<1>1. \A d \in Chats : chat[d].granted \in Nat
  BY DEF CInv, Fit, Fields, Numbers
<1> QED
  BY <1>1 DEF Quiet, FateStep, Granted

LEMMA QuietSteps ==
  ASSUME CInv, NEW c \in Chats,
         \/ AcquireFails(c) \/ PostRefused(c) \/ PostLost(c) \/ WaitEnds(c) \/ PostOk(c)
         \/ Ban(c) \/ Release(c) \/ RelayDone(c) \/ Answer(c) \/ ClientLeaves(c)
  PROVE  Quiet
<1>1. chat = [d \in Chats |-> chat[d]] /\ Fields(chat[c])
  BY DEF CInv, Fit
<1>2. UNCHANGED sess
  BY DEF AcquireFails, PostRefused, PostLost, WaitEnds, PostOk, Ban, Release, RelayDone, EndLease, Answer, ClientLeaves
<1>3. \A d \in Chats : chat'[d].granted = chat[d].granted
  <2>1. CASE AcquireFails(c)
    <3>1. PICK reply \in Menu[c] : chat' = [chat EXCEPT ![c] = AfterError(c, [@ EXCEPT !.why = Cause(c, reply)])]
      BY <2>1 DEF AcquireFails
    <3> DEFINE j == [chat[c] EXCEPT !.why = Cause(c, reply)]
    <3>2. chat' = [chat EXCEPT ![c] = AfterError(c, j)]
      BY <3>1
    <3>3. AfterError(c, j).granted = chat[c].granted
      BY <1>1 DEF AfterError, Fields, Shape
    <3> HIDE DEF j
    <3> QED
      BY <1>1, <3>2, <3>3
  <2>2. CASE PostRefused(c)
    <3>1. PICK reply \in Menu[c] :
            chat' \in {[chat EXCEPT ![c].pc = "wait", ![c].waits = @ + 1, ![c].tries = 0],
                      Refused(c, Cause(c, reply))}
      BY <2>2 DEF PostRefused
    <3>2. CASE chat' = [chat EXCEPT ![c].pc = "wait", ![c].waits = @ + 1, ![c].tries = 0]
      BY <1>1, <3>2 DEF Fields, Shape
    <3>3. CASE chat' = Refused(c, Cause(c, reply))
      BY <1>1, <3>3 DEF Refused, Fields, Shape
    <3> QED
      BY <3>1, <3>2, <3>3
  <2>3. CASE PostLost(c)
    BY <1>1, <2>3 DEF PostLost, Refused, Fields, Shape
  <2>4. CASE WaitEnds(c)
    BY <1>1, <2>4 DEF WaitEnds, Refused, Fields, Shape
  <2>5. CASE PostOk(c) \/ Ban(c)
    BY <1>1, <2>5 DEF PostOk, Ban, Fields, Shape
  <2>6. CASE Release(c) \/ RelayDone(c)
    BY <1>1, <2>6 DEF Release, RelayDone, EndLease, Fields, Shape
  <2>7. CASE Answer(c) \/ ClientLeaves(c)
    BY <1>1, <2>7 DEF Answer, ClientLeaves, Fields, Shape
  <2> QED
    BY <2>1, <2>2, <2>3, <2>4, <2>5, <2>6, <2>7
<1> QED
  BY <1>2, <1>3 DEF Quiet

\* Only a chat that was refused drops a session, and only its own account's.
LEMMA RecoverFate ==
  ASSUME CInv, NEW c \in Chats, Recover(c)
  PROVE  FateStep
<1> DEFINE k == chat[c]
<1>1. Fields(k) /\ Place(k) /\ Known(k) /\ k.pc = "recover" /\ chat = [d \in Chats |-> chat[d]]
  BY DEF CInv, Fit, Recover, At
<1>2. \A d \in Chats : ~Granted(d)
  <2>1. AfterError(c, k).granted = k.granted
    BY <1>1 DEF AfterError, Fields, Shape
  <2>2. \A d \in Chats : chat'[d].granted = chat[d].granted
    BY <1>1, <2>1 DEF Recover
  <2>3. \A d \in Chats : chat[d].granted \in Nat
    BY DEF CInv, Fit, Fields, Numbers
  <2> QED
    BY <2>2, <2>3 DEF Granted
<1>3. ASSUME NEW a \in ChatAccounts, sess[a] # 0, sess'[a] = 0
      PROVE  \E class \in Enders : <<sess[a], class>> \in verdicts
  <2>1. sess \in [ChatAccounts -> Nat]
    BY DEF CInv, Books, Distinct
  <2>2. k.why.class \in Enders /\ sess' = DropInstance(k.acct, k.inst)
    BY <1>3, <2>1 DEF Recover, SessionAfter, Enders
  <2>3. sess[a] = k.inst
    BY <1>3, <2>1, <2>2 DEF DropInstance
  <2>4. <<k.inst, k.why.class>> \in verdicts
    BY <1>1, <2>2 DEF Known
  <2> QED
    BY <2>2, <2>3, <2>4
<1> QED
  BY <1>2, <1>3 DEF FateStep

\* A lease is granted on the session and the run that are cached, and what a chat was answered
\* about as taken over, or lost to, is not.
LEMMA GrantFate ==
  ASSUME CInv, NEW c \in Chats, AcquireGrants(c)
  PROVE  FateStep
<1> DEFINE a == chat[c].acct
<1>1. /\ a \in ChatAccounts
      /\ sess'[a] = IF sess[a] = 0 THEN born.sess + 1 ELSE sess[a]
      /\ run'[a] = IF run[a] = 0 THEN born.run + 1 ELSE run[a]
      /\ sess' = [sess EXCEPT ![a] = sess'[a]]
      /\ chat' = [chat EXCEPT ![c].pc = "post", ![c].inst = sess'[a], ![c].run = run'[a], ![c].granted = @ + 1]
  BY GrantWrites
<1>2. /\ born.sess \in Nat /\ born.run \in Nat
      /\ sess \in [ChatAccounts -> Nat] /\ run \in [ChatAccounts -> Nat]
      /\ chat = [d \in Chats |-> chat[d]]
  BY DEF CInv, Books, Distinct
<1>3. \A d \in Chats : /\ Known(chat[d])
                      /\ chat[d].inst \in Nat /\ chat[d].run \in Nat /\ chat[d].lost \in Nat /\ chat[d].granted \in Nat
  BY DEF CInv, Fit, Fields, Numbers
<1>4. chat'[c].inst = sess'[a] /\ chat'[c].run = run'[a]
  <2>1. Shape(chat[c])
    BY DEF CInv, Fit, Fields
  <2> QED
    BY <1>1, <1>2, <2>1 DEF Shape
<1>5. \A b \in ChatAccounts : sess[b] # 0 => sess'[b] # 0
  BY <1>1, <1>2
<1>6. sess'[a] \notin LearnedOf({"superseded"})
  <2>1. SUFFICES ASSUME NEW d \in Chats, chat[d].pc = "done", chat[d].why.class = "superseded", sess'[a] = chat[d].inst
                 PROVE  FALSE
    BY DEF LearnedOf
  <2>2. chat[d].inst <= born.sess /\ (chat[d].inst # 0 => sess[a] # chat[d].inst)
    BY <1>1, <1>3, <2>1 DEF Known
  <2> QED
    BY <1>1, <1>2, <1>3, <2>1, <2>2
<1>7. run'[a] # chat[c].lost
  <2>1. chat[c].lost <= born.run /\ (chat[c].lost # 0 => run[a] # chat[c].lost)
    BY <1>1, <1>3 DEF Known
  <2> QED
    BY <1>1, <1>2, <1>3, <2>1
<1>8. \A d \in Chats \ {c} : ~Granted(d)
  BY <1>1, <1>2, <1>3 DEF Granted
<1> QED
  BY <1>4, <1>5, <1>6, <1>7, <1>8 DEF FateStep

LEMMA FateSteps == CInv /\ [CNext]_cvars => FateStep \/ UNCHANGED cvars
<1> SUFFICES ASSUME CInv, CNext PROVE FateStep
  OBVIOUS
<1>1. ASSUME NEW c \in Chats, AcquireGrants(c) PROVE FateStep
  BY <1>1, GrantFate
<1>2. ASSUME NEW c \in Chats, Recover(c) PROVE FateStep
  BY <1>2, RecoverFate
<1>3. ASSUME NEW c \in Chats,
             \/ AcquireFails(c) \/ PostRefused(c) \/ PostLost(c) \/ WaitEnds(c) \/ PostOk(c)
             \/ Ban(c) \/ Release(c) \/ RelayDone(c) \/ Answer(c) \/ ClientLeaves(c)
      PROVE  FateStep
  BY <1>3, QuietSteps, QuietFate
<1>4. ASSUME NEW a \in ChatAccounts, Readmit(a) PROVE FateStep
  <2>1. sess \in [ChatAccounts -> Nat] /\ born.sess \in Nat
    BY DEF CInv, Books, Distinct
  <2>2. \A b \in ChatAccounts : sess'[b] = sess[b] \/ sess'[b] # 0
    BY <1>4, <2>1 DEF Readmit
  <2>3. \A d \in Chats : chat'[d].granted = chat[d].granted
    BY <1>4 DEF Readmit
  <2> QED
    BY <2>2, <2>3, QuietFate DEF Quiet
<1> QED
  BY <1>1, <1>2, <1>3, <1>4 DEF CNext

\* A cached session is thrown away only when the upstream ended that very instance; a chat never
\* rides an instance that another chat was already answered about as taken over; and the second
\* round runs on another run than the one it lost (engine_attempt.go:218-248, lifecycle.go:185-205).
THEOREM SessionsMeetTheirFate == CSpec => SessionFate
<1>1. CSpec => []CInv
  BY InitCInv, NextCInv, PTL DEF CSpec
<1> QED
  BY <1>1, FateSteps, PTL DEF CSpec, SessionFate

-----------------------------------------------------------------------------
(* The gates: what is remembered of an account's refusals.                 *)

GateShape(l) ==
  /\ l = [e |-> l.e, i |-> l.i, m |-> l.m, rest |-> l.rest, skip |-> l.skip, met |-> l.met, until |-> l.until,
          ret |-> l.ret, staged |-> l.staged]
  /\ l.m \in GModels /\ l.ret \in {"home", "visit", "gates", "leased", "meter"}
GateTypes ==
  /\ now \in 0 .. MaxTime
  /\ ban \in [Accounts -> G!Times] /\ cool \in [Accounts -> G!Times] /\ country \in [Accounts -> G!Times]
  /\ hint \in [Accounts -> G!Times] /\ row \in [Accounts -> G!Times]
  /\ limit \in [Accounts -> [GModels -> G!Times]]
  /\ told \in [Accounts -> SUBSET (G!Kinds \X G!Times)]
  /\ gpc \in [G!GWorkers -> G!GPCs]
  /\ DOMAIN gloc = G!GWorkers /\ \A w \in G!GWorkers : GateShape(gloc[w])
\* A deadline some upstream gave for that account.
Told(a, kinds, t) == t \in G!Times /\ \E k \in kinds : <<k, t>> \in told[a]
BansTold(a) == ban[a] # 0 => Told(a, {"ban"}, ban[a]) /\ cool[a] \in {0, ban[a]}
LimitsTold(a) == \A m \in GModels : limit[a][m] # 0 => Told(a, {m}, limit[a][m])
HintsTold(a) == \A t \in {hint[a], row[a]} \ {0} : Told(a, {"ban", "country"}, t)
\* What a writer has in hand.
InHandTold(w) ==
  /\ gpc[w] = "probe" => gloc[w].e = list[gloc[w].i]
  /\ gpc[w] \in {"put", "save"} /\ gloc[w].e \in Accounts => Told(gloc[w].e, {"ban", "country"}, gloc[w].until)
  /\ gpc[w] = "flush" => /\ gloc[w].staged \in [Accounts -> G!Times]
                         /\ \A a \in Accounts : gloc[w].staged[a] # 0 => Told(a, {"ban", "country"}, gloc[w].staged[a])
Remembered == \A a \in Accounts : BansTold(a) /\ LimitsTold(a) /\ HintsTold(a)
GateInv ==
  /\ GateTypes /\ Remembered
  /\ \A w \in G!GWorkers : InHandTold(w)

LEMMA HonestGates == GateInv => G!RefusalsHonest
BY DEF GateInv, Remembered, BansTold, LimitsTold, HintsTold, Told, G!RefusalsHonest, G!Deadlines

LEMMA HomeShape == GateShape(G!NoGLoc)
BY GatesAreSound DEF GateShape, G!NoGLoc, G!GatesAssumption

LEMMA GatesStart == G!GInit => GateInv
<1> SUFFICES ASSUME G!GInit PROVE GateInv
  OBVIOUS
<1>1. 0 \in G!Times /\ 0 \in 0 .. MaxTime /\ "home" \in G!GPCs
  BY GatesAreSound DEF G!GatesAssumption, G!Times, G!Forever, G!GPCs
<1>2. PICK l : l = G!NoGLoc
  OBVIOUS
<1>3. GateShape(l)
  BY <1>2, HomeShape
<1>4. gloc = [w \in G!GWorkers |-> l] /\ gpc = [w \in G!GWorkers |-> "home"]
  BY <1>2 DEF G!GInit
<1>5. GateTypes
  BY <1>1, <1>3, <1>4 DEF G!GInit, GateTypes
<1> QED
  BY <1>4, <1>5 DEF G!GInit, GateInv, Remembered, BansTold, LimitsTold, HintsTold, InHandTold

\* What was told stays told.
MoreTold ==
  /\ told' \in [Accounts -> SUBSET (G!Kinds \X G!Times)]
  /\ \A a \in Accounts : told[a] \subseteq told'[a]

LEMMA Telling ==
  ASSUME GateTypes, NEW b, NEW k \in G!Kinds, NEW t \in G!Times, G!Tell(b, k, t)
  PROVE  MoreTold /\ (b \in Accounts => <<k, t>> \in told'[b])
<1>1. told' = [told EXCEPT ![b] = told[b] \cup {<<k, t>>}] /\ told \in [Accounts -> SUBSET (G!Kinds \X G!Times)]
  BY DEF G!Tell, GateTypes
<1>2. <<k, t>> \in G!Kinds \X G!Times
  OBVIOUS
<1>3. PICK x, Pairs : x = <<k, t>> /\ Pairs = G!Kinds \X G!Times
  OBVIOUS
<1>4. told' = [told EXCEPT ![b] = told[b] \cup {x}] /\ told \in [Accounts -> SUBSET Pairs] /\ x \in Pairs
  BY <1>1, <1>2, <1>3
<1>5. \A a \in Accounts : told'[a] = IF a = b THEN told[a] \cup {x} ELSE told[a]
  BY <1>4
<1>6. told' \in [Accounts -> SUBSET Pairs]
  BY <1>4, <1>5
<1> QED
  BY <1>3, <1>5, <1>6 DEF MoreTold

LEMMA StaysTold ==
  ASSUME MoreTold, NEW a \in Accounts, NEW kinds, NEW t, Told(a, kinds, t)
  PROVE  Told(a, kinds, t)'
BY DEF Told, MoreTold

\* A worker goes on, with what its place needs in hand.
LEMMA WorkerGoesOn ==
  ASSUME GateInv, MoreTold, UNCHANGED list, NEW w \in G!GWorkers, NEW pc \in G!GPCs, NEW l, GateShape(l), G!Go(w, pc, l),
         pc = "probe" => l.e = list[l.i],
         pc \in {"put", "save"} /\ l.e \in Accounts => Told(l.e, {"ban", "country"}, l.until)',
         pc = "flush" => /\ l.staged \in [Accounts -> G!Times]
                         /\ \A a \in Accounts : l.staged[a] # 0 => Told(a, {"ban", "country"}, l.staged[a])'
  PROVE  /\ gpc' \in [G!GWorkers -> G!GPCs]
         /\ DOMAIN gloc' = G!GWorkers /\ \A v \in G!GWorkers : GateShape(gloc'[v])
         /\ \A v \in G!GWorkers : InHandTold(v)'
<1>1. /\ gpc' \in [G!GWorkers -> G!GPCs] /\ DOMAIN gloc' = G!GWorkers
      /\ \A v \in G!GWorkers : gpc'[v] = (IF v = w THEN pc ELSE gpc[v]) /\ gloc'[v] = (IF v = w THEN l ELSE gloc[v])
  BY DEF G!Go, GateInv, GateTypes
<1>2. \A v \in G!GWorkers : GateShape(gloc'[v])
  BY <1>1 DEF GateInv, GateTypes
<1>3. ASSUME NEW v \in G!GWorkers PROVE InHandTold(v)'
  <2>1. CASE v = w
    BY <1>1, <2>1 DEF InHandTold
  <2>2. CASE v # w
    <3>1. gpc'[v] = gpc[v] /\ gloc'[v] = gloc[v] /\ InHandTold(v)
      BY <1>1, <2>2 DEF GateInv
    <3> QED
      BY <3>1, StaysTold DEF InHandTold
  <2> QED
    BY <2>1, <2>2
<1> QED
  BY <1>1, <1>2, <1>3

LEMMA Unforgotten ==
  ASSUME GateInv, MoreTold, UNCHANGED <<ban, cool, country, limit, hint, row>>
  PROVE  Remembered'
BY StaysTold DEF GateInv, Remembered, BansTold, LimitsTold, HintsTold

\* A step that remembers and forgets nothing.
LEMMA QuietGate ==
  ASSUME GateInv, UNCHANGED <<now, list, ban, cool, country, limit, hint, row, told>>,
         NEW w \in G!GWorkers, NEW pc \in G!GPCs, NEW l, GateShape(l), G!Go(w, pc, l), pc # "flush",
         pc = "probe" => l.e = list[l.i],
         pc \in {"put", "save"} /\ l.e \in Accounts => Told(l.e, {"ban", "country"}, l.until)
  PROVE  GateInv'
<1>1. MoreTold
  BY DEF MoreTold, GateInv, GateTypes
<1>2. Remembered'
  BY <1>1, Unforgotten
<1>3. pc \in {"put", "save"} /\ l.e \in Accounts => Told(l.e, {"ban", "country"}, l.until)'
  BY <1>1, StaysTold
<1>4. /\ gpc' \in [G!GWorkers -> G!GPCs]
      /\ DOMAIN gloc' = G!GWorkers /\ \A v \in G!GWorkers : GateShape(gloc'[v])
      /\ \A v \in G!GWorkers : InHandTold(v)'
  BY <1>1, <1>3, WorkerGoesOn
<1>5. GateTypes'
  BY <1>4 DEF GateInv, GateTypes
<1> QED
  BY <1>2, <1>4, <1>5 DEF GateInv

RemembersSame(w) == \E pc \in G!GPCs \ {"flush", "probe", "put", "save"} : \E l : GateShape(l) /\ G!Go(w, pc, l)

LEMMA QuietlyGoes ==
  ASSUME GateInv, UNCHANGED <<now, list, ban, cool, country, limit, hint, row, told>>, NEW w \in G!GWorkers, RemembersSame(w)
  PROVE  GateInv'
BY QuietGate DEF RemembersSame

\* Of the gates, only the answers of upstream and the writers change what is remembered.
Quietly(w) ==
  \/ G!Arrive(w) \/ G!Lift(w) \/ G!Visit(w) \/ G!Gates(w) \/ G!OtherwiseRefused(w) \/ G!ChatEnds(w)
  \/ G!Judge(w) \/ G!Quarantine(w)

LEMMA QuietStays ==
  ASSUME GateInv, NEW w \in G!GWorkers, Quietly(w)
  PROVE  GateInv'
<1>1. UNCHANGED <<now, list, ban, cool, country, limit, hint, row, told>>
  BY DEF Quietly, G!Arrive, G!Lift, G!Visit, G!Gates, G!OtherwiseRefused, G!ChatEnds, G!Judge, G!Quarantine, G!Act,
         G!memory, G!hints, G!history
<1>2. GateShape(gloc[w])
  BY DEF GateInv, GateTypes
<1>3. RemembersSame(w)
  <2>1. CASE G!Arrive(w)
    <3>1. PICK m \in GModels : G!Go(w, "visit", [G!NoGLoc EXCEPT !.rest = G!SpillOrder, !.m = m, !.skip = G!HintSkippable(G!SpillOrder), !.met = "hint"])
      BY <2>1 DEF G!Arrive
    <3>2. PICK l : l = [G!NoGLoc EXCEPT !.rest = G!SpillOrder, !.m = m, !.skip = G!HintSkippable(G!SpillOrder), !.met = "hint"]
      OBVIOUS
    <3>3. GateShape(l)
      <4>1. PICK n : n = G!NoGLoc
        OBVIOUS
      <4> QED
        BY <3>2, <4>1, HomeShape DEF GateShape
    <3> QED
      BY <3>1, <3>2, <3>3 DEF RemembersSame, G!GPCs
  <2>2. CASE G!Lift(w)
    <3>1. PICK a : G!Go(w, "wipe", [G!NoGLoc EXCEPT !.e = a])
      BY <2>2 DEF G!Lift
    <3>2. PICK l : l = [G!NoGLoc EXCEPT !.e = a]
      OBVIOUS
    <3>3. GateShape(l)
      <4>1. PICK n : n = G!NoGLoc
        OBVIOUS
      <4> QED
        BY <3>2, <4>1, HomeShape DEF GateShape
    <3> QED
      BY <3>1, <3>2, <3>3 DEF RemembersSame, G!GPCs
  <2>3. CASE G!Visit(w)
    <3>0. PICK h, t : h = Head(gloc[w].rest) /\ t = Tail(gloc[w].rest)
      OBVIOUS
    <3>1. PICK l : l = [gloc[w] EXCEPT !.e = h, !.rest = t]
      OBVIOUS
    <3>2. GateShape(l) /\ GateShape([l EXCEPT !.met = "gate"]) /\ GateShape([l EXCEPT !.ret = "gates"])
      <4>1. GateShape(l)
        BY <1>2, <3>1 DEF GateShape
      <4>2. GateShape([l EXCEPT !.met = "gate"])
        BY <4>1 DEF GateShape
      <4>3. GateShape([l EXCEPT !.ret = "gates"])
        BY <4>1 DEF GateShape
      <4> QED
        BY <4>1, <4>2, <4>3
    <3>3. \/ G!Go(w, "home", G!NoGLoc) \/ G!Go(w, "visit", l) \/ G!Go(w, "visit", [l EXCEPT !.met = "gate"])
          \/ G!Go(w, "wipe", [l EXCEPT !.ret = "gates"]) \/ G!Go(w, "gates", l)
      BY <2>3, <3>0, <3>1 DEF G!Visit
    <3> QED
      BY <3>2, <3>3, HomeShape DEF RemembersSame, G!GPCs
  <2>4. CASE G!Gates(w)
    <3>1. GateShape([gloc[w] EXCEPT !.met = "gate"])
      BY <1>2 DEF GateShape
    <3> QED
      BY <2>4, <3>1 DEF RemembersSame, G!GPCs, G!Gates
  <2>5. CASE G!OtherwiseRefused(w) \/ G!Judge(w) \/ G!Quarantine(w)
    BY <1>2, <2>5 DEF RemembersSame, G!GPCs, G!OtherwiseRefused, G!Judge, G!Quarantine, G!On
  <2>6. CASE G!ChatEnds(w)
    BY <2>6, HomeShape DEF RemembersSame, G!GPCs, G!ChatEnds
  <2> QED
    BY <2>1, <2>2, <2>3, <2>4, <2>5, <2>6 DEF Quietly
<1> QED
  BY <1>1, <1>3, QuietlyGoes

LEMMA ProberQuiet ==
  ASSUME GateInv, G!ProbeRefused \/ G!ProbeHealthy \/ G!Metered \/ G!UnlockMark
  PROVE  GateInv'
<1>1. UNCHANGED <<now, list, ban, cool, country, limit, hint, row, told>> /\ GProber \in G!GWorkers /\ GOperator \in G!GWorkers
  BY DEF G!ProbeRefused, G!ProbeHealthy, G!Metered, G!UnlockMark, G!memory, G!hints, G!history, G!GWorkers
<1>2. GateShape(gloc[GProber]) /\ GateShape(gloc[GOperator])
  BY <1>1 DEF GateInv, GateTypes
<1>3. GateShape([gloc[GProber] EXCEPT !.ret = "meter"]) /\ GateShape([gloc[GProber] EXCEPT !.ret = "home"])
  BY <1>2 DEF GateShape
<1>4. RemembersSame(GProber) \/ RemembersSame(GOperator)
  BY <1>2, <1>3, HomeShape DEF RemembersSame, G!GPCs, G!ProbeRefused, G!ProbeHealthy, G!Metered, G!UnlockMark, G!On
<1> QED
  BY <1>1, <1>4, QuietlyGoes

LEMMA ProbeKeepsTold ==
  ASSUME GateInv, G!Probe
  PROVE  GateInv'
<1>1. UNCHANGED <<now, list, ban, cool, country, limit, hint, row, told>> /\ GProber \in G!GWorkers
  BY DEF G!Probe, G!Act, G!memory, G!hints, G!GWorkers
<1>2. PICK i : G!Go(GProber, "probe", [G!NoGLoc EXCEPT !.i = i, !.e = list[i]])
  BY DEF G!Probe
<1>3. PICK l : l = [G!NoGLoc EXCEPT !.i = i, !.e = list[i]]
  OBVIOUS
<1>4. GateShape(l) /\ l.e = list[l.i]
  <2>1. PICK n : n = G!NoGLoc
    OBVIOUS
  <2> QED
    BY <1>3, <2>1, HomeShape DEF GateShape
<1> QED
  BY <1>1, <1>2, <1>3, <1>4, QuietGate DEF G!GPCs

LEMMA BanHintKeeps ==
  ASSUME GateInv, NEW w \in G!GWorkers, G!BanHint(w)
  PROVE  GateInv'
<1>1. UNCHANGED <<now, list, ban, cool, country, limit, hint, row, told>> /\ GateShape(gloc[w])
  BY DEF G!BanHint, G!memory, G!hints, G!history, GateInv, GateTypes
<1>2. CASE G!BanLive(gloc[w].e) /\ G!Go(w, "put", [gloc[w] EXCEPT !.until = ban[gloc[w].e]])
  <2>1. PICK l : l = [gloc[w] EXCEPT !.until = ban[gloc[w].e]]
    OBVIOUS
  <2>2. GateShape(l) /\ l.e = gloc[w].e /\ l.until = ban[l.e]
    BY <1>1, <2>1 DEF GateShape
  <2>3. l.e \in Accounts => Told(l.e, {"ban", "country"}, l.until)
    <3>1. l.e \in Accounts => ban[l.e] # 0
      BY <1>2, <2>2 DEF G!BanLive, G!Live, GateInv, GateTypes
    <3> QED
      BY <2>2, <3>1 DEF GateInv, Remembered, BansTold, Told
  <2> QED
    BY <1>1, <1>2, <2>1, <2>2, <2>3, QuietGate DEF G!GPCs
<1>3. CASE G!On(w, "wipe")
  BY <1>1, <1>3, QuietlyGoes DEF RemembersSame, G!On, G!GPCs
<1> QED
  BY <1>2, <1>3 DEF G!BanHint, G!HintUntil

MemoryTypes ==
  /\ now \in 0 .. MaxTime
  /\ ban \in [Accounts -> G!Times] /\ cool \in [Accounts -> G!Times] /\ country \in [Accounts -> G!Times]
  /\ hint \in [Accounts -> G!Times] /\ row \in [Accounts -> G!Times]
  /\ limit \in [Accounts -> [GModels -> G!Times]]

\* A step that remembers or forgets, and goes on.
LEMMA GateStep ==
  ASSUME GateInv, MoreTold, UNCHANGED list, MemoryTypes', Remembered', NEW w \in G!GWorkers, NEW pc \in G!GPCs, NEW l,
         GateShape(l), G!Go(w, pc, l), pc \notin {"probe", "flush"},
         pc \in {"put", "save"} /\ l.e \in Accounts => Told(l.e, {"ban", "country"}, l.until)'
  PROVE  GateInv'
<1>1. /\ gpc' \in [G!GWorkers -> G!GPCs]
      /\ DOMAIN gloc' = G!GWorkers /\ \A v \in G!GWorkers : GateShape(gloc'[v])
      /\ \A v \in G!GWorkers : InHandTold(v)'
  BY WorkerGoesOn
<1>2. GateTypes'
  BY <1>1 DEF MoreTold, GateTypes, MemoryTypes
<1> QED
  BY <1>1, <1>2 DEF GateInv

LEMMA SamePast == GateTypes /\ UNCHANGED told => MoreTold
BY DEF GateTypes, MoreTold

\* The writers.
LEMMA Leaves ==
  ASSUME NEW w, GateShape(gloc[w]), G!Leave(w)
  PROVE  \E pc \in {"home", "visit", "gates", "leased", "meter"} : \E l : GateShape(l) /\ G!Go(w, pc, l)
BY HomeShape DEF G!Leave, G!On, GateShape

LEMMA Overwritten ==
  ASSUME NEW f \in [Accounts -> G!Times], NEW b, NEW t, b \in Accounts => t \in G!Times
  PROVE  /\ [f EXCEPT ![b] = t] \in [Accounts -> G!Times]
         /\ \A a \in Accounts : [f EXCEPT ![b] = t][a] = IF a = b THEN t ELSE f[a]
OBVIOUS

LEMMA WritersKeep ==
  ASSUME GateInv, NEW w \in G!GWorkers, G!PutHint(w) \/ G!SaveHint(w) \/ G!WipeHint(w) \/ G!WipeRow(w)
  PROVE  GateInv'
<1> DEFINE a == gloc[w].e
<1>1. UNCHANGED <<now, list, ban, cool, country, limit, told>> /\ GateShape(gloc[w]) /\ MoreTold
  BY SamePast DEF G!PutHint, G!SaveHint, G!WipeHint, G!WipeRow, G!memory, G!history, GateInv, GateTypes
<1>2. 0 \in G!Times
  BY GatesAreSound DEF G!GatesAssumption, G!Times, G!Forever
<1>3. \/ UNCHANGED hint
      \/ hint' = [hint EXCEPT ![a] = 0]
      \/ hint' = [hint EXCEPT ![a] = gloc[w].until] /\ gpc[w] = "put"
  BY DEF G!PutHint, G!SaveHint, G!WipeHint, G!WipeRow
<1>4. \/ UNCHANGED row
      \/ row' = [row EXCEPT ![a] = 0]
      \/ row' = [row EXCEPT ![a] = gloc[w].until] /\ gpc[w] = "save"
  BY DEF G!PutHint, G!SaveHint, G!WipeHint, G!WipeRow
<1>5. gpc[w] \in {"put", "save"} /\ a \in Accounts => Told(a, {"ban", "country"}, gloc[w].until)
  BY DEF GateInv, InHandTold
<1>6. hint' \in [Accounts -> G!Times] /\ \A b \in Accounts : hint'[b] \in {0, hint[b]} \/ Told(b, {"ban", "country"}, hint'[b])
  <2>1. PICK b, t, f : b = a /\ t = gloc[w].until /\ f = hint
    OBVIOUS
  <2>2. f \in [Accounts -> G!Times]
    BY <2>1 DEF GateInv, GateTypes
  <2>3. CASE hint' = [f EXCEPT ![b] = 0]
    BY <1>2, <2>1, <2>2, <2>3, Overwritten
  <2>4. CASE hint' = [f EXCEPT ![b] = t] /\ gpc[w] = "put"
    <3>1. b \in Accounts => t \in G!Times /\ Told(b, {"ban", "country"}, t)
      BY <1>5, <2>1, <2>4 DEF Told
    <3>2. PICK g : g = [f EXCEPT ![b] = t]
      OBVIOUS
    <3>3. g \in [Accounts -> G!Times] /\ \A c \in Accounts : g[c] = IF c = b THEN t ELSE f[c]
      BY <2>2, <3>1, <3>2, Overwritten
    <3>4. \A c \in Accounts : g[c] \in {0, f[c]} \/ Told(c, {"ban", "country"}, g[c])
      BY <3>1, <3>3
    <3> QED
      BY <2>1, <2>4, <3>2, <3>3, <3>4
  <2> QED
    BY <1>3, <2>1, <2>2, <2>3, <2>4
<1>7. row' \in [Accounts -> G!Times] /\ \A b \in Accounts : row'[b] \in {0, row[b]} \/ Told(b, {"ban", "country"}, row'[b])
  <2>1. PICK b, t, f : b = a /\ t = gloc[w].until /\ f = row
    OBVIOUS
  <2>2. f \in [Accounts -> G!Times]
    BY <2>1 DEF GateInv, GateTypes
  <2>3. CASE row' = [f EXCEPT ![b] = 0]
    BY <1>2, <2>1, <2>2, <2>3, Overwritten
  <2>4. CASE row' = [f EXCEPT ![b] = t] /\ gpc[w] = "save"
    <3>1. b \in Accounts => t \in G!Times /\ Told(b, {"ban", "country"}, t)
      BY <1>5, <2>1, <2>4 DEF Told
    <3>2. PICK g : g = [f EXCEPT ![b] = t]
      OBVIOUS
    <3>3. g \in [Accounts -> G!Times] /\ \A c \in Accounts : g[c] = IF c = b THEN t ELSE f[c]
      BY <2>2, <3>1, <3>2, Overwritten
    <3>4. \A c \in Accounts : g[c] \in {0, f[c]} \/ Told(c, {"ban", "country"}, g[c])
      BY <3>1, <3>3
    <3> QED
      BY <2>1, <2>4, <3>2, <3>3, <3>4
  <2> QED
    BY <1>4, <2>1, <2>2, <2>3, <2>4
<1>8. MemoryTypes'
  BY <1>1, <1>6, <1>7 DEF GateInv, GateTypes, MemoryTypes
<1>9. Remembered'
  <2>1. ASSUME NEW b \in Accounts PROVE HintsTold(b)'
    BY <1>1, <1>6, <1>7, StaysTold DEF GateInv, Remembered, HintsTold
  <2> QED
    BY <1>1, <2>1, StaysTold DEF GateInv, Remembered, BansTold, LimitsTold
<1>10. \E pc \in {"home", "visit", "gates", "leased", "meter", "unrow", "save"} : \E l :
          GateShape(l) /\ G!Go(w, pc, l) /\ (pc = "save" => gpc[w] = "put" /\ l = gloc[w])
  <2>1. CASE G!PutHint(w)
    BY <1>1, <2>1 DEF G!PutHint, G!On
  <2>2. CASE G!Leave(w)
    <3>1. PICK pc \in {"home", "visit", "gates", "leased", "meter"} : \E l : GateShape(l) /\ G!Go(w, pc, l)
      BY <1>1, <2>2, Leaves
    <3> QED
      BY <3>1
  <2>3. CASE G!On(w, "unrow")
    BY <1>1, <2>3 DEF G!On
  <2> QED
    BY <2>1, <2>2, <2>3 DEF G!SaveHint, G!WipeHint, G!WipeRow
<1>12. PICK pc \in {"home", "visit", "gates", "leased", "meter", "unrow", "save"} : \E l :
          GateShape(l) /\ G!Go(w, pc, l) /\ (pc = "save" => gpc[w] = "put" /\ l = gloc[w])
  BY <1>10
<1>13. PICK l : GateShape(l) /\ G!Go(w, pc, l) /\ (pc = "save" => gpc[w] = "put" /\ l = gloc[w])
  BY <1>12
<1>14. pc \in {"put", "save"} /\ l.e \in Accounts => Told(l.e, {"ban", "country"}, l.until)'
  BY <1>1, <1>5, <1>13, StaysTold
<1>15. pc \in G!GPCs /\ pc \notin {"probe", "flush"}
  BY DEF G!GPCs
<1> QED
  BY <1>1, <1>8, <1>9, <1>13, <1>14, <1>15, GateStep

\* What the run manager remembers of an account changes, and the hints stay.
LEMMA Bans ==
  ASSUME GateInv, MoreTold, UNCHANGED <<now, hint, row>>, NEW b, NEW t \in G!Times, b \in Accounts => Told(b, {"ban"}, t)',
         G!CooldownBan(b, t)
  PROVE  MemoryTypes' /\ Remembered'
<1>1. PICK u : u = IF G!Live(t) THEN t ELSE 0
  OBVIOUS
<1>2. PICK c : c = IF u = G!Forever THEN 0 ELSE u
  OBVIOUS
<1>3. u \in {0, t} /\ c \in {0, u} /\ 0 \in G!Times
  BY <1>1, <1>2, GatesAreSound DEF G!GatesAssumption, G!Times, G!Forever
<1>4. ban' = [ban EXCEPT ![b] = u] /\ cool' = [cool EXCEPT ![b] = c] /\ country' = [country EXCEPT ![b] = 0] /\ UNCHANGED limit
  BY <1>1, <1>2 DEF G!CooldownBan
<1>5. MemoryTypes'
  BY <1>3, <1>4 DEF GateInv, GateTypes, MemoryTypes
<1>6. \A a \in Accounts : ban'[a] = (IF a = b THEN u ELSE ban[a]) /\ cool'[a] = (IF a = b THEN c ELSE cool[a])
  BY <1>4 DEF GateInv, GateTypes
<1>7. ASSUME NEW a \in Accounts PROVE BansTold(a)'
  <2>1. CASE a = b
    BY <1>3, <1>6, <2>1 DEF BansTold
  <2>2. CASE a # b
    BY <1>6, <2>2, StaysTold DEF GateInv, Remembered, BansTold
  <2> QED
    BY <2>1, <2>2
<1>8. ASSUME NEW a \in Accounts PROVE LimitsTold(a)' /\ HintsTold(a)'
  BY <1>4, StaysTold DEF GateInv, Remembered, LimitsTold, HintsTold
<1> QED
  BY <1>5, <1>7, <1>8 DEF Remembered

\* The ban goes, and the cooldown is any.
LEMMA Unbans ==
  ASSUME GateInv, MoreTold, UNCHANGED <<now, hint, row>>, NEW b, NEW c \in G!Times, NEW d \in G!Times,
         ban' = [ban EXCEPT ![b] = 0], cool' = [cool EXCEPT ![b] = c], country' = [country EXCEPT ![b] = d],
         \/ UNCHANGED limit
         \/ limit' = [limit EXCEPT ![b] = [m \in GModels |-> 0]]
  PROVE  MemoryTypes' /\ Remembered'
<1>1. 0 \in G!Times
  BY GatesAreSound DEF G!GatesAssumption, G!Times, G!Forever
<1>2. /\ ban' \in [Accounts -> G!Times] /\ cool' \in [Accounts -> G!Times] /\ country' \in [Accounts -> G!Times]
      /\ \A a \in Accounts : ban'[a] = 0 \/ (ban'[a] = ban[a] /\ cool'[a] = cool[a])
  BY <1>1 DEF GateInv, GateTypes
<1>3. PICK z : z = [m \in GModels |-> 0]
  OBVIOUS
<1>4. z \in [GModels -> G!Times] /\ \A m \in GModels : z[m] = 0
  BY <1>1, <1>3
<1>5. limit' \in [Accounts -> [GModels -> G!Times]] /\ \A a \in Accounts : limit'[a] \in {z, limit[a]}
  BY <1>3, <1>4 DEF GateInv, GateTypes
<1>6. MemoryTypes'
  BY <1>2, <1>5 DEF GateInv, GateTypes, MemoryTypes
<1>7. ASSUME NEW a \in Accounts PROVE BansTold(a)'
  BY <1>2, StaysTold DEF GateInv, Remembered, BansTold
<1>8. ASSUME NEW a \in Accounts PROVE LimitsTold(a)'
  BY <1>4, <1>5, StaysTold DEF GateInv, Remembered, LimitsTold
<1>9. ASSUME NEW a \in Accounts PROVE HintsTold(a)'
  BY StaysTold DEF GateInv, Remembered, HintsTold
<1> QED
  BY <1>6, <1>7, <1>8, <1>9 DEF Remembered

LEMMA Clears ==
  ASSUME GateInv, UNCHANGED <<now, hint, row, told>>, NEW b, G!ClearCooldowns(b)
  PROVE  MoreTold /\ MemoryTypes' /\ Remembered'
<1>1. MoreTold
  BY SamePast DEF GateInv
<1>2. 0 \in G!Times
  BY GatesAreSound DEF G!GatesAssumption, G!Times, G!Forever
<1> QED
  BY <1>1, <1>2, Unbans DEF G!ClearCooldowns

\* The deadlines there are.
LEMMA Deadline ==
  /\ (0 .. MaxTime) \cup {G!Forever} \subseteq G!Times
  /\ GateTypes => now + G!Window \in G!Times
  /\ {"ban", "country"} \subseteq G!Kinds /\ GModels \subseteq G!Kinds
BY GatesAreSound DEF G!GatesAssumption, G!Times, G!Forever, G!Window, G!Kinds, GateTypes

LEMMA AnswersKeep ==
  ASSUME GateInv, NEW w \in G!GWorkers, G!Admitted(w) \/ G!Banned(w) \/ G!CountryRefused(w) \/ G!Limited(w) \/ G!ChatBanned(w)
  PROVE  GateInv'
<1>1. UNCHANGED <<now, list, hint, row>> /\ GateShape(gloc[w]) /\ GateTypes
  BY DEF G!Admitted, G!Banned, G!CountryRefused, G!Limited, G!ChatBanned, G!hints, GateInv, GateTypes
<1>2. PICK b, l : l = gloc[w] /\ b = l.e
  OBVIOUS
<1>3. CASE G!Admitted(w)
  <2>1. PICK n : n = [l EXCEPT !.ret = "leased"]
    OBVIOUS
  <2>2. GateShape(n)
    BY <1>1, <1>2, <2>1 DEF GateShape
  <2>3. MoreTold /\ MemoryTypes' /\ Remembered' /\ G!Go(w, "wipe", n)
    BY <1>1, <1>2, <1>3, <2>1, Clears DEF G!Admitted, G!history
  <2> QED
    BY <1>1, <2>2, <2>3, GateStep DEF G!GPCs
<1>4. CASE G!Banned(w) \/ G!ChatBanned(w)
  <2>1. PICK t \in (0 .. MaxTime) \cup {G!Forever}, r \in {"visit", "home"} :
          G!Tell(b, "ban", t) /\ G!CooldownBan(b, t) /\ G!Go(w, "judge", [l EXCEPT !.until = t, !.ret = r])
    BY <1>2, <1>4 DEF G!Banned, G!ChatBanned
  <2>2. PICK n : n = [l EXCEPT !.until = t, !.ret = r]
    OBVIOUS
  <2>3. GateShape(n)
    BY <1>1, <1>2, <2>2 DEF GateShape
  <2>4. t \in G!Times /\ "ban" \in G!Kinds
    BY Deadline
  <2>5. MoreTold /\ (b \in Accounts => <<"ban", t>> \in told'[b])
    BY <1>1, <2>1, <2>4, Telling
  <2>6. b \in Accounts => Told(b, {"ban"}, t)'
    BY <2>4, <2>5 DEF Told
  <2>7. MemoryTypes' /\ Remembered'
    BY <1>1, <2>1, <2>4, <2>5, <2>6, Bans
  <2> QED
    BY <1>1, <2>1, <2>2, <2>3, <2>5, <2>7, GateStep DEF G!GPCs
<1>5. CASE G!CountryRefused(w)
  <2>1. PICK t : t = now + G!Window
    OBVIOUS
  <2>2. PICK n : n = [l EXCEPT !.until = t, !.ret = "home"]
    OBVIOUS
  <2>3. GateShape(n) /\ n.e = b /\ n.until = t
    BY <1>1, <1>2, <2>2 DEF GateShape
  <2>4. t \in G!Times /\ "country" \in G!Kinds
    BY <1>1, <2>1, Deadline
  <2>5. G!Tell(b, "country", t) /\ G!Go(w, "put", n) /\ UNCHANGED <<ban, cool, country, limit>>
    BY <1>2, <1>5, <2>1, <2>2 DEF G!CountryRefused, G!memory
  <2>6. MoreTold /\ (b \in Accounts => <<"country", t>> \in told'[b])
    BY <1>1, <2>4, <2>5, Telling
  <2>7. n.e \in Accounts => Told(n.e, {"ban", "country"}, n.until)'
    BY <2>3, <2>4, <2>6 DEF Told
  <2>8. MemoryTypes' /\ Remembered'
    BY <1>1, <2>5, <2>6, Unforgotten DEF GateTypes, MemoryTypes
  <2> QED
    BY <1>1, <2>3, <2>5, <2>6, <2>7, <2>8, GateStep DEF G!GPCs
<1>6. CASE G!Limited(w)
  <2>1. PICK m : m = l.m
    OBVIOUS
  <2>2. PICK t \in 0 .. MaxTime : G!Tell(b, m, t) /\ limit' \in {limit, [limit EXCEPT ![b][m] = t]}
    BY <1>2, <1>6, <2>1 DEF G!Limited
  <2>3. t \in G!Times /\ UNCHANGED <<ban, cool>> /\ country' = country /\ G!Go(w, "visit", l)
    BY <1>2, <1>6, Deadline DEF G!Limited, G!On
  <2>4. m \in GModels /\ m \in G!Kinds
    BY <1>1, <1>2, <2>1, Deadline DEF GateShape
  <2>5. MoreTold /\ (b \in Accounts => <<m, t>> \in told'[b])
    BY <1>1, <2>2, <2>3, <2>4, Telling
  <2>6. limit' \in [Accounts -> [GModels -> G!Times]]
    <3>1. CASE UNCHANGED limit
      BY <1>1, <3>1 DEF GateTypes
    <3>2. CASE b \in Accounts /\ limit' = [limit EXCEPT ![b][m] = t]
      <4>1. PICK g : g = [limit[b] EXCEPT ![m] = t]
        OBVIOUS
      <4>2. g \in [GModels -> G!Times] /\ limit' = [limit EXCEPT ![b] = g]
        BY <1>1, <2>3, <3>2, <4>1 DEF GateTypes
      <4> QED
        BY <1>1, <4>2 DEF GateTypes
    <3>3. CASE b \notin Accounts /\ limit' = [limit EXCEPT ![b][m] = t]
      BY <1>1, <3>3 DEF GateTypes
    <3> QED
      BY <2>2, <3>1, <3>2, <3>3
  <2>7. \A a \in Accounts, n \in GModels : limit'[a][n] = limit[a][n] \/ (a = b /\ n = m /\ limit'[a][n] = t)
    BY <1>1, <2>2 DEF GateTypes
  <2>8. b \in Accounts => Told(b, {m}, t)'
    BY <2>3, <2>5 DEF Told
  <2>9. ASSUME NEW a \in Accounts PROVE LimitsTold(a)'
    <3>1. ASSUME NEW n \in GModels, NEW u, u = limit'[a][n], u # 0 PROVE Told(a, {n}, u)'
      <4>1. CASE u = limit[a][n]
        <5>1. Told(a, {n}, u)
          BY <3>1, <4>1 DEF GateInv, Remembered, LimitsTold
        <5> QED
          BY <2>5, <5>1, StaysTold
      <4>2. CASE a = b /\ n = m /\ u = t
        BY <2>8, <4>2
      <4> QED
        BY <2>7, <3>1, <4>1, <4>2
    <3> QED
      BY <3>1 DEF LimitsTold, Told
  <2>10. ASSUME NEW a \in Accounts PROVE BansTold(a)' /\ HintsTold(a)'
    BY <1>1, <2>3, <2>5, StaysTold DEF GateInv, Remembered, BansTold, HintsTold
  <2>11. MemoryTypes' /\ Remembered'
    BY <1>1, <2>3, <2>6, <2>9, <2>10 DEF GateTypes, MemoryTypes, Remembered
  <2> QED
    BY <1>1, <1>2, <2>3, <2>5, <2>11, GateStep DEF G!GPCs
<1> QED
  BY <1>3, <1>4, <1>5, <1>6

\* The prober's answers.
LEMMA ProbeAnswersKeep ==
  ASSUME GateInv, G!ProbeBanned \/ G!ProbeCountry \/ G!ProbeClears \/ G!Exhausted
  PROVE  GateInv'
<1> GProber \in G!GWorkers
  BY DEF G!GWorkers
<1>1. UNCHANGED <<now, list, hint, row>> /\ GateShape(gloc[GProber]) /\ GateTypes
  BY DEF G!ProbeBanned, G!ProbeCountry, G!ProbeClears, G!Exhausted, G!hints, GateInv, GateTypes
<1>2. PICK l, b : l = gloc[GProber] /\ b = list[l.i]
  OBVIOUS
<1>3. G!ProbeBanned \/ G!ProbeCountry => l.e = b
  BY <1>2 DEF GateInv, InHandTold, G!ProbeBanned, G!ProbeCountry
<1>4. CASE G!ProbeBanned
  <2>1. PICK t \in (0 .. MaxTime) \cup {G!Forever} :
          G!Tell(b, "ban", t) /\ G!CooldownBan(b, t) /\ G!Go(GProber, "judge", [l EXCEPT !.e = b, !.until = t])
    BY <1>2, <1>3, <1>4 DEF G!ProbeBanned
  <2>2. PICK n : n = [l EXCEPT !.e = b, !.until = t]
    OBVIOUS
  <2>3. GateShape(n)
    BY <1>1, <1>2, <2>2 DEF GateShape
  <2>4. t \in G!Times /\ "ban" \in G!Kinds
    BY Deadline
  <2>5. MoreTold /\ (b \in Accounts => <<"ban", t>> \in told'[b])
    BY <1>1, <2>1, <2>4, Telling
  <2>6. b \in Accounts => Told(b, {"ban"}, t)'
    BY <2>4, <2>5 DEF Told
  <2>7. MemoryTypes' /\ Remembered'
    BY <1>1, <2>1, <2>4, <2>5, <2>6, Bans
  <2> QED
    BY <1>1, <2>1, <2>2, <2>3, <2>5, <2>7, GateStep DEF G!GPCs
<1>5. CASE G!ProbeCountry
  <2>1. PICK t : t = now + G!Window
    OBVIOUS
  <2>2. t \in G!Times /\ "country" \in G!Kinds /\ 0 \in G!Times
    BY <1>1, <2>1, Deadline, GatesAreSound DEF G!GatesAssumption, G!Times, G!Forever
  <2>3. G!Tell(b, "country", t) /\ G!CountryBlocked(b)
    BY <1>2, <1>3, <1>5, <2>1 DEF G!ProbeCountry
  <2>4. MoreTold /\ (b \in Accounts => <<"country", t>> \in told'[b])
    BY <1>1, <2>2, <2>3, Telling
  <2> PICK u : u = cool'[b]
    OBVIOUS
  <2>5. MemoryTypes' /\ Remembered' /\ (b \in Accounts /\ u # 0 => Told(b, {"ban", "country"}, u)')
    <3>1. CASE G!BanLive(b)
      <4>1. UNCHANGED <<ban, cool, country, limit>>
        BY <2>3, <3>1 DEF G!CountryBlocked, G!memory
      <4>2. MemoryTypes' /\ Remembered'
        BY <1>1, <2>4, <4>1, Unforgotten DEF GateTypes, MemoryTypes
      <4>3. b \in Accounts /\ u # 0 => Told(b, {"ban"}, u)
        <5>1. b \in Accounts => ban[b] # 0
          BY <1>1, <3>1 DEF G!BanLive, G!Live, GateTypes
        <5> QED
          BY <4>1, <5>1 DEF GateInv, Remembered, BansTold
      <4>4. b \in Accounts /\ u # 0 => Told(b, {"ban"}, u)'
        BY <2>4, <4>3, StaysTold
      <4>5. b \in Accounts /\ u # 0 => Told(b, {"ban", "country"}, u)'
        BY <4>4 DEF Told
      <4> QED
        BY <4>2, <4>5
    <3>2. CASE ~G!BanLive(b)
      <4>1. /\ ban' = [ban EXCEPT ![b] = 0] /\ cool' = [cool EXCEPT ![b] = t] /\ country' = [country EXCEPT ![b] = t]
            /\ UNCHANGED limit
        BY <2>1, <2>3, <3>2 DEF G!CountryBlocked
      <4>2. MemoryTypes' /\ Remembered'
        BY <1>1, <2>2, <2>4, <4>1, Unbans
      <4>3. b \in Accounts => u = t
        BY <1>1, <4>1 DEF GateTypes
      <4>4. b \in Accounts => Told(b, {"ban", "country"}, t)'
        BY <2>2, <2>4 DEF Told
      <4> QED
        BY <4>2, <4>3, <4>4
    <3> QED
      BY <3>1, <3>2
  <2>6. CASE G!Go(GProber, "home", G!NoGLoc)
    BY <1>1, <2>4, <2>5, <2>6, HomeShape, GateStep DEF G!GPCs
  <2>7. CASE u # 0 /\ G!Go(GProber, "put", [l EXCEPT !.e = b, !.until = u])
    <3>2. PICK n : n = [l EXCEPT !.e = b, !.until = u]
      OBVIOUS
    <3>3. GateShape(n) /\ n.e = b /\ n.until = u
      BY <1>1, <1>2, <3>2 DEF GateShape
    <3>4. n.e \in Accounts => Told(n.e, {"ban", "country"}, n.until)'
      BY <2>5, <2>7, <3>3
    <3> QED
      BY <1>1, <2>4, <2>5, <2>7, <3>2, <3>3, <3>4, GateStep DEF G!GPCs
  <2> QED
    BY <1>2, <1>5, <2>6, <2>7 DEF G!ProbeCountry
<1>6. CASE G!ProbeClears
  <2>1. MoreTold /\ MemoryTypes' /\ Remembered' /\ G!Go(GProber, "wipe", l)
    <3>1. PICK c : c = l.e
      OBVIOUS
    <3> QED
      BY <1>1, <1>2, <1>6, <3>1, Clears DEF G!ProbeClears, G!history, G!On
  <2> QED
    BY <1>1, <1>2, <2>1, GateStep DEF G!GPCs
<1>7. CASE G!Exhausted
  <2>1. PICK t : t = now + G!Window
    OBVIOUS
  <2>2. t \in G!Times /\ 0 \in G!Times
    BY <1>1, <2>1, Deadline, GatesAreSound DEF G!GatesAssumption, G!Times, G!Forever
  <2>3. /\ ban' = [ban EXCEPT ![b] = 0] /\ cool' = [cool EXCEPT ![b] = t] /\ country' = [country EXCEPT ![b] = 0]
        /\ UNCHANGED limit /\ G!Go(GProber, "home", G!NoGLoc) /\ UNCHANGED told
    BY <1>2, <1>7, <2>1 DEF G!Exhausted, G!Cooldown, G!history
  <2>4. MoreTold
    BY <1>1, <2>3, SamePast
  <2>5. MemoryTypes' /\ Remembered'
    BY <1>1, <2>2, <2>3, <2>4, Unbans
  <2> QED
    BY <1>1, <2>3, <2>4, <2>5, HomeShape, GateStep DEF G!GPCs
<1> QED
  BY <1>4, <1>5, <1>6, <1>7

\* The operator unlocks, the keeper flushes, the process restarts, time passes.
LEMMA UnlockKeeps ==
  ASSUME GateInv, G!Unlock
  PROVE  GateInv'
<1>1. UNCHANGED <<now, list, hint, row, told>> /\ GOperator \in G!GWorkers
  BY DEF G!Unlock, G!hints, G!GWorkers
<1>2. PICK a : G!ClearCooldowns(a) /\ G!Go(GOperator, "unmark", [G!NoGLoc EXCEPT !.e = a])
  BY DEF G!Unlock
<1>3. PICK n, l : n = G!NoGLoc /\ l = [n EXCEPT !.e = a]
  OBVIOUS
<1>4. GateShape(l)
  BY <1>3, HomeShape DEF GateShape
<1>5. MoreTold /\ MemoryTypes' /\ Remembered'
  BY <1>1, <1>2, Clears
<1> QED
  BY <1>1, <1>2, <1>3, <1>4, <1>5, GateStep DEF G!GPCs

LEMMA StageKeeps ==
  ASSUME GateInv, G!Stage
  PROVE  GateInv'
<1>1. UNCHANGED <<now, list, ban, cool, country, limit, row, told>> /\ GKeeper \in G!GWorkers /\ MoreTold /\ 0 \in G!Times
  BY SamePast, GatesAreSound DEF G!Stage, G!memory, G!GWorkers, GateInv, G!GatesAssumption, G!Times, G!Forever
<1>2. PICK f : f = [a \in Accounts |-> IF G!Fresh(a) THEN hint[a] ELSE 0]
  OBVIOUS
<1>3. f \in [Accounts -> G!Times] /\ \A a \in Accounts : f[a] \in {0, hint[a]}
  BY <1>1, <1>2 DEF GateInv, GateTypes
<1>4. PICK n, l : n = G!NoGLoc /\ l = [n EXCEPT !.staged = f]
  OBVIOUS
<1>5. GateShape(l) /\ l.staged = f
  BY <1>4, HomeShape DEF GateShape
<1>6. hint' = f /\ G!Go(GKeeper, "flush", l)
  BY <1>2, <1>4 DEF G!Stage
<1>7. \A a \in Accounts : f[a] # 0 => Told(a, {"ban", "country"}, f[a])'
  BY <1>1, <1>3, StaysTold DEF GateInv, Remembered, HintsTold
<1>8. /\ gpc' \in [G!GWorkers -> G!GPCs]
      /\ DOMAIN gloc' = G!GWorkers /\ \A v \in G!GWorkers : GateShape(gloc'[v])
      /\ \A v \in G!GWorkers : InHandTold(v)'
  BY <1>1, <1>3, <1>5, <1>6, <1>7, WorkerGoesOn DEF G!GPCs
<1>9. Remembered'
  <2>1. ASSUME NEW a \in Accounts PROVE HintsTold(a)'
    BY <1>1, <1>6, <1>7, StaysTold DEF GateInv, Remembered, HintsTold
  <2> QED
    BY <1>1, <2>1, StaysTold DEF GateInv, Remembered, BansTold, LimitsTold
<1>10. GateTypes'
  BY <1>1, <1>3, <1>6, <1>8 DEF GateInv, GateTypes
<1> QED
  BY <1>8, <1>9, <1>10 DEF GateInv

LEMMA FlushKeeps ==
  ASSUME GateInv, G!Flush
  PROVE  GateInv'
<1>1. UNCHANGED <<now, list, ban, cool, country, limit, hint, told>> /\ GKeeper \in G!GWorkers /\ MoreTold
  BY SamePast DEF G!Flush, G!memory, G!history, G!GWorkers, GateInv
<1>2. row' = gloc[GKeeper].staged /\ gpc[GKeeper] = "flush" /\ G!Go(GKeeper, "home", G!NoGLoc)
  BY DEF G!Flush
<1>3. /\ row' \in [Accounts -> G!Times]
      /\ \A a \in Accounts : row'[a] # 0 => Told(a, {"ban", "country"}, row'[a])
  BY <1>1, <1>2 DEF GateInv, InHandTold
<1>4. Remembered'
  <2>1. ASSUME NEW a \in Accounts PROVE HintsTold(a)'
    BY <1>1, <1>3, StaysTold DEF GateInv, Remembered, HintsTold
  <2> QED
    BY <1>1, <2>1, StaysTold DEF GateInv, Remembered, BansTold, LimitsTold
<1>5. MemoryTypes'
  BY <1>1, <1>3 DEF GateInv, GateTypes, MemoryTypes
<1> QED
  BY <1>1, <1>2, <1>4, <1>5, HomeShape, GateStep DEF G!GPCs

LEMMA RestartKeeps ==
  ASSUME GateInv, G!Restart
  PROVE  GateInv'
<1>1. UNCHANGED <<now, list, told>> /\ MoreTold /\ 0 \in G!Times /\ "home" \in G!GPCs
  BY SamePast, GatesAreSound DEF G!Restart, GateInv, G!GatesAssumption, G!Times, G!Forever, G!GPCs
<1>2. PICK l : l = G!NoGLoc
  OBVIOUS
<1>3. /\ GateShape(l) /\ gpc' = [w \in G!GWorkers |-> "home"] /\ gloc' = [w \in G!GWorkers |-> l]
  BY <1>2, HomeShape DEF G!Restart
<1>4. /\ row' \in [Accounts -> G!Times] /\ hint' = row'
      /\ \A a \in Accounts : row'[a] \in {0, row[a]}
  BY <1>1 DEF G!Restart, GateInv, GateTypes
<1>5. /\ ban' = [a \in Accounts |-> 0] /\ cool' = ban' /\ country' = ban'
      /\ limit' = [a \in Accounts |-> [m \in GModels |-> 0]]
  BY DEF G!Restart
<1>6. GateTypes'
  BY <1>1, <1>3, <1>4, <1>5 DEF MoreTold, GateInv, GateTypes
<1>7. \A w \in G!GWorkers : InHandTold(w)'
  BY <1>3 DEF InHandTold
<1>8. ASSUME NEW a \in Accounts PROVE BansTold(a)' /\ LimitsTold(a)'
  BY <1>5 DEF BansTold, LimitsTold
<1>9. ASSUME NEW a \in Accounts PROVE HintsTold(a)'
  BY <1>1, <1>4, StaysTold DEF GateInv, Remembered, HintsTold
<1> QED
  BY <1>6, <1>7, <1>8, <1>9 DEF GateInv, Remembered

LEMMA IdleKeeps ==
  ASSUME GateInv, G!Tick \/ UNCHANGED gateVars
  PROVE  GateInv'
<1>1. UNCHANGED <<list, ban, cool, country, limit, hint, row, told, gpc, gloc>> /\ now' \in 0 .. MaxTime
  BY GatesAreSound DEF G!Tick, G!memory, G!hints, G!history, gateVars, GateInv, GateTypes, G!GatesAssumption
<1>2. MoreTold
  BY <1>1, SamePast DEF GateInv
<1>3. Remembered'
  BY <1>1, <1>2, Unforgotten
<1>4. GateTypes'
  BY <1>1 DEF GateInv, GateTypes
<1>5. ASSUME NEW w \in G!GWorkers PROVE InHandTold(w)'
  BY <1>1 DEF GateInv, InHandTold, Told
<1> QED
  BY <1>3, <1>4, <1>5 DEF GateInv

LEMMA GateKept ==
  ASSUME GateInv, [G!GNext]_gateVars
  PROVE  GateInv'
<1>1. ASSUME NEW w \in Walkers, G!WalkStep(w) PROVE GateInv'
  BY <1>1, QuietStays, AnswersKeep DEF G!WalkStep, Quietly, G!GWorkers
<1>2. ASSUME NEW w \in G!GWorkers, G!WriteStep(w) PROVE GateInv'
  BY <1>2, QuietStays, BanHintKeeps, WritersKeep DEF G!WriteStep, Quietly
<1>3. CASE G!ProbeStep
  BY <1>3, ProbeKeepsTold, ProberQuiet, ProbeAnswersKeep DEF G!ProbeStep
<1>4. CASE G!UnlockMark
  BY <1>4, ProberQuiet
<1>5. CASE G!Lift(GKeeper)
  BY <1>5, QuietStays DEF Quietly, G!GWorkers
<1> QED
  BY <1>1, <1>2, <1>3, <1>4, <1>5, UnlockKeeps, StageKeeps, FlushKeeps, RestartKeeps, IdleKeeps DEF G!GNext

\* What the pool remembers of an account's refusals is what upstream said of that account.
THEOREM RefusalsAreTold == ServicesSpec => []RefusalsHonest
<1> DEFINE vs == <<service, gateVars, relayVars, tableVars>>
<1>1. ServicesInit => GateInv
  BY GatesStart DEF ServicesInit
<1>2. GateInv /\ [ServicesNext]_vs => GateInv'
  <2> SUFFICES ASSUME GateInv, [ServicesNext]_vs PROVE GateInv'
    OBVIOUS
  <2>1. [G!GNext]_gateVars
    BY DEF ServicesNext, GStep, SStep, JStep, RStep, WStep, QStep, CStep, otherVars
  <2> QED
    BY <2>1, GateKept
<1>3. GateInv => RefusalsHonest
  BY HonestGates DEF RefusalsHonest
<1> QED
  BY <1>1, <1>2, <1>3, PTL DEF ServicesSpec

-----------------------------------------------------------------------------
(* The log: where each record is.                                          *)

Count == Len(spilled.all)
Offering == {held[g] : g \in Loggers} \ {W!NoRecord}
OneToOne(s) == \A i, j \in DOMAIN s : s[i] = s[j] => i = j
Apart(P) == \A i, j \in 1 .. 8 : i # j => P[i] \cap P[j] = {}
Whole(P) == UNION {P[i] : i \in 1 .. 8}

RingShape(x) ==
  /\ x = [buf |-> x.buf, next |-> x.next, filled |-> x.filled, tap |-> x.tap]
  /\ DOMAIN x.buf = 0 .. capacity - 1 /\ x.next \in 0 .. capacity - 1
PastShape(p) ==
  /\ p = [all |-> p.all, at |-> p.at, dropped |-> p.dropped, lost |-> p.lost, purged |-> p.purged, late |-> p.late,
          untapped |-> p.untapped, faults |-> p.faults]
  /\ p.faults \in Nat
LogTypes ==
  /\ RingShape(ring) /\ PastShape(spilled)
  /\ Count \in 0 .. MaxRecords /\ spilled.all = [i \in 1 .. Count |-> i]
  /\ held \in [Loggers -> Nat] /\ table \in [1 .. MaxRecords -> Nat]
  /\ ch \in Seq(Nat) /\ spiller.batch \in Seq(Nat) /\ spiller = [pc |-> spiller.pc, batch |-> spiller.batch]
  /\ spiller.pc \in {"run", "drain", "done"} /\ closing \in {"open", "waiting", "untapped", "closed"}
\* The ring holds the newest, at the places the console reads.
RingHolds ==
  /\ ring.filled = IF Count < capacity THEN Count ELSE capacity
  /\ \A i \in 1 .. ring.filled : ring.buf[(ring.next - i + capacity) % capacity] = Count - i + 1
\* Each record is in one place, and there once.
OnePlace ==
  /\ Apart(W!Places) /\ Whole(W!Places) = 1 .. Count
  /\ \A g, h \in Loggers : held[g] = held[h] /\ held[g] # W!NoRecord => g = h
  /\ OneToOne(ch) /\ OneToOne(spiller.batch) /\ \A r \in 1 .. MaxRecords : table[r] <= 1
\* The consumer ends after Close began, and Close goes on without it only when it was late.
LogEnding ==
  /\ spiller.pc # "run" => closing # "open"
  /\ closing \in {"untapped", "closed"} => spiller.pc = "done" \/ spilled.faults > 0
  /\ spiller.pc = "done" => spiller.batch = << >> /\ W!ToSet(ch) \subseteq spilled.late
  /\ spilled.faults = 0 => spilled.lost = {}
LogInv == LogTypes /\ RingHolds /\ OnePlace /\ LogEnding

LEMMA Eight ==
  /\ DOMAIN W!Places = 1 .. 8
  /\ W!Places[1] = Offering /\ W!Places[2] = W!ToSet(ch) /\ W!Places[3] = W!ToSet(spiller.batch) /\ W!Places[4] = W!Stored
  /\ W!Places[5] = spilled.dropped /\ W!Places[6] = spilled.lost /\ W!Places[7] = spilled.purged
  /\ W!Places[8] = spilled.untapped
BY DEF W!Places, Offering

LEMMA EightNext ==
  /\ W!Places'[1] = Offering' /\ W!Places'[2] = W!ToSet(ch') /\ W!Places'[3] = W!ToSet(spiller'.batch)
  /\ W!Places'[4] = W!Stored' /\ W!Places'[5] = spilled'.dropped /\ W!Places'[6] = spilled'.lost
  /\ W!Places'[7] = spilled'.purged /\ W!Places'[8] = spilled'.untapped
BY DEF W!Places, Offering, W!ToSet

LEMMA Back ==
  ASSUME NEW p \in 0 .. capacity - 1, NEW i \in 1 .. capacity
  PROVE  /\ (p - i + capacity) % capacity = IF i <= p THEN p - i ELSE p - i + capacity
         /\ (p + 1) % capacity = IF p + 1 = capacity THEN 0 ELSE p + 1
BY SpillIsSound DEF W!SpillAssumption

\* The place a record is read at stays, when the next moves on and the record is one older.
LEMMA Older ==
  ASSUME NEW p \in 0 .. capacity - 1, NEW n, n = (p + 1) % capacity, NEW k \in 1 .. capacity - 1
  PROVE  /\ (n - (k + 1) + capacity) % capacity = (p - k + capacity) % capacity
         /\ (p - k + capacity) % capacity # p /\ (p - k + capacity) % capacity \in 0 .. capacity - 1
<1> capacity \in Nat \ {0}
  BY SpillIsSound DEF W!SpillAssumption
<1>1. n \in 0 .. capacity - 1 /\ n = IF p + 1 = capacity THEN 0 ELSE p + 1
  BY Back
<1>2. (p - k + capacity) % capacity = IF k <= p THEN p - k ELSE p - k + capacity
  BY Back
<1>3. (n - (k + 1) + capacity) % capacity = IF k + 1 <= n THEN n - (k + 1) ELSE n - (k + 1) + capacity
  <2>1. PICK i \in 1 .. capacity : i = k + 1
    OBVIOUS
  <2> QED
    BY <1>1, <2>1, Back
<1> QED
  BY <1>1, <1>2, <1>3

LEMMA ReadsNewest == LogInv => W!RingReads
<1> SUFFICES ASSUME LogInv, NEW n \in 0 .. capacity + 1
             PROVE  W!Recent(n) = W!Latest(IF n < capacity THEN n ELSE capacity)
  BY DEF W!RingReads
<1> capacity \in Nat \ {0}
  BY SpillIsSound DEF W!SpillAssumption
<1>1. PICK c, s, f, m : /\ c = Count /\ s = spilled.all /\ f = ring.filled /\ m = IF n < capacity THEN n ELSE capacity
  OBVIOUS
<1>2. c \in Nat /\ s = [i \in 1 .. c |-> i] /\ Len(s) = c /\ f = (IF c < capacity THEN c ELSE capacity) /\ m \in Nat
  BY <1>1 DEF LogInv, LogTypes, RingHolds, Count
<1>3. PICK k : k = IF n < f THEN n ELSE f
  OBVIOUS
<1>4. k \in Nat /\ k = (IF c < m THEN c ELSE m) /\ k <= c /\ k <= f
  BY <1>1, <1>2, <1>3
<1>5. PICK lo : lo = IF c < m THEN 1 ELSE c - m + 1
  OBVIOUS
<1>6. lo = c - k + 1 /\ lo \in 1 .. c + 1
  BY <1>2, <1>4, <1>5
<1>7. PICK u : u = SubSeq(s, lo, c)
  OBVIOUS
<1>8. Len(u) = k /\ \A i \in 1 .. k : u[i] = c - k + i
  <2>1. \A i \in lo .. c : s[i] \in Nat
    BY <1>2, <1>6
  <2>2. /\ Len(u) = IF lo <= c THEN c - lo + 1 ELSE 0
        /\ \A i \in 1 .. c - lo + 1 : u[i] = s[lo + i - 1]
    BY <1>2, <1>6, <1>7, <2>1, SubSeqProperties
  <2> QED
    BY <1>2, <1>4, <1>6, <2>2
<1>9. W!Latest(m) = [i \in 1 .. k |-> c - i + 1]
  <2>1. W!Latest(m) = W!Reverse(u)
    BY <1>1, <1>2, <1>5, <1>7 DEF W!Latest, Count
  <2>2. W!Reverse(u) = [i \in 1 .. k |-> u[(k - i) + 1]]
    BY <1>8 DEF W!Reverse
  <2>3. \A i \in 1 .. k : u[(k - i) + 1] = c - i + 1
    <3>1. ASSUME NEW i \in 1 .. k PROVE u[(k - i) + 1] = c - i + 1
      <4>1. PICK j \in 1 .. k : j = k - i + 1
        <5>1. k - i + 1 \in 1 .. k
          BY <1>2, <1>4
        <5> QED
          BY <5>1
      <4>2. u[j] = c - k + j
        BY <1>8
      <4> QED
        BY <1>2, <1>4, <4>1, <4>2
    <3> QED
      BY <3>1
  <2> QED
    BY <2>1, <2>2, <2>3
<1>10. W!Recent(n) = [i \in 1 .. k |-> ring.buf[(ring.next - i + capacity) % capacity]]
  BY <1>1, <1>3 DEF W!Recent
<1>11. \A i \in 1 .. k : ring.buf[(ring.next - i + capacity) % capacity] = c - i + 1
  BY <1>1, <1>2, <1>4 DEF LogInv, RingHolds
<1> QED
  BY <1>1, <1>9, <1>10, <1>11

LEMMA AddsUp == LogInv => W!SpillAddsUp
<1> SUFFICES ASSUME LogInv PROVE W!SpillAddsUp
  OBVIOUS
<1>1. \A i, j \in DOMAIN W!Places : i # j => W!Places[i] \cap W!Places[j] = {}
  BY Eight DEF LogInv, OnePlace, Apart
<1>2. W!ToSet(spilled.all) = UNION {W!Places[i] : i \in DOMAIN W!Places}
  <2>1. W!ToSet(spilled.all) = 1 .. Count
    BY DEF LogInv, LogTypes, W!ToSet
  <2> QED
    BY <2>1, Eight DEF LogInv, OnePlace, Whole
<1>3. W!IsInjective(spiller.batch \o ch)
  <2>1. PICK a, b : a = spiller.batch /\ b = ch
    OBVIOUS
  <2>2. a \in Seq(Nat) /\ b \in Seq(Nat) /\ OneToOne(a) /\ OneToOne(b)
    BY <2>1 DEF LogInv, LogTypes, OnePlace
  <2>3. \A i \in DOMAIN a, j \in DOMAIN b : a[i] # b[j]
    <3>1. W!Places[3] \cap W!Places[2] = {}
      BY DEF LogInv, OnePlace, Apart
    <3> QED
      BY <2>1, <3>1, Eight DEF W!ToSet
  <2>4. OneToOne(a \o b)
    BY <2>2, <2>3 DEF OneToOne
  <2> QED
    BY <2>1, <2>4 DEF OneToOne, W!IsInjective
<1>4. \A r \in W!Stored : table[r] = 1
  BY DEF LogInv, LogTypes, OnePlace, W!Stored
<1> QED
  BY <1>1, <1>2, <1>3, <1>4 DEF W!SpillAddsUp, LogInv, LogEnding

LEMMA LogStarts == W!SpillInit => LogInv
<1> SUFFICES ASSUME W!SpillInit PROVE LogInv
  OBVIOUS
<1> capacity \in Nat \ {0} /\ MaxRecords \in Nat
  BY SpillIsSound DEF W!SpillAssumption
<1>1. /\ spilled.all = << >> /\ ch = << >> /\ spiller.batch = << >> /\ Count = 0
      /\ spilled.dropped = {} /\ spilled.lost = {} /\ spilled.purged = {} /\ spilled.untapped = {} /\ spilled.faults = 0
      /\ ring.filled = 0 /\ held = [g \in Loggers |-> 0] /\ table = [r \in 1 .. MaxRecords |-> 0]
      /\ spiller.pc = "run" /\ closing = "open"
  BY DEF W!SpillInit, Count, W!NoRecord
<1>2. PastShape(spilled) /\ RingShape(ring) /\ spiller = [pc |-> spiller.pc, batch |-> spiller.batch]
  BY DEF W!SpillInit, PastShape, RingShape
<1>3. LogTypes
  BY <1>1, <1>2 DEF LogTypes
<1>4. \A k \in 1 .. 8 : W!Places[k] = {}
  <2>1. Offering = {} /\ W!ToSet(ch) = {} /\ W!ToSet(spiller.batch) = {} /\ W!Stored = {}
    BY <1>1 DEF Offering, W!NoRecord, W!ToSet, W!Stored
  <2> QED
    BY <1>1, <2>1, Eight
<1>5. OnePlace
  BY <1>1, <1>4 DEF OnePlace, Apart, Whole, OneToOne, W!NoRecord
<1> QED
  BY <1>1, <1>3, <1>5 DEF LogInv, RingHolds, LogEnding

\* What moves from one place to another stays in one place.
Moves(P, N, i, j, X) ==
  /\ X \subseteq P[i]
  /\ \A k \in 1 .. 8 : N[k] = IF k = i THEN P[i] \ X ELSE IF k = j THEN P[j] \cup X ELSE P[k]

LEMMA MovedOnce ==
  ASSUME NEW P, NEW N, NEW i \in 1 .. 8, NEW j \in 1 .. 8, i # j, NEW X, Moves(P, N, i, j, X), Apart(P)
  PROVE  Apart(N) /\ Whole(N) = Whole(P)
<1>1. ASSUME NEW k \in 1 .. 8, NEW l \in 1 .. 8, k # l PROVE N[k] \cap N[l] = {}
  BY <1>1 DEF Moves, Apart
<1>2. ASSUME NEW x \in Whole(P) PROVE x \in Whole(N)
  <2>1. PICK k \in 1 .. 8 : x \in P[k]
    BY <1>2 DEF Whole
  <2>2. x \in N[k] \/ x \in N[j]
    BY <2>1 DEF Moves
  <2> QED
    BY <2>2 DEF Whole
<1>3. ASSUME NEW x \in Whole(N) PROVE x \in Whole(P)
  <2>1. PICK k \in 1 .. 8 : x \in N[k]
    BY <1>3 DEF Whole
  <2>2. x \in P[k] \/ x \in P[i]
    BY <2>1 DEF Moves
  <2> QED
    BY <2>2 DEF Whole
<1> QED
  BY <1>1, <1>2, <1>3 DEF Apart

Joins(P, N, j, x) == \A k \in 1 .. 8 : N[k] = IF k = j THEN P[j] \cup {x} ELSE P[k]

LEMMA Joined ==
  ASSUME NEW P, NEW N, NEW j \in 1 .. 8, NEW x, x \notin Whole(P), Apart(P), Joins(P, N, j, x)
  PROVE  Apart(N) /\ Whole(N) = Whole(P) \cup {x}
<1>1. ASSUME NEW k \in 1 .. 8, NEW l \in 1 .. 8, k # l PROVE N[k] \cap N[l] = {}
  BY <1>1 DEF Whole, Apart, Joins
<1>2. \A y : y \in Whole(N) <=> y \in Whole(P) \/ y = x
  BY DEF Whole, Joins
<1> QED
  BY <1>1, <1>2 DEF Apart

\* Sequences.
LEMMA Appended ==
  ASSUME NEW s \in Seq(Nat), NEW x \in Nat
  PROVE  /\ Append(s, x) \in Seq(Nat) /\ W!ToSet(Append(s, x)) = W!ToSet(s) \cup {x}
         /\ OneToOne(s) /\ x \notin W!ToSet(s) => OneToOne(Append(s, x))
<1>1. PICK t : t = Append(s, x)
  OBVIOUS
<1>2. /\ t \in Seq(Nat) /\ Len(t) = Len(s) + 1 /\ t[Len(s) + 1] = x
      /\ \A i \in 1 .. Len(s) : t[i] = s[i]
  BY <1>1, AppendProperties
<1>3. DOMAIN s = 1 .. Len(s) /\ DOMAIN t = 1 .. Len(s) + 1 /\ Len(s) \in Nat
  BY <1>2
<1>4. \A y : y \in W!ToSet(t) <=> y \in W!ToSet(s) \cup {x}
  <2>1. ASSUME NEW y \in W!ToSet(t) PROVE y \in W!ToSet(s) \cup {x}
    BY <1>2, <1>3 DEF W!ToSet
  <2>2. ASSUME NEW y \in W!ToSet(s) \cup {x} PROVE y \in W!ToSet(t)
    BY <1>2, <1>3 DEF W!ToSet
  <2> QED
    BY <2>1, <2>2
<1>5. ASSUME OneToOne(s), x \notin W!ToSet(s) PROVE OneToOne(t)
  BY <1>2, <1>3, <1>5 DEF W!ToSet, OneToOne
<1> QED
  BY <1>1, <1>2, <1>4, <1>5

LEMMA Taken ==
  ASSUME NEW s \in Seq(Nat), s # << >>
  PROVE  /\ Head(s) \in W!ToSet(s) /\ Tail(s) \in Seq(Nat) /\ Head(s) \in Nat
         /\ OneToOne(s) => OneToOne(Tail(s)) /\ W!ToSet(Tail(s)) = W!ToSet(s) \ {Head(s)}
<1>1. PICK h, t, n : h = Head(s) /\ t = Tail(s) /\ n = Len(s)
  OBVIOUS
<1>2. /\ h = s[1] /\ h \in Nat /\ t \in Seq(Nat) /\ n \in Nat \ {0} /\ Len(t) = n - 1
      /\ \A i \in 1 .. n - 1 : t[i] = s[i + 1]
  BY <1>1, HeadTailProperties
<1>3. DOMAIN s = 1 .. n /\ DOMAIN t = 1 .. n - 1
  BY <1>1, <1>2
<1>4. h \in W!ToSet(s)
  BY <1>2, <1>3 DEF W!ToSet
<1>5. ASSUME OneToOne(s) PROVE OneToOne(t)
  <2>1. ASSUME NEW i \in 1 .. n - 1, NEW j \in 1 .. n - 1, t[i] = t[j] PROVE i = j
    <3>1. i + 1 \in 1 .. n /\ j + 1 \in 1 .. n /\ s[i + 1] = s[j + 1]
      BY <1>2, <2>1
    <3>2. i + 1 = j + 1
      BY <1>3, <1>5, <3>1 DEF OneToOne
    <3> QED
      BY <3>2
  <2> QED
    BY <1>3, <2>1 DEF OneToOne
<1>6. ASSUME OneToOne(s) PROVE \A y : y \in W!ToSet(t) <=> y \in W!ToSet(s) \ {h}
  <2>1. ASSUME NEW y \in W!ToSet(t) PROVE y \in W!ToSet(s) \ {h}
    <3>1. PICK i \in 1 .. n - 1 : y = s[i + 1]
      BY <1>2, <1>3 DEF W!ToSet
    <3>2. i + 1 \in 1 .. n /\ 1 \in 1 .. n /\ i + 1 # 1
      BY <1>2
    <3>3. s[i + 1] # s[1]
      BY <1>3, <1>6, <3>2 DEF OneToOne
    <3> QED
      BY <1>2, <1>3, <3>1, <3>2, <3>3 DEF W!ToSet
  <2>2. ASSUME NEW y \in W!ToSet(s) \ {h} PROVE y \in W!ToSet(t)
    <3>1. PICK i \in 1 .. n : y = s[i]
      BY <1>3 DEF W!ToSet
    <3>2. i # 1 /\ i - 1 \in 1 .. n - 1 /\ t[i - 1] = s[i]
      BY <1>2, <2>2, <3>1
    <3> QED
      BY <1>3, <3>1, <3>2 DEF W!ToSet
  <2> QED
    BY <2>1, <2>2
<1> QED
  BY <1>1, <1>2, <1>4, <1>5, <1>6


LEMMA PushKeeps ==
  ASSUME LogInv, NEW g \in Loggers, W!Push(g)
  PROVE  LogInv'
<1> capacity \in Nat \ {0} /\ MaxRecords \in Nat
  BY SpillIsSound DEF W!SpillAssumption
<1>1. PICK r, x, p, s : r = Count + 1 /\ x = ring /\ p = spilled /\ s = spilled.all
  OBVIOUS
<1>2. /\ r \in 1 .. MaxRecords /\ r \notin 1 .. Count /\ Count = r - 1 /\ Count \in Nat
      /\ s = [i \in 1 .. r - 1 |-> i] /\ RingShape(x) /\ PastShape(p) /\ held[g] = 0
  BY <1>1 DEF LogInv, LogTypes, W!Push, W!NoRecord, Count
<1>3. PICK t : t = Append(s, r)
  OBVIOUS
<1>4. t = [i \in 1 .. r |-> i] /\ Len(t) = r
  <2>1. s \in Seq(Nat) /\ Len(s) = r - 1
    BY <1>2
  <2>2. t \in Seq(Nat) /\ Len(t) = r /\ t[r] = r /\ \A i \in 1 .. r - 1 : t[i] = s[i]
    BY <1>2, <1>3, <2>1, AppendProperties
  <2>3. DOMAIN t = 1 .. r /\ \A i \in 1 .. r : t[i] = i
    BY <1>2, <2>2
  <2> QED
    BY <2>2, <2>3
<1>5. /\ UNCHANGED <<ch, spiller, closing, table>>
      /\ held' = IF x.tap THEN [held EXCEPT ![g] = r] ELSE held
  BY <1>1 DEF W!Push, Count
<1>6. PICK n, f, b : /\ n = (x.next + 1) % capacity /\ f = (IF x.filled < capacity THEN x.filled + 1 ELSE x.filled)
                     /\ b = [x.buf EXCEPT ![x.next] = r]
  OBVIOUS
<1>7. ring' = [buf |-> b, next |-> n, filled |-> f, tap |-> x.tap]
  BY <1>1, <1>2, <1>6 DEF W!Push, RingShape, Count
<1>8. /\ PastShape(spilled') /\ spilled'.all = t /\ spilled'.dropped = p.dropped /\ spilled'.lost = p.lost
      /\ spilled'.purged = p.purged /\ spilled'.late = p.late /\ spilled'.faults = p.faults
      /\ spilled'.untapped = IF x.tap THEN p.untapped ELSE p.untapped \cup {r}
  <2>1. PICK at, un : at = Append(p.at, wclock) /\ un = IF x.tap THEN p.untapped ELSE p.untapped \cup {r}
    OBVIOUS
  <2>2. spilled' = [all |-> t, at |-> at, dropped |-> p.dropped, lost |-> p.lost, purged |-> p.purged, late |-> p.late,
                    untapped |-> un, faults |-> p.faults]
    BY <1>1, <1>2, <1>3, <2>1 DEF W!Push, PastShape, Count
  <2> QED
    BY <1>2, <2>1, <2>2 DEF PastShape
<1>9. Count' = r
  BY <1>4, <1>8 DEF Count
<1>10. n \in 0 .. capacity - 1 /\ n = IF x.next + 1 = capacity THEN 0 ELSE x.next + 1
  BY <1>2, <1>6, Back DEF RingShape
<1>11. LogTypes'
  <2>1. RingShape(ring')
    BY <1>2, <1>6, <1>7, <1>10 DEF RingShape
  <2>2. held' \in [Loggers -> Nat]
    BY <1>2, <1>5 DEF LogInv, LogTypes
  <2> QED
    BY <1>2, <1>4, <1>5, <1>8, <1>9, <2>1, <2>2 DEF LogInv, LogTypes
<1>12. RingHolds'
  <2>1. f = (IF r < capacity THEN r ELSE capacity) /\ f \in 1 .. capacity
    <3>1. x.filled = IF r - 1 < capacity THEN r - 1 ELSE capacity
      BY <1>1, <1>2 DEF LogInv, RingHolds
    <3> QED
      BY <1>2, <1>6, <3>1
  <2>2. ASSUME NEW i \in 1 .. f PROVE b[(n - i + capacity) % capacity] = r - i + 1
    <3>1. (n - i + capacity) % capacity = IF i <= n THEN n - i ELSE n - i + capacity
      BY <1>10, <2>1, Back
    <3>2. CASE i = 1
      <4>1. (n - i + capacity) % capacity = x.next
        BY <1>2, <1>10, <3>1, <3>2 DEF RingShape
      <4> QED
        BY <1>2, <1>6, <3>2, <4>1 DEF RingShape
    <3>3. CASE i # 1
      <4>1. PICK k : k = i - 1
        OBVIOUS
      <4>2. k \in 1 .. x.filled /\ k \in 1 .. capacity /\ k # capacity
        <5>1. x.filled = IF r - 1 < capacity THEN r - 1 ELSE capacity
          BY <1>1, <1>2 DEF LogInv, RingHolds
        <5> QED
          BY <1>2, <1>6, <2>1, <3>3, <4>1, <5>1
      <4>4. PICK q : q = (n - i + capacity) % capacity
        OBVIOUS
      <4>5. q = (x.next - k + capacity) % capacity /\ q # x.next /\ q \in 0 .. capacity - 1
        <5>1. k \in 1 .. capacity - 1 /\ i = k + 1 /\ x.next \in 0 .. capacity - 1
          BY <1>2, <4>1, <4>2 DEF RingShape
        <5>2. PICK a \in 0 .. capacity - 1 : a = x.next
          BY <5>1
        <5>3. n = (a + 1) % capacity
          BY <1>6, <5>2
        <5>4. /\ (n - (k + 1) + capacity) % capacity = (a - k + capacity) % capacity
              /\ (a - k + capacity) % capacity # a /\ (a - k + capacity) % capacity \in 0 .. capacity - 1
          BY <5>1, <5>3, Older, ZenonT(60)
        <5> QED
          BY <4>4, <5>1, <5>2, <5>4
      <4>6. b[q] = x.buf[q]
        BY <1>2, <1>6, <4>5 DEF RingShape
      <4>7. x.buf[q] = Count - k + 1
        BY <1>1, <4>2, <4>5 DEF LogInv, RingHolds
      <4> QED
        BY <1>2, <4>1, <4>4, <4>6, <4>7
    <3> QED
      BY <3>2, <3>3
  <2> QED
    BY <1>7, <1>9, <2>1, <2>2 DEF RingHolds
<1>13. OnePlace'
  <2>1. PICK P, N : P = W!Places /\ N = W!Places'
    OBVIOUS
  <2>2. Whole(P) = 1 .. r - 1
    BY <1>2, <2>1 DEF LogInv, OnePlace
  <2>9. Apart(P) /\ r \notin Whole(P)
    BY <1>2, <2>1, <2>2 DEF LogInv, OnePlace
  <2>3. Offering' = IF x.tap THEN Offering \cup {r} ELSE Offering
    <3>1. CASE x.tap
      <4>1. \A h \in Loggers : held'[h] = IF h = g THEN r ELSE held[h]
        BY <1>5, <3>1 DEF LogInv, LogTypes
      <4> QED
        BY <1>2, <3>1, <4>1 DEF Offering, W!NoRecord
    <3> QED
      BY <1>5, <3>1 DEF Offering
  <2>4. /\ N[1] = Offering' /\ N[2] = P[2] /\ N[3] = P[3] /\ N[4] = P[4] /\ N[5] = P[5] /\ N[6] = P[6] /\ N[7] = P[7]
        /\ N[8] = spilled'.untapped /\ P[1] = Offering /\ P[8] = p.untapped
    BY <1>1, <1>5, <1>8, <2>1, Eight, EightNext DEF W!Stored
  <2>5. \A k \in 2 .. 7 : N[k] = P[k]
    BY <2>4
  <2>6. Apart(N) /\ Whole(N) = Whole(P) \cup {r}
    <3>1. CASE x.tap
      <4>1. N[1] = P[1] \cup {r} /\ N[8] = P[8]
        BY <1>8, <2>3, <2>4, <3>1
      <4>2. Joins(P, N, 1, r)
        BY <2>5, <4>1 DEF Joins
      <4> QED
        BY <2>9, <4>2, Joined
    <3>2. CASE ~x.tap
      <4>1. N[8] = P[8] \cup {r} /\ N[1] = P[1]
        BY <1>8, <2>3, <2>4, <3>2
      <4>2. Joins(P, N, 8, r)
        BY <2>5, <4>1 DEF Joins
      <4> QED
        BY <2>9, <4>2, Joined
    <3> QED
      BY <3>1, <3>2
  <2>7. \A a, c \in Loggers : held'[a] = held'[c] /\ held'[a] # 0 => a = c
    <3>1. \A a \in Loggers : held[a] # r
      BY <1>2, <2>1, <2>9, Eight DEF Offering, W!NoRecord, Whole
    <3>2. \A a, c \in Loggers : held[a] = held[c] /\ held[a] # 0 => a = c
      BY DEF LogInv, OnePlace, W!NoRecord
    <3>3. \A a \in Loggers : held'[a] = IF x.tap /\ a = g THEN r ELSE held[a]
      BY <1>5 DEF LogInv, LogTypes
    <3> QED
      BY <3>1, <3>2, <3>3
  <2>8. 1 .. r = (1 .. r - 1) \cup {r}
    BY <1>2
  <2> QED
    BY <1>5, <1>9, <2>1, <2>2, <2>6, <2>7, <2>8 DEF LogInv, OnePlace, W!NoRecord
<1>14. LogEnding'
  BY <1>1, <1>5, <1>8 DEF LogInv, LogEnding
<1> QED
  BY <1>11, <1>12, <1>13, <1>14 DEF LogInv

\* A step that leaves the ring alone: each record is where it was, or moved.
PipeShape ==
  /\ PastShape(spilled) /\ held \in [Loggers -> Nat] /\ table \in [1 .. MaxRecords -> Nat]
  /\ ch \in Seq(Nat) /\ spiller.batch \in Seq(Nat) /\ spiller = [pc |-> spiller.pc, batch |-> spiller.batch]
  /\ spiller.pc \in {"run", "drain", "done"} /\ closing \in {"open", "waiting", "untapped", "closed"}
  /\ \A g, h \in Loggers : held[g] = held[h] /\ held[g] # 0 => g = h
  /\ OneToOne(ch) /\ OneToOne(spiller.batch) /\ \A r \in 1 .. MaxRecords : table[r] <= 1

LEMMA Piped == LogInv => PipeShape
BY DEF LogInv, LogTypes, OnePlace, PipeShape, W!NoRecord

LEMMA Shifted ==
  ASSUME LogInv, UNCHANGED ring, UNCHANGED spilled.all, PipeShape', Apart(W!Places'), Whole(W!Places') = Whole(W!Places),
         LogEnding'
  PROVE  LogInv'
<1>1. Count' = Count /\ spilled'.all = [i \in 1 .. Count |-> i]
  BY DEF LogInv, LogTypes, Count
<1>2. LogTypes'
  BY <1>1 DEF LogInv, LogTypes, PipeShape
<1>3. RingHolds'
  BY <1>1 DEF LogInv, RingHolds
<1>4. OnePlace'
  BY <1>1 DEF LogInv, OnePlace, PipeShape, W!NoRecord
<1> QED
  BY <1>2, <1>3, <1>4 DEF LogInv

LEMMA OfferKeeps ==
  ASSUME LogInv, NEW g \in Loggers, W!Offer(g)
  PROVE  LogInv'
<1>1. PICK r, p, c : r = held[g] /\ p = spilled /\ c = ch
  OBVIOUS
<1>2. r \in Nat /\ r # 0 /\ PastShape(p) /\ c \in Seq(Nat) /\ OneToOne(c)
  BY <1>1 DEF LogInv, LogTypes, OnePlace, W!Offer, W!NoRecord
<1>3. /\ UNCHANGED <<ring, spiller, closing, table>> /\ held' = [held EXCEPT ![g] = 0]
      /\ \/ ch' = Append(c, r) /\ spilled' = [p EXCEPT !.late = IF closing = "open" THEN p.late ELSE p.late \cup {r}]
         \/ ch' = c /\ spilled' = [p EXCEPT !.dropped = p.dropped \cup {r}]
  BY <1>1 DEF W!Offer, W!NoRecord
<1>4. /\ held' \in [Loggers -> Nat] /\ \A h \in Loggers : held'[h] = IF h = g THEN 0 ELSE held[h]
  BY <1>3 DEF LogInv, LogTypes
<1>5. Offering' = Offering \ {r} /\ r \in Offering
  <2>1. \A a, b \in Loggers : held[a] = held[b] /\ held[a] # 0 => a = b
    BY DEF LogInv, OnePlace, W!NoRecord
  <2> QED
    BY <1>1, <1>2, <1>4, <2>1 DEF Offering, W!NoRecord
<1>6. PICK P, N : P = W!Places /\ N = W!Places'
  OBVIOUS
<1>7. /\ P[1] = Offering /\ P[2] = W!ToSet(c) /\ P[5] = p.dropped /\ P[6] = p.lost /\ P[7] = p.purged /\ P[8] = p.untapped
      /\ N[1] = Offering \ {r} /\ N[2] = W!ToSet(ch') /\ N[3] = P[3] /\ N[4] = P[4] /\ N[5] = spilled'.dropped
      /\ N[6] = spilled'.lost /\ N[7] = spilled'.purged /\ N[8] = spilled'.untapped /\ Apart(P)
  BY <1>1, <1>3, <1>5, <1>6, Eight, EightNext DEF W!Stored, LogInv, OnePlace
<1>8. \A a, b \in Loggers : held'[a] = held'[b] /\ held'[a] # 0 => a = b
  BY <1>4 DEF LogInv, OnePlace, W!NoRecord
<1>9. CASE ch' = Append(c, r) /\ spilled' = [p EXCEPT !.late = IF closing = "open" THEN p.late ELSE p.late \cup {r}]
  <2>1. r \notin W!ToSet(c)
    BY <1>5, <1>7 DEF Apart
  <2>2. ch' \in Seq(Nat) /\ OneToOne(ch') /\ W!ToSet(ch') = W!ToSet(c) \cup {r}
    BY <1>2, <1>9, <2>1, Appended
  <2>3. /\ PastShape(spilled') /\ spilled'.all = p.all /\ spilled'.dropped = p.dropped /\ spilled'.lost = p.lost
        /\ spilled'.purged = p.purged /\ spilled'.untapped = p.untapped /\ spilled'.faults = p.faults
        /\ spilled'.late = IF closing = "open" THEN p.late ELSE p.late \cup {r}
    BY <1>2, <1>9 DEF PastShape
  <2>4. Moves(P, N, 1, 2, {r})
    BY <1>5, <1>7, <2>2, <2>3 DEF Moves
  <2>5. Apart(N) /\ Whole(N) = Whole(P)
    BY <1>7, <2>4, MovedOnce
  <2>6. LogEnding'
    BY <1>1, <1>3, <2>2, <2>3 DEF LogInv, LogTypes, LogEnding
  <2> QED
    <3>1. PipeShape' /\ UNCHANGED <<ring, spilled.all>>
      BY <1>1, <1>3, <1>4, <1>8, <2>2, <2>3, Piped DEF PipeShape
    <3> QED
      BY <1>6, <2>5, <2>6, <3>1, Shifted
<1>10. CASE ch' = c /\ spilled' = [p EXCEPT !.dropped = p.dropped \cup {r}]
  <2>3. /\ PastShape(spilled') /\ spilled'.all = p.all /\ spilled'.dropped = p.dropped \cup {r} /\ spilled'.lost = p.lost
        /\ spilled'.purged = p.purged /\ spilled'.untapped = p.untapped /\ spilled'.faults = p.faults
        /\ spilled'.late = p.late
    BY <1>2, <1>10 DEF PastShape
  <2>4. Moves(P, N, 1, 5, {r})
    BY <1>5, <1>7, <1>10, <2>3 DEF Moves
  <2>5. Apart(N) /\ Whole(N) = Whole(P)
    BY <1>7, <2>4, MovedOnce
  <2>6. LogEnding'
    BY <1>1, <1>3, <1>10, <2>3 DEF LogInv, LogEnding
  <2> QED
    <3>1. PipeShape' /\ UNCHANGED <<ring, spilled.all>>
      BY <1>1, <1>2, <1>3, <1>4, <1>8, <1>10, <2>3, Piped DEF PipeShape
    <3> QED
      BY <1>6, <2>5, <2>6, <3>1, Shifted
<1> QED
  BY <1>3, <1>9, <1>10

\* What a flush does with a batch: all of it is stored, or all of it is lost.
Written(b, t, p) ==
  /\ PastShape(spilled') /\ spilled'.all = p.all /\ spilled'.dropped = p.dropped /\ spilled'.purged = p.purged
  /\ spilled'.late = p.late /\ spilled'.untapped = p.untapped /\ spilled'.faults >= p.faults
  /\ table' \in [1 .. MaxRecords -> Nat] /\ \A r \in 1 .. MaxRecords : table'[r] <= 1
  /\ \/ W!Stored' = {r \in 1 .. MaxRecords : t[r] > 0} \cup W!ToSet(b) /\ spilled'.lost = p.lost
     \/ /\ W!Stored' = {r \in 1 .. MaxRecords : t[r] > 0} /\ spilled'.lost = p.lost \cup W!ToSet(b)
        /\ closing = "closed" \/ spilled'.faults > 0 \/ W!ToSet(b) = {}

LEMMA Flushed ==
  ASSUME NEW b \in Seq(Nat), NEW ok \in BOOLEAN, NEW t \in [1 .. MaxRecords -> Nat], NEW p, PastShape(p),
         W!Flush(b, ok, t, p), W!ToSet(b) \subseteq 1 .. MaxRecords,
         \A r \in 1 .. MaxRecords : t[r] <= 1, \A r \in W!ToSet(b) : t[r] = 0
  PROVE  Written(b, t, p)
<1>1. CASE ok
  <2>1. table' = [r \in 1 .. MaxRecords |-> IF r \in W!ToSet(b) THEN t[r] + 1 ELSE t[r]] /\ spilled' = p
    BY <1>1 DEF W!Flush
  <2>2. table' \in [1 .. MaxRecords -> Nat] /\ \A r \in 1 .. MaxRecords : table'[r] <= 1
    BY <2>1
  <2>3. W!Stored' = {r \in 1 .. MaxRecords : t[r] > 0} \cup W!ToSet(b)
    BY <2>1 DEF W!Stored
  <2> QED
    BY <2>1, <2>2, <2>3 DEF Written, PastShape
<1>2. CASE ~ok
  <2>1. table' = t
    BY <1>2 DEF W!Flush
  <2>2. W!Stored' = {r \in 1 .. MaxRecords : t[r] > 0}
    BY <2>1 DEF W!Stored
  <2>3. CASE b = << >>
    <3>1. spilled' = p /\ W!ToSet(b) = {}
      BY <1>2, <2>3 DEF W!Flush, W!ToSet
    <3> QED
      BY <2>1, <2>2, <3>1 DEF Written, PastShape
  <2>4. CASE b # << >>
    <3>1. PICK l, f : l = p.lost \cup W!ToSet(b) /\ f = IF closing = "closed" THEN p.faults ELSE p.faults + 1
      OBVIOUS
    <3>2. spilled' = [p EXCEPT !.lost = l, !.faults = f]
      BY <1>2, <2>4, <3>1 DEF W!Flush
    <3>3. spilled' = [all |-> p.all, at |-> p.at, dropped |-> p.dropped, lost |-> l, purged |-> p.purged, late |-> p.late,
                      untapped |-> p.untapped, faults |-> f]
      BY <3>2 DEF PastShape
    <3>4. f \in Nat /\ f >= p.faults /\ (closing = "closed" \/ f > 0)
      BY <3>1 DEF PastShape
    <3> QED
      BY <2>1, <2>2, <3>1, <3>3, <3>4 DEF Written, PastShape
  <2> QED
    BY <2>3, <2>4
<1> QED
  BY <1>1, <1>2

\* The batch is empty after, and what was in it is stored or lost.
Emptied(P, N) ==
  /\ N[3] = {} /\ N[1] = P[1] /\ N[2] = P[2] /\ N[5] = P[5] /\ N[7] = P[7] /\ N[8] = P[8]
  /\ \/ N[4] = P[4] \cup P[3] /\ N[6] = P[6]
     \/ N[4] = P[4] /\ N[6] = P[6] \cup P[3]

LEMMA FlushKeepsPlaces ==
  ASSUME NEW P, NEW N, Apart(P), Emptied(P, N)
  PROVE  Apart(N) /\ Whole(N) = Whole(P)
<1>1. Moves(P, N, 3, 4, P[3]) \/ Moves(P, N, 3, 6, P[3])
  BY DEF Moves, Emptied
<1> QED
  BY <1>1, MovedOnce

\* What the batch holds is stored nowhere yet.
LEMMA BatchIsNew ==
  ASSUME LogInv
  PROVE  /\ W!ToSet(spiller.batch) \subseteq 1 .. MaxRecords /\ W!ToSet(ch) \subseteq 1 .. MaxRecords
         /\ \A r \in W!ToSet(spiller.batch) \cup W!ToSet(ch) : table[r] = 0
         /\ W!ToSet(spiller.batch) \cap W!ToSet(ch) = {}
<1>1. \A i \in 1 .. 8 : W!Places[i] \subseteq 1 .. MaxRecords
  <2>1. Whole(W!Places) \subseteq 1 .. MaxRecords
    <3>1. Whole(W!Places) = 1 .. Count /\ Count \in 0 .. MaxRecords /\ MaxRecords \in Nat
      BY SpillIsSound DEF LogInv, LogTypes, OnePlace, W!SpillAssumption
    <3> QED
      BY <3>1
  <2> QED
    BY <2>1 DEF Whole
<1>2. W!Places[3] \cap W!Places[4] = {} /\ W!Places[2] \cap W!Places[4] = {} /\ W!Places[3] \cap W!Places[2] = {}
  BY DEF LogInv, OnePlace, Apart
<1>3. W!Stored = {r \in 1 .. MaxRecords : table[r] # 0}
  BY DEF LogInv, LogTypes, W!Stored
<1> QED
  BY <1>1, <1>2, <1>3, Eight

LEMMA NothingTwice == OneToOne(<< >>) /\ W!ToSet(<< >>) = {} /\ << >> \in Seq(Nat)
BY DEF OneToOne, W!ToSet

LEMMA EndingFlushed ==
  ASSUME LogInv, NEW b, NEW t, Written(b, t, spilled), UNCHANGED closing, spiller.pc \in {"run", "drain"},
         \/ spiller'.pc = spiller.pc
         \/ spiller.pc = "drain" /\ spiller'.pc = "done" /\ spiller'.batch = << >> /\ ch' = << >>
  PROVE  LogEnding'
<1>1. LogEnding /\ spilled.faults \in Nat /\ spilled'.faults \in Nat /\ spilled'.faults >= spilled.faults
  BY DEF LogInv, LogTypes, Written, PastShape
<1>2. spiller'.pc # "run" => closing' # "open"
  BY <1>1 DEF LogEnding
<1>3. closing' \in {"untapped", "closed"} => spilled.faults > 0
  BY <1>1 DEF LogEnding
<1>4. spiller'.pc = "done" => spiller'.batch = << >> /\ W!ToSet(ch') \subseteq spilled'.late
  BY NothingTwice
<1>5. spilled'.faults = 0 => spilled'.lost = {}
  BY <1>1, <1>3 DEF LogEnding, Written
<1> QED
  BY <1>1, <1>2, <1>3, <1>4, <1>5 DEF LogEnding

\* The spiller flushes what it has.
LEMMA BatchGoes ==
  ASSUME LogInv, NEW ok \in BOOLEAN, W!Flush(spiller.batch, ok, table, spilled), spiller.pc \in {"run", "drain"},
         UNCHANGED <<ring, held, ch, closing>>, spiller' = [pc |-> spiller'.pc, batch |-> << >>],
         \/ spiller'.pc = spiller.pc
         \/ spiller.pc = "drain" /\ spiller'.pc = "done" /\ ch = << >>
  PROVE  LogInv'
<1>1. PICK b, t, p : b = spiller.batch /\ t = table /\ p = spilled
  OBVIOUS
<1>2. /\ b \in Seq(Nat) /\ t \in [1 .. MaxRecords -> Nat] /\ PastShape(p) /\ \A r \in 1 .. MaxRecords : t[r] <= 1
      /\ W!ToSet(b) \subseteq 1 .. MaxRecords /\ \A r \in W!ToSet(b) : t[r] = 0
  BY <1>1, BatchIsNew DEF LogInv, LogTypes, OnePlace
<1>3. Written(b, t, p)
  BY <1>1, <1>2, Flushed
<1>4. PICK P, N : P = W!Places /\ N = W!Places'
  OBVIOUS
<1>5. /\ Apart(P) /\ W!ToSet(b) = P[3] /\ N[3] = {} /\ \A k \in {1, 2, 5, 7, 8} : N[k] = P[k]
      /\ N[4] = W!Stored' /\ N[6] = spilled'.lost /\ P[4] = {r \in 1 .. MaxRecords : t[r] > 0} /\ P[6] = p.lost
  <2>1. Offering' = Offering /\ W!ToSet(ch') = W!ToSet(ch) /\ W!ToSet(spiller'.batch) = {}
    BY NothingTwice DEF Offering
  <2>2. W!Stored = {r \in 1 .. MaxRecords : t[r] > 0}
    BY <1>1, <1>2 DEF W!Stored
  <2> QED
    BY <1>1, <1>3, <1>4, <2>1, <2>2, Eight, EightNext DEF Written, LogInv, OnePlace
<1>6. Apart(N) /\ Whole(N) = Whole(P)
  <2>1. Emptied(P, N)
    BY <1>3, <1>5 DEF Written, Emptied
  <2> QED
    BY <1>5, <2>1, FlushKeepsPlaces
<1>7. LogEnding'
  BY <1>1, <1>3, EndingFlushed
<1>8. PipeShape' /\ UNCHANGED spilled.all
  <2>1. PipeShape /\ spiller'.batch = << >> /\ spiller'.pc \in {"run", "drain", "done"}
    BY Piped
  <2>2. spiller' = [pc |-> spiller'.pc, batch |-> spiller'.batch]
    BY <2>1
  <2> QED
    BY <1>1, <1>3, <2>1, <2>2, NothingTwice DEF PipeShape, Written
<1> QED
  BY <1>4, <1>6, <1>7, <1>8, Shifted

LEMMA TakeKeeps ==
  ASSUME LogInv, NEW ok \in BOOLEAN, W!Take(ok)
  PROVE  LogInv'
<1>1. PICK c, h, b, t, p, f : c = ch /\ h = Head(ch) /\ b = spiller.batch /\ t = table /\ p = spilled /\ f = Append(b, h)
  OBVIOUS
<1>2. /\ b \in Seq(Nat) /\ c \in Seq(Nat) /\ c # << >> /\ t \in [1 .. MaxRecords -> Nat] /\ PastShape(p)
      /\ \A r \in 1 .. MaxRecords : t[r] <= 1
      /\ W!ToSet(b) \subseteq 1 .. MaxRecords /\ W!ToSet(c) \subseteq 1 .. MaxRecords
      /\ \A r \in W!ToSet(b) \cup W!ToSet(c) : t[r] = 0
      /\ W!ToSet(b) \cap W!ToSet(c) = {} /\ OneToOne(b) /\ OneToOne(c)
  BY <1>1, BatchIsNew DEF LogInv, LogTypes, OnePlace, W!Take
<1>3. /\ h \in W!ToSet(c) /\ h \in Nat /\ Tail(c) \in Seq(Nat) /\ OneToOne(Tail(c)) /\ W!ToSet(Tail(c)) = W!ToSet(c) \ {h}
  BY <1>1, <1>2, Taken
<1>4. f \in Seq(Nat) /\ W!ToSet(f) = W!ToSet(b) \cup {h} /\ OneToOne(f)
  BY <1>1, <1>2, <1>3, Appended
<1>5. /\ UNCHANGED <<ring, held, closing>> /\ ch' = Tail(c) /\ spiller.pc \in {"run", "drain"}
      /\ \/ W!Flush(f, ok, t, p) /\ spiller' = [pc |-> spiller.pc, batch |-> << >>]
         \/ UNCHANGED <<table, spilled>> /\ spiller' = [pc |-> spiller.pc, batch |-> f]
  BY <1>1 DEF W!Take, LogInv, LogTypes
<1>6. PICK P, N : P = W!Places /\ N = W!Places'
  OBVIOUS
<1>7. /\ Apart(P) /\ P[2] = W!ToSet(c) /\ P[3] = W!ToSet(b) /\ P[4] = {r \in 1 .. MaxRecords : t[r] > 0} /\ P[5] = p.dropped
      /\ P[6] = p.lost /\ P[7] = p.purged /\ P[8] = p.untapped
      /\ N[1] = P[1] /\ N[2] = P[2] \ {h} /\ N[3] = W!ToSet(spiller'.batch) /\ N[4] = W!Stored' /\ N[5] = spilled'.dropped
      /\ N[6] = spilled'.lost /\ N[7] = spilled'.purged /\ N[8] = spilled'.untapped
  <2>1. W!Stored = {r \in 1 .. MaxRecords : t[r] > 0} /\ Offering' = Offering
    BY <1>1, <1>2, <1>5 DEF W!Stored, Offering
  <2> QED
    BY <1>1, <1>3, <1>5, <1>6, <2>1, Eight, EightNext DEF LogInv, OnePlace
<1>8. CASE UNCHANGED <<table, spilled>> /\ spiller' = [pc |-> spiller.pc, batch |-> f]
  <2>1. W!Stored' = W!Stored
    BY <1>8 DEF W!Stored
  <2>2. Moves(P, N, 2, 3, {h})
    BY <1>1, <1>3, <1>4, <1>6, <1>7, <1>8, <2>1, Eight DEF Moves
  <2>3. Apart(N) /\ Whole(N) = Whole(P)
    BY <1>7, <2>2, MovedOnce
  <2>4. LogEnding'
    BY <1>5, <1>8 DEF LogInv, LogEnding
  <2> QED
    <3>1. PipeShape' /\ UNCHANGED spilled.all
      BY <1>1, <1>3, <1>4, <1>5, <1>8, Piped DEF PipeShape
    <3> QED
      BY <1>5, <1>6, <2>3, <2>4, <3>1, Shifted
<1>9. CASE W!Flush(f, ok, t, p) /\ spiller' = [pc |-> spiller.pc, batch |-> << >>]
  <2>1. W!ToSet(f) \subseteq 1 .. MaxRecords /\ \A r \in W!ToSet(f) : t[r] = 0
    BY <1>2, <1>3, <1>4
  <2>2. Written(f, t, p)
    BY <1>2, <1>4, <1>9, <2>1, Flushed
  <2>3. PICK M : M = [k \in 1 .. 8 |-> IF k = 2 THEN P[2] \ {h} ELSE IF k = 3 THEN P[3] \cup {h} ELSE P[k]]
    OBVIOUS
  <2>4. Moves(P, M, 2, 3, {h})
    BY <1>3, <1>7, <2>3 DEF Moves
  <2>5. Apart(M) /\ Whole(M) = Whole(P)
    BY <1>7, <2>4, MovedOnce
  <2>6. /\ M[1] = P[1] /\ M[2] = P[2] \ {h} /\ M[3] = W!ToSet(f) /\ M[4] = P[4] /\ M[5] = P[5] /\ M[6] = P[6] /\ M[7] = P[7]
        /\ M[8] = P[8]
    BY <1>4, <1>7, <2>3
  <2>7. W!ToSet(spiller'.batch) = {}
    BY <1>9, NothingTwice
  <2>8. Apart(N) /\ Whole(N) = Whole(M)
    <3>1. Emptied(M, N)
      BY <1>7, <2>2, <2>6, <2>7 DEF Written, Emptied
    <3> QED
      BY <2>5, <3>1, FlushKeepsPlaces
  <2>9. LogEnding'
    <3>1. spiller'.pc = spiller.pc
      BY <1>9
    <3> QED
      BY <1>1, <1>5, <2>2, <3>1, EndingFlushed
  <2>10. PipeShape' /\ UNCHANGED spilled.all
    <3>1. PipeShape
      BY Piped
    <3> QED
      BY <1>1, <1>3, <1>5, <1>9, <2>2, <3>1, NothingTwice DEF PipeShape, Written
  <2> QED
    BY <1>5, <1>6, <2>5, <2>8, <2>9, <2>10, Shifted
<1> QED
  BY <1>5, <1>8, <1>9

LEMMA TickKeeps ==
  ASSUME LogInv, NEW ok \in BOOLEAN, W!Tick(ok) \/ W!DrainEnds(ok)
  PROVE  LogInv'
<1>1. spiller = [pc |-> spiller.pc, batch |-> spiller.batch]
  BY DEF LogInv, LogTypes
<1>2. /\ W!Flush(spiller.batch, ok, table, spilled) /\ UNCHANGED <<ring, held, ch, closing>>
      /\ \/ spiller.pc = "run" /\ spiller' = [spiller EXCEPT !.batch = << >>]
         \/ spiller.pc = "drain" /\ ch = << >> /\ spiller' = [pc |-> "done", batch |-> << >>]
  BY DEF W!Tick, W!DrainEnds
<1>3. CASE spiller.pc = "run" /\ spiller' = [spiller EXCEPT !.batch = << >>]
  <2>1. spiller' = [pc |-> spiller'.pc, batch |-> << >>] /\ spiller'.pc = spiller.pc
    BY <1>1, <1>3
  <2> QED
    BY <1>2, <1>3, <2>1, BatchGoes
<1>4. CASE spiller.pc = "drain" /\ ch = << >> /\ spiller' = [pc |-> "done", batch |-> << >>]
  <2>1. spiller' = [pc |-> spiller'.pc, batch |-> << >>] /\ spiller'.pc = "done"
    BY <1>4
  <2> QED
    BY <1>2, <1>4, <2>1, BatchGoes
<1> QED
  BY <1>2, <1>3, <1>4

LEMMA PurgeKeeps ==
  ASSUME LogInv, NEW ok \in BOOLEAN, W!Purge(ok)
  PROVE  LogInv'
<1>1. PICK b, t, p, old : b = spiller.batch /\ t = table /\ p = spilled /\ old = W!Old
  OBVIOUS
<1>2. /\ b \in Seq(Nat) /\ t \in [1 .. MaxRecords -> Nat] /\ PastShape(p) /\ \A r \in 1 .. MaxRecords : t[r] <= 1
      /\ W!ToSet(b) \subseteq 1 .. MaxRecords /\ \A r \in W!ToSet(b) : t[r] = 0
  BY <1>1, BatchIsNew DEF LogInv, LogTypes, OnePlace
<1>3. W!Stored = {r \in 1 .. MaxRecords : t[r] > 0} /\ old \subseteq W!Stored
  BY <1>1, <1>2 DEF W!Stored, W!Old
<1>4. PICK u, q : u = [r \in 1 .. MaxRecords |-> IF r \in old THEN 0 ELSE t[r]] /\ q = p.purged \cup old
  OBVIOUS
<1>5. /\ u \in [1 .. MaxRecords -> Nat] /\ \A r \in 1 .. MaxRecords : u[r] <= 1
      /\ \A r \in W!ToSet(b) : u[r] = 0
      /\ {r \in 1 .. MaxRecords : u[r] > 0} = W!Stored \ old
  BY <1>2, <1>3, <1>4
<1>6. PICK o : o = [p EXCEPT !.purged = q]
  OBVIOUS
<1>7. /\ PastShape(o) /\ o.all = p.all /\ o.dropped = p.dropped /\ o.purged = q /\ o.late = p.late /\ o.untapped = p.untapped
      /\ o.lost = p.lost /\ o.faults = p.faults
  BY <1>2, <1>6 DEF PastShape
<1>8. /\ W!Flush(b, ok, u, o) /\ UNCHANGED <<ring, held, ch, closing>> /\ spiller.pc = "run"
      /\ spiller' = [spiller EXCEPT !.batch = << >>]
  <2>1. DOMAIN table = 1 .. MaxRecords
    BY <1>1, <1>2
  <2> QED
    BY <1>1, <1>4, <1>6, <2>1 DEF W!Purge
<1>9. spiller' = [pc |-> spiller.pc, batch |-> << >>]
  BY <1>8 DEF LogInv, LogTypes
<1>10. Written(b, u, o)
  BY <1>2, <1>5, <1>7, <1>8, Flushed
<1>11. PICK P, N : P = W!Places /\ N = W!Places'
  OBVIOUS
<1>12. /\ Apart(P) /\ P[3] = W!ToSet(b) /\ P[4] = W!Stored /\ P[5] = p.dropped /\ P[6] = p.lost /\ P[7] = p.purged
       /\ P[8] = p.untapped /\ N[1] = P[1] /\ N[2] = P[2] /\ N[3] = {} /\ N[4] = W!Stored' /\ N[5] = spilled'.dropped
       /\ N[6] = spilled'.lost /\ N[7] = spilled'.purged /\ N[8] = spilled'.untapped
  <2>1. Offering' = Offering /\ W!ToSet(ch') = W!ToSet(ch) /\ W!ToSet(spiller'.batch) = {}
    BY <1>8, <1>9, NothingTwice DEF Offering
  <2> QED
    BY <1>1, <1>11, <2>1, Eight, EightNext DEF LogInv, OnePlace
<1>13. PICK M : M = [k \in 1 .. 8 |-> IF k = 4 THEN P[4] \ old ELSE IF k = 7 THEN P[7] \cup old ELSE P[k]]
  OBVIOUS
<1>14. Moves(P, M, 4, 7, old)
  BY <1>3, <1>12, <1>13 DEF Moves
<1>15. Apart(M) /\ Whole(M) = Whole(P)
  BY <1>12, <1>14, MovedOnce
<1>16. /\ M[1] = P[1] /\ M[2] = P[2] /\ M[3] = P[3] /\ M[4] = P[4] \ old /\ M[5] = P[5] /\ M[6] = P[6]
       /\ M[7] = P[7] \cup old /\ M[8] = P[8]
  BY <1>13
<1>17. Emptied(M, N)
  <2>1. N[3] = {} /\ N[1] = M[1] /\ N[2] = M[2]
    BY <1>12, <1>16
  <2>2. N[5] = M[5] /\ N[7] = M[7] /\ N[8] = M[8]
    BY <1>4, <1>7, <1>10, <1>12, <1>16 DEF Written
  <2>3. \/ W!Stored' = (W!Stored \ old) \cup W!ToSet(b) /\ spilled'.lost = p.lost
        \/ W!Stored' = W!Stored \ old /\ spilled'.lost = p.lost \cup W!ToSet(b)
    BY <1>5, <1>7, <1>10 DEF Written
  <2>4. M[3] = W!ToSet(b) /\ M[4] = W!Stored \ old /\ M[6] = p.lost
    BY <1>12, <1>16
  <2> QED
    BY <1>12, <2>1, <2>2, <2>3, <2>4 DEF Emptied
<1>18. Apart(N) /\ Whole(N) = Whole(P)
  BY <1>15, <1>17, FlushKeepsPlaces
<1>19. LogEnding'
  <2>1. LogEnding /\ p.faults \in Nat /\ spilled'.faults \in Nat /\ spilled'.faults >= p.faults /\ spiller'.pc = "run"
    BY <1>2, <1>7, <1>8, <1>9, <1>10 DEF LogInv, Written, PastShape
  <2>2. closing' \in {"untapped", "closed"} => p.faults > 0
    BY <1>1, <1>8, <2>1 DEF LogEnding
  <2>3. spilled'.faults = 0 => spilled'.lost = {}
    BY <1>1, <1>7, <1>8, <1>10, <2>1, <2>2 DEF LogEnding, Written
  <2> QED
    BY <2>1, <2>2, <2>3 DEF LogEnding
<1>20. PipeShape' /\ UNCHANGED spilled.all
  <2>1. PipeShape
    BY Piped
  <2> QED
    BY <1>1, <1>7, <1>8, <1>9, <1>10, <2>1, NothingTwice DEF PipeShape, Written
<1> QED
  BY <1>8, <1>11, <1>18, <1>19, <1>20, Shifted

\* The other steps move no record.
LEMMA NoneMoves ==
  ASSUME LogInv, UNCHANGED <<held, ch, table, spiller.batch>>,
         UNCHANGED <<ring.buf, ring.next, ring.filled>>, RingShape(ring'), PastShape(spilled'),
         UNCHANGED <<spilled.all, spilled.dropped, spilled.lost, spilled.purged, spilled.untapped, spilled.late>>,
         spiller' = [pc |-> spiller'.pc, batch |-> spiller'.batch], spiller'.pc \in {"run", "drain", "done"},
         closing' \in {"open", "waiting", "untapped", "closed"}, LogEnding'
  PROVE  LogInv'
<1>1. Count' = Count /\ W!Stored' = W!Stored /\ Offering' = Offering
  BY DEF Count, W!Stored, Offering
<1>2. PICK P, N : P = W!Places /\ N = W!Places'
  OBVIOUS
<1>3. /\ N[1] = P[1] /\ N[2] = P[2] /\ N[3] = P[3] /\ N[4] = P[4] /\ N[5] = P[5] /\ N[6] = P[6] /\ N[7] = P[7] /\ N[8] = P[8]
  BY <1>1, <1>2, Eight, EightNext
<1>4. Apart(N) /\ Whole(N) = Whole(P)
  BY <1>2, <1>3 DEF LogInv, OnePlace, Apart, Whole
<1>5. LogTypes'
  BY <1>1 DEF LogInv, LogTypes
<1>6. RingHolds'
  BY <1>1 DEF LogInv, RingHolds
<1>7. OnePlace'
  BY <1>1, <1>2, <1>4 DEF LogInv, OnePlace
<1> QED
  BY <1>5, <1>6, <1>7 DEF LogInv

LEMMA OthersKeep ==
  ASSUME LogInv,
         \/ \E done \in BOOLEAN : W!CloseWaited(done)
         \/ W!DrainBegins \/ W!CloseBegins \/ W!CloseStore \/ W!Later \/ UNCHANGED spillVars
  PROVE  LogInv'
<1> RingShape(ring) /\ PastShape(spilled) /\ spiller = [pc |-> spiller.pc, batch |-> spiller.batch] /\ LogEnding
    /\ spiller.pc \in {"run", "drain", "done"} /\ closing \in {"open", "waiting", "untapped", "closed"}
  BY DEF LogInv, LogTypes
<1>1. CASE \E done \in BOOLEAN : W!CloseWaited(done)
  <2>1. PICK done \in BOOLEAN : W!CloseWaited(done)
    BY <1>1
  <2>2. /\ UNCHANGED <<held, ch, spiller, table>> /\ closing = "waiting" /\ closing' = "untapped" /\ (done <=> spiller.pc = "done")
        /\ ring' = [ring EXCEPT !.tap = FALSE]
        /\ spilled' = IF done THEN spilled ELSE [spilled EXCEPT !.faults = spilled.faults + 1]
    BY <2>1 DEF W!CloseWaited
  <2>3. UNCHANGED <<ring.buf, ring.next, ring.filled>> /\ RingShape(ring')
    BY <2>2 DEF RingShape
  <2>4. /\ PastShape(spilled')
        /\ UNCHANGED <<spilled.all, spilled.dropped, spilled.lost, spilled.purged, spilled.untapped, spilled.late>>
        /\ spilled'.faults \in Nat /\ spilled'.faults >= spilled.faults /\ (~done => spilled'.faults > 0)
    <3>1. CASE done
      BY <2>2, <3>1 DEF PastShape
    <3>2. CASE ~done
      BY <2>2, <3>2 DEF PastShape
    <3> QED
      BY <3>1, <3>2
  <2>5. LogEnding'
    <3>1. spiller'.pc # "run" => closing' # "open"
      BY <2>2
    <3>2. spiller'.pc = "done" \/ spilled'.faults > 0
      BY <2>2, <2>4
    <3>3. spiller'.pc = "done" => spiller'.batch = << >> /\ W!ToSet(ch') \subseteq spilled'.late
      BY <2>2, <2>4 DEF LogEnding
    <3>4. spilled'.faults = 0 => spilled'.lost = {}
      BY <2>2, <2>4 DEF LogEnding, PastShape
    <3> QED
      BY <3>1, <3>2, <3>3, <3>4 DEF LogEnding
  <2> QED
    BY <2>2, <2>3, <2>4, <2>5, NoneMoves
<1>2. CASE W!DrainBegins
  <2>1. /\ UNCHANGED <<ring, held, ch, closing, table, spilled>> /\ closing # "open" /\ spiller.pc = "run"
        /\ spiller' = [pc |-> "drain", batch |-> spiller.batch]
    BY <1>2 DEF W!DrainBegins
  <2>2. LogEnding'
    BY <2>1 DEF LogEnding
  <2> QED
    BY <2>1, <2>2, NoneMoves
<1>3. CASE W!CloseBegins \/ W!CloseStore \/ W!Later \/ UNCHANGED spillVars
  <2>1. /\ UNCHANGED <<ring, held, ch, spiller, table, spilled>>
        /\ \/ closing = "open" /\ closing' = "waiting"
           \/ closing = "untapped" /\ closing' = "closed"
           \/ closing' = closing
    BY <1>3 DEF W!CloseBegins, W!CloseStore, W!Later, spillVars
  <2>2. LogEnding'
    BY <2>1 DEF LogEnding
  <2> QED
    BY <2>1, <2>2, NoneMoves
<1> QED
  BY <1>1, <1>2, <1>3

LEMMA LogKept ==
  ASSUME LogInv, [W!SpillNext]_spillVars
  PROVE  LogInv'
<1>1. ASSUME NEW g \in Loggers, W!Push(g) \/ W!Offer(g) PROVE LogInv'
  BY <1>1, PushKeeps, OfferKeeps
<1>2. ASSUME NEW ok \in BOOLEAN, W!Take(ok) \/ W!Tick(ok) \/ W!Purge(ok) \/ W!DrainEnds(ok) PROVE LogInv'
  BY <1>2, TakeKeeps, TickKeeps, PurgeKeeps
<1> QED
  BY <1>1, <1>2, OthersKeep DEF W!SpillNext

\* Every log record is in one place, the console reads the newest in their order, and a consumer that
\* ended left nothing behind.
THEOREM LogsAreKept == ServicesSpec => []LogsKept
<1> DEFINE vs == <<service, gateVars, relayVars, tableVars>>
<1>1. ServicesInit => LogInv
  BY LogStarts DEF ServicesInit
<1>2. LogInv /\ [ServicesNext]_vs => LogInv'
  <2> SUFFICES ASSUME LogInv, [ServicesNext]_vs PROVE LogInv'
    OBVIOUS
  <2>1. [W!SpillNext]_spillVars
    BY DEF ServicesNext, GStep, SStep, JStep, RStep, WStep, QStep, CStep, tableVars
  <2> QED
    BY <2>1, LogKept
<1>3. LogInv => LogsKept
  BY ReadsNewest, AddsUp DEF LogsKept, W!LogsKept
<1> QED
  BY <1>1, <1>2, <1>3, PTL DEF ServicesSpec
=============================================================================
