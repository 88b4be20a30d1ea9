------------------------------ MODULE MCServices ------------------------------
(***************************************************************************)
(* More components side by side, the way MCParts has them: one is chosen   *)
(* at the start and takes every step.                                      *)
(***************************************************************************)
EXTENDS MCChatEngine, TLC

CONSTANTS
  service_names,
  \* AccountGates
  Walkers, GProber, GOperator, GKeeper, Accounts, GModels, ga1, ga2, MaxTime, MaxRefusals, MaxActs, GateOps,
  \* AnthropicStream, RelayParity, ResponsesStream
  Indexes, MaxChunks, OneWay, AnyWay,
  \* LogSpill
  Loggers, capacity, spillBufSize, spillFlushSize, Retention, MaxRecords, MaxSpillTicks, MaxSpillFaults,
  \* RequestRecords
  Ids, RollupMaxWindow, Skew, BucketMs, MaxRecordClock, MaxRecordCalls

VARIABLES
  service,
  now, list, ban, cool, country, limit, mark, hint, row, told, acts, gpc, gloc,
  asaid, ax, ast, aout, aend,
  osaid, ox, orw, oout, oend, acc,
  rsaid, rx, rst, rout, rend,
  wclock, ring, held, ch, spiller, closing, table, spilled,
  rclock, reqs, export, rollup, recorded

G == INSTANCE AccountGates
ASSUME GatesAreSound == G!GatesAssumption
S == INSTANCE AnthropicStream WITH Mixes <- OneWay
J == INSTANCE RelayParity WITH Mixes <- AnyWay
R == INSTANCE ResponsesStream WITH Mixes <- OneWay

W == INSTANCE LogSpill WITH MaxFaults <- MaxSpillFaults, MaxTicks <- MaxSpillTicks, clock <- wclock, past <- spilled
ASSUME SpillIsSound == W!SpillAssumption

Outcome(m, s, t) == [model |-> m, status |-> s, ttfb |-> t]
Recorded(id, ts, s, t) == [id |-> id, ts |-> ts, model |-> "m1", status |-> s, ttfb |-> t]
Q == INSTANCE RequestRecords WITH
       Requests <- Ids, RollupMaxWindowMillis <- RollupMaxWindow, MaxClock <- MaxRecordClock, MaxCalls <- MaxRecordCalls,
       Outcomes <- {Outcome("m1", "error", 0), Outcome("m2", "ok", 2)},
       Windows <- {<<0, 2>>, <<1, 4>>},
       Docs <- {<<Recorded("r1", 2, "ok", 1), Recorded("r1", 1, "error", 0), Recorded("r2", 4, "ok", 2)>>},
       clock <- rclock, past <- recorded, rows <- reqs

gateVars == <<now, list, ban, cool, country, limit, mark, hint, row, told, acts, gpc, gloc>>
relayVars == <<asaid, ax, ast, aout, aend, osaid, ox, orw, oout, oend, acc, rsaid, rx, rst, rout, rend>>
anthropicVars == <<asaid, ax, ast, aout, aend>>
openaiVars == <<osaid, ox, orw, oout, oend, acc>>
responsesVars == <<rsaid, rx, rst, rout, rend>>
spillVars == <<wclock, ring, held, ch, spiller, closing, table, spilled>>
recordVars == <<rclock, reqs, export, rollup, recorded>>
tableVars == <<spillVars, recordVars, cvars>>
otherVars == <<gateVars, relayVars>>

GStep == service = "gates" /\ G!GNext /\ UNCHANGED <<relayVars, tableVars>>
SStep == service = "anthropic" /\ S!ANext /\ UNCHANGED <<gateVars, openaiVars, responsesVars, tableVars>>
JStep == service = "openai" /\ J!JNext /\ UNCHANGED <<gateVars, anthropicVars, responsesVars, tableVars>>
RStep == service = "responses" /\ R!RNext /\ UNCHANGED <<gateVars, anthropicVars, openaiVars, tableVars>>
WStep == service = "logs" /\ W!SpillNext /\ UNCHANGED <<otherVars, recordVars, cvars>>
QStep == service = "records" /\ Q!RecordNext /\ UNCHANGED <<otherVars, spillVars, cvars>>
CStep == service = "chats" /\ CNext /\ UNCHANGED <<otherVars, spillVars, recordVars>>

\* The streams nobody relays carry text only.  The two chats are on one account, for those of
\* two share nothing; where nobody chats it is a pooled one.
Idle == {"text"}
ServicesInit ==
  /\ service \in service_names /\ G!GInit /\ S!AInit /\ J!JInit /\ R!RInit
  /\ service # "anthropic" => asaid.mix = Idle
  /\ service # "openai" => osaid.mix = Idle
  /\ service # "responses" => rsaid.mix = Idle
  /\ W!SpillInit /\ Q!RecordInit
  /\ CInit
  /\ \E a \in IF service = "chats" THEN ChatAccounts ELSE PooledAccounts : chat = [c \in Chats |-> NewChat(a)]
ServicesNext == UNCHANGED service /\ (GStep \/ SStep \/ JStep \/ RStep \/ WStep \/ QStep \/ CStep)
ServicesSpec == ServicesInit /\ [][ServicesNext]_<<service, gateVars, relayVars, tableVars>>

RefusalsHonest == G!RefusalsHonest
InputComplete == S!InputComplete
FinishHonest == S!StopReasonHonest /\ J!FinishHonest
PseudoHidden == J!PseudoHidden
AnswersAgree == J!AnswersAgree
LogsKept == service = "logs" => W!LogsKept
RecordsHold == [](service = "records" => Q!OneRowEach /\ Q!RollupAgrees) /\ [][Q!ImportStep]_recordVars
=============================================================================
