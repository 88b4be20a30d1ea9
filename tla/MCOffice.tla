------------------------------- MODULE MCOffice -------------------------------
(***************************************************************************)
(* What the proxy keeps and administers beside its requests, side by side  *)
(* the way MCParts has its components: one is chosen at the start and      *)
(* takes every step.                                                       *)
(***************************************************************************)
EXTENDS Naturals, Sequences, FiniteSets

CONSTANTS
  office_names,
  \* AdminConfig
  Admins, p1, Wizard, MaxOrders, MaxFaults, MaxBoots,
  \* SmartProbe
  pa1, pa2, Fresh, Base, Cap, MaxPerTick, Midnight, MaxProbeClock, MaxProbeActs,
  \* Maturity
  Day, Window, Gate, Buffer, Throttle, Backoff, MaxTicks, MaxNights, MaxStreakActs, MaxNightActs,
  \* SessionStore
  StoreAgents, MaxStoreCalls, MaxStoreFaults, MaxStoreBoots,
  \* SpendLedger
  UsageWindow, MaxLedgerClock, MaxSpends, MaxEdits, MaxLedgerBoots,
  \* Schema, LegacyCarry
  schemaVersion, Alters, MaxCuts, MaxOpens, MaxCarryFaults, MaxCarryBoots, MaxCarryWrites

VARIABLES
  office,
  env, file, rows, cfg, served, saver, job, scars, count,
  pclock, porder, pshut, pquota, pdue, pmarker, pround, ppast,
  sclock, sfit, straffic, sused, sstreak, smat, sbackoff, sjob, spast,
  kfile, krow, kmem, kgone, kasked, ktruth, kscars, kcount,
  lclock, lledger, llisted, lrow, ldirty, lflush, llog, lcount,
  disk, open, opened,
  files, live, boot, carried

\* The layers a process may start from, and what its operators ask for.
Layer(ts, k, v) == [x \in {"AUTH_TOKENS", "BRIDGE_ENABLED", "ADMIN_TOKEN", "DASHBOARD_REQUIRE_LOGIN", "KNOB"} |->
                     CASE x = "AUTH_TOKENS" -> ts [] x = k -> v [] OTHER -> <<"unset">>]
Blank == Layer(<<"unset">>, "KNOB", <<"unset">>)
RowLayer(l, migrated) == [x \in DOMAIN l \cup {"tokens_configured", "migrated"} |->
                           IF x \in DOMAIN l THEN l[x] ELSE IF x = "migrated" THEN migrated ELSE <<"unset">>]
AllOrders ==
  {[what |-> "add", token |-> "a2"], [what |-> "remove", at |-> 0], [what |-> "remove", at |-> 1],
   [what |-> "swap", from |-> 1, dest |-> 2], [what |-> "move", from |-> 2, dest |-> 1]}
  \cup {[what |-> "mode", mode |-> m] : m \in {"bridge", "pooled", "hybrid"}}
  \cup {[what |-> "password", value |-> <<"pw">>], [what |-> "require", value |-> <<"off">>],
        [what |-> "post", key |-> "KNOB", value |-> <<"better">>], [what |-> "delete", key |-> "AUTH_TOKENS"],
        [what |-> "save", file |-> Layer(<<"a2", "a1">>, "KNOB", <<"good">>)],
        [what |-> "save", file |-> Layer(<<"a1">>, "KNOB", <<"bad">>)], [what |-> "reload"]}
\* One admin does everything, the others switch the mode under its hands.
AdminOrders == [p \in Admins |-> IF p = p1 THEN AllOrders ELSE {o \in AllOrders : o.what = "mode"}]
O == INSTANCE AdminConfig WITH
       Orders <- AdminOrders, WizardToken <- "a2",
       ProcessEnv <- {Blank, Layer(<<"a1">>, "KNOB", <<"unset">>)},
       EnvFiles <- {Layer(<<"a1">>, "KNOB", <<"good">>), Layer(<<"a1", "a2">>, "BRIDGE_ENABLED", <<"off">>)},
       SavedRows <- {RowLayer(Blank, <<"unset">>), RowLayer(Layer(<<"a2", "a1">>, "KNOB", <<"unset">>), <<"on">>)}

P == INSTANCE SmartProbe WITH
       Accounts <- {pa1, pa2}, Boot <- <<pa1, pa2>>, Awake <- {pa1}, MaxClock <- MaxProbeClock, MaxActs <- MaxProbeActs,
       clock <- pclock, order <- porder, shut <- pshut, quota <- pquota, due <- pdue, marker <- pmarker,
       round <- pround, past <- ppast
ASSUME RosterIsSound == P!ProbeAssumption
\* Two accounts for a day, a single one for longer.
M == INSTANCE Maturity WITH
       Rosters <- {1, 2}, MaxClock <- <<MaxNights, MaxTicks>>, MaxActs <- <<MaxNightActs, MaxStreakActs>>,
       clock <- sclock, fit <- sfit, traffic <- straffic, used <- sused, streak <- sstreak, mat <- smat,
       backoff <- sbackoff, job <- sjob, past <- spast
ASSUME NightsAreSound == M!MaturityAssumption

\* What an earlier process left of one account's session and runs.
Left(s, r) == [sess |-> s, runs |-> [g \in StoreAgents |-> IF g = "g1" THEN r ELSE "none"]]
S == INSTANCE SessionStore WITH
       Sessions <- {"s1", "s2"}, Runs <- {"r1"}, Agents <- StoreAgents,
       Files <- {[kind |-> "none", is |-> Left("none", "none")], [kind |-> "corrupt", is |-> Left("none", "none")]}
                \cup {[kind |-> "kept", is |-> c] : c \in {Left("s1", "r1"), Left("hollow", "r1"), Left("none", "r1")}},
       Baks <- {[kind |-> "none", is |-> Left("none", "none")], [kind |-> "kept", is |-> Left("s1", "none")]},
       Rows <- {Left("none", "none"), Left("s2", "r1"), Left("hollow", "r1")},
       MaxCalls <- MaxStoreCalls, MaxFaults <- MaxStoreFaults, MaxBoots <- MaxStoreBoots,
       file <- kfile, row <- krow, mem <- kmem, gone <- kgone, asked <- kasked, truth <- ktruth,
       scars <- kscars, count <- kcount
L == INSTANCE SpendLedger WITH
       Periods <- {"day", "week"}, Starts <- [p \in {"day", "week"} |-> IF p = "day" THEN {1, 2, 3} ELSE {1, 3}],
       Window <- UsageWindow, Amounts <- {2}, MaxClock <- MaxLedgerClock, MaxBoots <- MaxLedgerBoots,
       clock <- lclock, ledger <- lledger, listed <- llisted, row <- lrow, dirty <- ldirty, flush <- lflush,
       log <- llog, count <- lcount

\* Database files: none, of each generation before and after goose, and of a newer proxy.
DbFile(is, user, has, goose) ==
  [exists |-> is, user |-> user, has |-> has, goose |-> [is |-> goose # {}, rows |-> goose], private |-> FALSE]
NoDb == DbFile(FALSE, 0, {}, {})
H == INSTANCE Schema WITH
       TableOf <- [v \in {3, 5} |-> IF v = 3 THEN 2 ELSE 1], MaxFaults <- MaxCuts, past <- opened,
       Files <- {NoDb, DbFile(TRUE, 2, 1 .. 3, {}), DbFile(TRUE, 6, 1 .. 5, 0 .. 5), DbFile(TRUE, 5, 1 .. 5, 0 .. 5)}
                \cup {DbFile(TRUE, k, 1 .. k, {}) : k \in 1 .. 5} \cup {DbFile(TRUE, 0, 1 .. k, {}) : k \in 1 .. 5}
ASSUME DbFilesAreSound == H!SchemaAssumption

\* Legacy files: the first with any of its tables or unreadable, the second with more or less of them.
StateTables == <<"settings", "sessions">>
HistoryTables == <<"logs", "requests">>
AllTables == {"settings", "sessions", "logs", "requests"}
OldFile(name, ts) == [name |-> name, ok |-> TRUE, rows |-> [t \in AllTables |-> t \in ts]]
NoFiles == <<[name |-> "f1", ok |-> FALSE, rows |-> [t \in AllTables |-> FALSE]], OldFile("f2", AllTables)>>
C == INSTANCE LegacyCarry WITH
       persistCarryTables <- StateTables, historyCarryTables <- HistoryTables,
       Candidates <- {NoFiles} \cup {<<OldFile("f1", ts), OldFile("f2", us)>> :
                                      ts \in SUBSET AllTables, us \in {AllTables, {"sessions", "logs"}}},
       MaxFaults <- MaxCarryFaults, MaxBoots <- MaxCarryBoots, MaxWrites <- MaxCarryWrites, past <- carried
ASSUME OldFilesAreSound == C!CarryAssumption

configVars == <<env, file, rows, cfg, served, saver, job, scars, count>>
probeVars == <<pclock, porder, pshut, pquota, pdue, pmarker, pround, ppast>>
streakVars == <<sclock, sfit, straffic, sused, sstreak, smat, sbackoff, sjob, spast>>
storeVars == <<kfile, krow, kmem, kgone, kasked, ktruth, kscars, kcount>>
ledgerVars == <<lclock, lledger, llisted, lrow, ldirty, lflush, llog, lcount>>
schemaVars == <<disk, open, opened>>
carryVars == <<files, live, boot, carried>>
fileVars == <<schemaVars, carryVars>>
keptVars == <<storeVars, ledgerVars, fileVars>>
otherVars == <<configVars, probeVars, streakVars, storeVars, ledgerVars>>

OStep == office = "config" /\ O!ConfigNext /\ UNCHANGED <<probeVars, streakVars, keptVars>>
PStep == office = "probes" /\ P!ProbeNext /\ UNCHANGED <<configVars, streakVars, keptVars>>
MStep == office = "streaks" /\ M!MatNext /\ UNCHANGED <<configVars, probeVars, keptVars>>
KStep == office = "store" /\ S!StoreNext /\ UNCHANGED <<configVars, probeVars, streakVars, ledgerVars, fileVars>>
LStep == office = "ledger" /\ L!LedgerNext /\ UNCHANGED <<configVars, probeVars, streakVars, storeVars, fileVars>>
HStep == office = "schema" /\ H!SchemaNext /\ UNCHANGED <<otherVars, carryVars>>
CStep == office = "carry" /\ C!CarryNext /\ UNCHANGED <<otherVars, schemaVars>>

OfficeInit ==
  /\ office \in office_names /\ O!ConfigInit /\ P!ProbeInit
  /\ M!MatInit /\ (office # "streaks" => Len(sfit) = 1)
  /\ office # "config" => env = Blank /\ Len(served) = 1
  /\ S!StoreInit /\ L!LedgerInit
  /\ office # "store" => kfile.live.kind = "none" /\ kfile.bak.kind = "none" /\ krow = Left("none", "none")
  /\ H!SchemaInit /\ (office # "schema" => disk = NoDb)
  /\ C!CarryInit /\ (office # "carry" => files = NoFiles)
OfficeNext == UNCHANGED office /\ (OStep \/ PStep \/ MStep \/ KStep \/ LStep \/ HStep \/ CStep)
OfficeSpec == OfficeInit /\ [][OfficeNext]_<<office, configVars, probeVars, streakVars, keptVars>>

ConfigAgrees == office = "config" => O!ConfigAgrees
ResumesWhatWasSaved == office = "store" => S!ResumesWhatWasSaved
CountersHold == office = "ledger" => L!CountersHold
TendingMeasured ==
  [][P!ProbeStep]_probeVars /\ [][M!TouchStep]_streakVars
SchemaConverges == office = "schema" => H!SchemaConverges
CarryHolds == [](office = "carry" => C!NoMix /\ C!Complete) /\ [][C!CarryStep]_carryVars
=============================================================================
