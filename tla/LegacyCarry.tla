------------------------------ MODULE LegacyCarry ------------------------------
(***************************************************************************)
(* store/persist_carry.go, store/history.go and cli_serve.go: at boot the  *)
(* rows of older database files are copied into the empty tables of the    *)
(* live one, the operator's state before the configuration of .env is      *)
(* imported, the history after.  A copy may fail between two tables, and   *)
(* the process may end there.                                              *)
(***************************************************************************)
EXTENDS Naturals, Sequences, FiniteSets

CONSTANTS
  persistCarryTables, historyCarryTables,   \* sequences of names, "settings" the first of the one
  Candidates,          \* sequences of legacy files, in the order they are looked for
  MaxFaults, MaxBoots, MaxWrites

VARIABLES
  files,    \* the files of this machine
  live,     \* live[t]: the rows of a table, each by where it comes from
  boot,     \* the boot under way
  past      \* history: tables each boot found empty, tables emptied while running, faults

carryVars == <<files, live, boot, past>>

Names(seq) == {seq[i] : i \in DOMAIN seq}
Tables == Names(persistCarryTables) \cup Names(historyCarryTables)
Down == [pc |-> "down", i |-> 0, k |-> 0, empty |-> {}]
File == files[boot.i]
\* The two lists of tables share none; the rows of a file, of .env and of the process are
\* told apart.
Legacy == [name : STRING \ {"env", "live"}, ok : BOOLEAN, rows : [Tables -> BOOLEAN]]
CarryAssumption ==
  /\ "settings" \in Names(persistCarryTables) /\ Names(persistCarryTables) \cap Names(historyCarryTables) = {}
  /\ {persistCarryTables, historyCarryTables} \subseteq Seq(STRING) /\ Candidates \subseteq Seq(Legacy)
\* What a readable file holds of a table; nothing when it predates the table.
Holds(f, t) == IF f.ok /\ f.rows[t] THEN {f.name} ELSE {}

CarryInit ==
  /\ files \in Candidates /\ live = [t \in Tables |-> {}] /\ boot = Down
  /\ past = [found |-> {}, cut |-> FALSE, emptied |-> {}, faults |-> 0, boots |-> 0, writes |-> 0]

-----------------------------------------------------------------------------
(* A boot.                                                                 *)
Start ==
  /\ boot.pc = "down" /\ past.boots < MaxBoots
  /\ boot' = [Down EXCEPT !.pc = "state", !.i = 1]
  /\ past' = [past EXCEPT !.boots = @ + 1, !.found = {t \in Tables : live[t] = {}}]
  /\ UNCHANGED <<files, live>>
\* The gate of the operator's state is per table, that of the history for all of it.
ToFill(tables, whole) ==
  LET empty == {t \in Names(tables) : live[t] = {}}
  IN IF whole /\ empty # Names(tables) THEN {} ELSE empty
NextFile == [Down EXCEPT !.pc = boot.pc, !.i = boot.i + 1]
Enter(pc, copying, tables, whole, after) ==
  /\ boot.pc = pc
  /\ boot' = IF boot.i > Len(files) THEN [Down EXCEPT !.pc = after, !.i = 1]
             ELSE IF ToFill(tables, whole) = {} \/ ~File.ok THEN NextFile
             ELSE [boot EXCEPT !.pc = copying, !.k = 1, !.empty = ToFill(tables, whole)]
  /\ UNCHANGED <<files, live, past>>
\* One INSERT ... SELECT per table, each its own transaction.
IntoAny(t) == [live EXCEPT ![t] = @ \cup Holds(File, t)]
IntoEmpty(t) == IF t \in boot.empty THEN [live EXCEPT ![t] = @ \cup Holds(File, t)] ELSE live
Copy(copying, pc, tables) ==
  /\ boot.pc = copying
  /\ IF boot.k > Len(tables) THEN boot' = [NextFile EXCEPT !.pc = pc] /\ UNCHANGED live
     ELSE boot' = [boot EXCEPT !.k = @ + 1] /\ live' = IntoEmpty(tables[boot.k])
  /\ UNCHANGED <<files, past>>
\* It fails: the next file is tried.  A file that is busy is tried again, from the gate.
CopyFails(copying, pc) ==
  /\ boot.pc = copying /\ past.faults < MaxFaults
  /\ \/ boot' = [NextFile EXCEPT !.pc = pc]
     \/ boot' = [boot EXCEPT !.pc = pc, !.k = 0, !.empty = {}]
  /\ past' = [past EXCEPT !.faults = @ + 1, !.cut = TRUE] /\ UNCHANGED <<files, live>>
EnterState == Enter("state", "stateCopy", persistCarryTables, FALSE, "env")
EnterHistory == Enter("history", "historyCopy", historyCarryTables, TRUE, "up")
\* migrateEnvToDB, unless the rows say it was done.
ImportEnv ==
  /\ boot.pc = "env" /\ boot' = [boot EXCEPT !.pc = "history"]
  /\ live' = IF live["settings"] = {} THEN [live EXCEPT !["settings"] = {"env"}] ELSE live
  /\ UNCHANGED <<files, past>>

-----------------------------------------------------------------------------
(* The process writes and deletes rows, and ends, orderly or not.          *)
Write(t) ==
  /\ boot.pc = "up" /\ past.writes < MaxWrites
  /\ live' = [live EXCEPT ![t] = @ \cup {"live"}]
  /\ past' = [past EXCEPT !.writes = @ + 1] /\ UNCHANGED <<files, boot>>
\* Deletions and the retention; the settings keep their marker.
Empty(t) ==
  /\ boot.pc = "up" /\ t # "settings" /\ past.writes < MaxWrites
  /\ live' = [live EXCEPT ![t] = {}]
  /\ past' = [past EXCEPT !.writes = @ + 1, !.emptied = @ \cup {t}] /\ UNCHANGED <<files, boot>>
End == boot.pc = "up" /\ boot' = Down /\ UNCHANGED <<files, live, past>>
Crash ==
  /\ boot.pc \notin {"down", "up"} /\ past.faults < MaxFaults /\ boot' = Down
  /\ past' = [past EXCEPT !.faults = @ + 1, !.cut = TRUE] /\ UNCHANGED <<files, live>>

CarryNext ==
  \/ Start \/ EnterState \/ EnterHistory \/ ImportEnv \/ End \/ Crash
  \/ Copy("stateCopy", "state", persistCarryTables) \/ CopyFails("stateCopy", "state")
  \/ Copy("historyCopy", "history", historyCarryTables) \/ CopyFails("historyCopy", "history")
  \/ \E t \in Tables : Write(t) \/ Empty(t)
CarrySpec == CarryInit /\ [][CarryNext]_carryVars

-----------------------------------------------------------------------------
\* No table ever mixes the rows of two files, nor does the history; a boot adds nothing to
\* a table it found with rows; and where no copy was cut short, a table that was never
\* emptied holds what the first file had of it (of the history: the first file with any),
\* the operator's settings coming before those of .env.  (A table that was emptied is
\* filled again from the old file, a history cut short stays incomplete: README, section 5.)
FilesOf(ts) == (UNION {live[t] : t \in ts}) \ {"env", "live"}
First(t, ts) ==
  LET at == {i \in DOMAIN files : \E u \in ts : Holds(files[i], u) # {}}
  IN IF at = {} THEN {} ELSE Holds(files[CHOOSE i \in at : \A j \in at : i <= j], t)
NoMix ==
  /\ \A t \in Tables : Cardinality(FilesOf({t})) <= 1
  /\ past.emptied = {} => Cardinality(FilesOf(Names(historyCarryTables))) <= 1
Complete ==
  boot.pc = "up" /\ ~past.cut =>
    \A t \in Tables \ past.emptied :
      /\ t \in Names(persistCarryTables) \/ past.emptied = {} =>
           First(t, IF t \in Names(persistCarryTables) THEN {t} ELSE Names(historyCarryTables)) \subseteq live[t]
      /\ t = "settings" /\ First(t, {t}) # {} => "env" \notin live[t]
CarryStep == \A t \in Tables : t \notin past.found /\ boot.pc # "up" => live'[t] = live[t]
CarryHolds == [](NoMix /\ Complete) /\ [][CarryStep]_carryVars
=============================================================================
