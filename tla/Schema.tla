-------------------------------- MODULE Schema --------------------------------
(***************************************************************************)
(* store/store.go: opening the database file.  A file of any generation is *)
(* brought to the latest schema: versions its objects already have are     *)
(* recorded, the rest is run, the stamp is moved.  Each statement may fail *)
(* and the process may end between any two of them.                        *)
(***************************************************************************)
EXTENDS Naturals, FiniteSets

CONSTANTS
  schemaVersion,
  Alters,        \* migrations that add a column, to the table of an earlier one
  TableOf,       \* TableOf[v]: the migration that made the table v alters
  Files,         \* the files a first boot may find
  MaxFaults, MaxOpens

VARIABLES
  disk,    \* the file: exists, user_version, the migrations whose objects it has, goose rows, mode
  open,    \* the Open under way
  past     \* history: what the file was when this Open began; where earlier ones were cut off

schemaVars == <<disk, open, past>>

Migrations == 1 .. schemaVersion
NoTable == [is |-> FALSE, rows |-> {}]
Closed == [pc |-> "closed", from |-> 0, base |-> 0, seeded |-> FALSE, before |-> {}, applied |-> {},
           fresh |-> FALSE, noop |-> FALSE]

\* baselineVersion: the stamp, lifted by what the file already has.
BaselineByStamp(legacy) == legacy
Baseline(legacy) ==
  LET a == IF legacy < 3 /\ 3 \in disk.has THEN 3 ELSE legacy
      b == IF a < 4 /\ 4 \in disk.has THEN 4 ELSE a
  IN IF b < 5 /\ 5 \in disk.has THEN 5 ELSE b
\* gooseAtLatest
AtLatest == disk.goose.is /\ Migrations \subseteq disk.goose.rows
Pending == {v \in Migrations : v \notin disk.goose.rows}
Runs(v) == v \in Alters => v \notin disk.has /\ TableOf[v] \in disk.has

Goto(pc) == open' = [open EXCEPT !.pc = pc]
Writes == past' = [past EXCEPT !.wrote = TRUE]

\* What the constants are in store.go, and what a file that some release left may be: its
\* objects are those of the migrations up to one, not before the stamp; goose records
\* only what is there, and the columns that are there, unless it records nothing.
FileShapes == [exists : BOOLEAN, user : Nat, has : SUBSET Migrations,
               goose : [is : BOOLEAN, rows : SUBSET (0 .. schemaVersion)], private : BOOLEAN]
SoundFile(f) ==
  /\ f \in FileShapes
  /\ \A v \in f.has : 1 .. v \subseteq f.has
  /\ f.user <= schemaVersion => 1 .. f.user \subseteq f.has
  /\ f.goose.rows \subseteq f.has \cup {0}
  /\ f.goose.is \/ f.goose.rows = {}
SchemaAssumption ==
  /\ schemaVersion = 5
  /\ Alters \subseteq {3, 5} /\ \A v \in Alters : TableOf[v] \in 1 .. v - 1
  /\ \A f \in Files : SoundFile(f) /\ (f.goose.rows = {} \/ Alters \cap f.has \subseteq f.goose.rows)

SchemaInit ==
  /\ disk \in Files /\ open = Closed
  /\ past = [was |-> disk, wrote |-> FALSE, cut |-> {}, opens |-> 0, faults |-> 0]

-----------------------------------------------------------------------------
(* OpenWithStatus                                                          *)
Begin ==
  /\ open.pc = "closed" /\ past.opens < MaxOpens
  /\ open' = [Closed EXCEPT !.pc = "version", !.fresh = ~disk.exists]
  /\ disk' = [disk EXCEPT !.exists = TRUE]
  /\ past' = [past EXCEPT !.was = disk, !.wrote = FALSE, !.opens = @ + 1]
Version ==
  /\ open.pc = "version" /\ UNCHANGED <<disk, past>>
  /\ LET v == disk.user IN
     open' = [open EXCEPT !.from = v, !.base = Baseline(v),
                !.pc = CASE v > schemaVersion -> "failed"
                         [] v = schemaVersion /\ AtLatest -> "stamp"
                         [] OTHER -> "baseline"]
\* migrateUp makes goose's table for a file older than goose, and records its versions...
MakeTable ==
  /\ open.pc = "baseline"
  /\ IF open.base = 0 THEN Goto("up") /\ UNCHANGED <<disk, past>>
     ELSE /\ disk' = [disk EXCEPT !.goose.is = TRUE]
          /\ open' = [open EXCEPT !.seeded = disk.goose.rows = {},
                                  !.pc = IF disk.goose.rows = {} THEN "seed" ELSE "up"]
          /\ IF disk.goose.is THEN UNCHANGED past ELSE Writes
\* ... one row after the other.
Seed ==
  /\ open.pc = "seed"
  /\ LET v == Cardinality(disk.goose.rows) IN
     IF v > open.base THEN Goto("up") /\ UNCHANGED <<disk, past>>
     ELSE disk' = [disk EXCEPT !.goose.rows = @ \cup {v}] /\ Writes /\ UNCHANGED open
Up ==
  /\ open.pc = "up"
  /\ open' = [open EXCEPT !.before = disk.goose.rows, !.pc = "migrate"]
  /\ IF disk.goose.is THEN UNCHANGED <<disk, past>>
     ELSE disk' = [disk EXCEPT !.goose = [is |-> TRUE, rows |-> {0}]] /\ Writes
\* A migration and its row are one transaction.
Migrate ==
  /\ open.pc = "migrate"
  /\ IF Pending = {}
     THEN /\ open' = [open EXCEPT !.applied = (disk.goose.rows \ open.before) \ {0}, !.pc = "stamp"]
          /\ UNCHANGED <<disk, past>>
     ELSE LET v == CHOOSE x \in Pending : \A y \in Pending : x <= y IN
          IF Runs(v)
          THEN disk' = [disk EXCEPT !.has = @ \cup {v}, !.goose.rows = @ \cup {v}] /\ Writes /\ UNCHANGED open
          ELSE Goto("failed") /\ UNCHANGED <<disk, past>>
Stamp ==
  /\ open.pc = "stamp"
  /\ open' = [open EXCEPT !.noop = ~open.fresh /\ open.applied = {} /\ ~open.seeded, !.pc = "mode"]
  /\ disk' = [disk EXCEPT !.user = schemaVersion] /\ UNCHANGED past
Mode == open.pc = "mode" /\ Goto("open") /\ disk' = [disk EXCEPT !.private = TRUE] /\ UNCHANGED past

\* A statement fails, or the process ends.
Steps == {"version", "baseline", "seed", "up", "migrate", "stamp", "mode"}
Cut(pc) ==
  /\ open.pc \in Steps /\ past.faults < MaxFaults
  /\ open' = [Closed EXCEPT !.pc = pc]
  /\ past' = [past EXCEPT !.faults = @ + 1, !.cut = @ \cup {open.pc}] /\ UNCHANGED disk
End == open.pc \in {"open", "failed"} /\ open' = Closed /\ UNCHANGED <<disk, past>>

SchemaNext ==
  \/ Begin \/ Version \/ MakeTable \/ Seed \/ Up \/ Migrate \/ Stamp \/ Mode \/ End
  \/ \E pc \in {"closed", "broken"} : Cut(pc)
  \/ open.pc = "broken" /\ open' = Closed /\ UNCHANGED <<disk, past>>
SchemaSpec == SchemaInit /\ [][SchemaNext]_schemaVars

-----------------------------------------------------------------------------
\* An Open that succeeds leaves the whole schema, every version recorded, the stamp
\* and the private mode, whatever cut earlier ones off; it calls itself a no-op only
\* when it wrote nothing, and names the migrations it ran; and a supported file
\* is never beyond opening, unless an earlier Open ended while it recorded the baseline
\* (README, section 5).
OpenIsWhole ==
  open.pc = "open" =>
    /\ disk.has = Migrations /\ Migrations \subseteq disk.goose.rows /\ disk.user = schemaVersion /\ disk.private
    /\ open.noop => ~past.wrote
    /\ open.applied \cap past.was.goose.rows = {}
    /\ disk.has \ past.was.has \subseteq open.applied
NeverStuck == open.pc = "failed" => disk.user > schemaVersion \/ "seed" \in past.cut
SchemaConverges == OpenIsWhole /\ NeverStuck
=============================================================================
