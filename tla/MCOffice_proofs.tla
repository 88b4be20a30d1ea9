--------------------------- MODULE MCOffice_proofs ---------------------------
(***************************************************************************)
(* Opening the database file, proved of the office with any file that some *)
(* release left: of the files of MCOffice only H!SchemaAssumption is used. *)
(* Then the row of one account, for any agents and any bounds; when        *)
(* accounts are probed and touched, for any lengths and bounds; and the    *)
(* rows of older files, for any that C!CarryAssumption allows.             *)
(***************************************************************************)
EXTENDS MCOffice, FiniteSetTheorems, WellFoundedInduction, TLAPS

wholeVars == <<office, configVars, probeVars, streakVars, keptVars>>
pc == open.pc
rows5 == disk.goose.rows

\* goose has recorded every column that is there.
Recorded == Alters \cap disk.has \subseteq rows5

Pasts == [was : H!FileShapes, wrote : BOOLEAN, cut : SUBSET H!Steps, opens : Nat, faults : Nat]
Opens == [pc : {"closed", "broken", "failed", "open"} \cup H!Steps, from : Nat, base : Nat, seeded : BOOLEAN,
          before : SUBSET (0 .. 5), applied : SUBSET (0 .. 5), fresh : BOOLEAN, noop : BOOLEAN]
SchemaTypes ==
  /\ H!SoundFile(disk)
  /\ open \in Opens /\ opened \in Pasts

\* While the baseline is recorded, what is recorded is a beginning of it.
Seeding ==
  /\ pc \in {"baseline", "seed"} => open.base = H!Baseline(disk.user)
  /\ pc \in H!Steps \ {"version"} => disk.user <= 5
  /\ pc = "migrate" => disk.goose.is
  /\ pc = "seed" => open.seeded /\ disk.goose.is /\ open.base >= 1
                    /\ \E n \in 0 .. open.base + 1 : rows5 = 0 .. n - 1

\* Unless an Open ended while it recorded the baseline, nothing that is recorded is a
\* part of it.
NotCut ==
  "seed" \notin opened.cut =>
    /\ pc \in {"up", "migrate", "stamp", "mode", "open"} => Recorded
    /\ pc # "seed" => rows5 = {} \/ Recorded

\* What this Open has written so far is known by its end.
Noted ==
  /\ pc \in {"version", "baseline"} => ~opened.wrote
  /\ pc = "up" /\ opened.wrote => open.seeded
  /\ pc = "migrate" /\ opened.wrote => open.seeded \/ ~(H!Migrations \subseteq open.before)
  /\ pc = "stamp" /\ opened.wrote => open.seeded \/ open.applied # {}
  /\ pc \in {"mode", "open"} /\ open.noop => ~opened.wrote

\* And so is what it has run.
Traced ==
  /\ pc \in {"version", "baseline", "seed", "up"} => disk.has = opened.was.has /\ opened.was.goose.rows \subseteq rows5
  /\ pc = "version" => open.applied = {}
  /\ pc = "migrate" => /\ opened.was.goose.rows \subseteq open.before /\ open.before \subseteq rows5
                       /\ disk.has \ opened.was.has \subseteq rows5 \ open.before
  /\ pc \in {"stamp", "mode", "open"} => /\ open.applied \cap opened.was.goose.rows = {}
                                         /\ disk.has \ opened.was.has \subseteq open.applied

Reached ==
  /\ pc \in {"stamp", "mode", "open"} => disk.has = H!Migrations /\ H!Migrations \subseteq rows5
  /\ pc \in {"mode", "open"} => disk.user = 5
  /\ pc = "open" => disk.private
  /\ pc = "failed" => disk.user > 5 \/ "seed" \in opened.cut

SchemaInv == SchemaTypes /\ Seeding /\ NotCut /\ Noted /\ Traced /\ Reached
-----------------------------------------------------------------------------
LEMMA FiveMigrations ==
  /\ schemaVersion = 5 /\ Alters \subseteq {3, 5} /\ H!Migrations = 1 .. 5
  /\ \A v \in Alters : ([x \in {3, 5} |-> IF x = 3 THEN 2 ELSE 1])[v] \in 1 .. v - 1
<1>1. schemaVersion = 5 /\ Alters \subseteq {3, 5}
  BY DbFilesAreSound DEF H!SchemaAssumption
<1> QED
  BY <1>1 DEF H!Migrations

\* baselineVersion names a version the file has all objects of, and no column of a later
\* one is there.
LEMMA BaselineHolds ==
  ASSUME H!SoundFile(disk), disk.user <= 5
  PROVE  /\ H!Baseline(disk.user) \in 0 .. 5
         /\ 1 .. H!Baseline(disk.user) \subseteq disk.has
         /\ Alters \cap disk.has \subseteq 1 .. H!Baseline(disk.user)
<1>1. disk.user \in 0 .. 5 /\ disk.has \subseteq 1 .. 5 /\ \A v \in disk.has : 1 .. v \subseteq disk.has
  BY FiveMigrations DEF H!SoundFile, H!FileShapes
<1>2. 1 .. disk.user \subseteq disk.has
  BY FiveMigrations DEF H!SoundFile, H!FileShapes
<1> QED
  BY <1>1, <1>2, FiveMigrations DEF H!Baseline

LEMMA SchemaStarts == H!SchemaInit => SchemaInv
<1> SUFFICES ASSUME H!SchemaInit PROVE SchemaInv
  OBVIOUS
<1>1. H!SoundFile(disk) /\ (rows5 = {} \/ Recorded)
  BY DbFilesAreSound DEF H!SchemaInit, H!SchemaAssumption, rows5, Recorded
<1>2. /\ open = H!Closed
      /\ opened = [was |-> disk, wrote |-> FALSE, cut |-> {}, opens |-> 0, faults |-> 0]
  BY DEF H!SchemaInit
<1>3. SchemaTypes
  BY <1>1, <1>2 DEF SchemaTypes, H!SoundFile, H!Closed, Opens, Pasts, H!Steps
<1> QED
  BY <1>1, <1>2, <1>3 DEF SchemaInv, Seeding, NotCut, Noted, Traced, Reached, pc, H!Closed, H!Steps

LEMMA TypesSay ==
  ASSUME SchemaInv
  PROVE  /\ disk \in H!FileShapes /\ H!SoundFile(disk)
         /\ open \in Opens /\ opened \in Pasts
BY DEF SchemaInv, SchemaTypes, H!SoundFile

LEMMA BeginKeeps == SchemaInv /\ H!Begin => SchemaInv'
<1> SUFFICES ASSUME SchemaInv, H!Begin PROVE SchemaInv'
  OBVIOUS
<1> USE DEF pc
<1>1. /\ open' = [H!Closed EXCEPT !.pc = "version", !.fresh = ~disk.exists]
      /\ disk' = [disk EXCEPT !.exists = TRUE] /\ open.pc = "closed"
      /\ opened' = [opened EXCEPT !.was = disk, !.wrote = FALSE, !.opens = @ + 1]
  BY DEF H!Begin
<1>2. SchemaTypes'
  <2>1. disk' \in H!FileShapes
    BY <1>1, TypesSay DEF H!FileShapes
  <2>2. H!SoundFile(disk)'
    BY <1>1, <2>1, TypesSay DEF H!SoundFile, H!FileShapes
  <2>3. opened' \in Pasts
    <3>1. opened.cut \in SUBSET H!Steps /\ opened.opens \in Nat /\ opened.faults \in Nat
      BY TypesSay DEF Pasts
    <3>2. opened' = [was |-> disk, wrote |-> FALSE, cut |-> opened.cut, opens |-> opened.opens + 1,
                     faults |-> opened.faults]
      BY <1>1, TypesSay DEF Pasts
    <3> QED
      BY <3>1, <3>2, TypesSay DEF Pasts
  <2>4. disk.exists \in BOOLEAN
    BY TypesSay DEF H!FileShapes
  <2>5. open' = [pc |-> "version", from |-> 0, base |-> 0, seeded |-> FALSE, before |-> {}, applied |-> {},
                 fresh |-> ~disk.exists, noop |-> FALSE]
    BY <1>1 DEF H!Closed
  <2> QED
    BY <2>2, <2>3, <2>4, <2>5 DEF SchemaTypes, H!Steps, Opens
<1>3. /\ pc' = "version" /\ rows5' = rows5 /\ Recorded' = Recorded
      /\ opened'.was = disk /\ opened'.wrote = FALSE /\ opened'.cut = opened.cut
      /\ disk'.has = disk.has /\ open'.applied = {}
  BY <1>1, TypesSay DEF Pasts, H!FileShapes, H!Closed, Recorded, rows5
<1>4. NotCut'
  BY <1>1, <1>3 DEF SchemaInv, NotCut
<1> QED
  BY <1>2, <1>3, <1>4 DEF SchemaInv, Seeding, Noted, Traced, Reached, rows5, H!Steps

LEMMA VersionKeeps == SchemaInv /\ H!Version => SchemaInv'
<1> SUFFICES ASSUME SchemaInv, H!Version PROVE SchemaInv'
  OBVIOUS
<1> USE DEF pc
<1> DEFINE b == H!Baseline(disk.user)
           to == CASE disk.user > schemaVersion -> "failed"
                   [] disk.user = schemaVersion /\ H!AtLatest -> "stamp"
                   [] OTHER -> "baseline"
<1>1. /\ open' = [open EXCEPT !.from = disk.user, !.base = b, !.pc = to]
      /\ UNCHANGED <<disk, opened>> /\ open.pc = "version"
  BY DEF H!Version
<1>2. disk.user \in Nat /\ b \in Nat /\ schemaVersion = 5
  BY TypesSay, FiveMigrations DEF H!FileShapes, H!Baseline
<1>3. /\ disk.user > 5 => to = "failed"
      /\ disk.user = 5 /\ H!AtLatest => to = "stamp"
      /\ disk.user <= 5 /\ ~(disk.user = 5 /\ H!AtLatest) => to = "baseline"
  BY <1>2
<1>4. to \in {"failed", "stamp", "baseline"}
  BY <1>2, <1>3
<1> HIDE DEF to, b
<1>5. SchemaTypes'
  BY <1>1, <1>2, <1>4, TypesSay DEF SchemaTypes, Opens, H!Steps, H!SoundFile
<1>6. /\ pc' = to /\ rows5' = rows5 /\ Recorded' = Recorded /\ open'.base = b
      /\ open'.applied = open.applied /\ open'.before = open.before /\ open'.noop = open.noop
  BY <1>1, TypesSay DEF Opens, Recorded, rows5
<1>7. to = "stamp" => H!Migrations \subseteq rows5 /\ disk.has = H!Migrations
  BY <1>2, <1>3, <1>4, TypesSay, FiveMigrations DEF H!AtLatest, rows5, H!SoundFile, H!FileShapes
<1>8. to = "stamp" => Recorded
  BY <1>7, FiveMigrations DEF Recorded
<1>9. Seeding'
  <2>1. H!Baseline(disk.user)' = b
    BY <1>1 DEF H!Baseline, b
  <2> QED
    BY <1>1, <1>2, <1>3, <1>4, <1>6, <2>1 DEF Seeding, H!Steps
<1>10. NotCut'
  BY <1>1, <1>4, <1>6, <1>8 DEF SchemaInv, NotCut
<1>11. Noted' /\ Traced' /\ Reached'
  BY <1>1, <1>2, <1>3, <1>4, <1>6, <1>7 DEF SchemaInv, Noted, Traced, Reached
<1> QED
  BY <1>5, <1>9, <1>10, <1>11 DEF SchemaInv

LEMMA MakeTableKeeps == SchemaInv /\ H!MakeTable => SchemaInv'
<1> SUFFICES ASSUME SchemaInv, H!MakeTable PROVE SchemaInv'
  OBVIOUS
<1> USE DEF pc
<1>1. open.pc = "baseline" /\ open.base = H!Baseline(disk.user) /\ disk.user <= 5 /\ ~opened.wrote
  BY DEF H!MakeTable, SchemaInv, Seeding, Noted, H!Steps
<1>2. /\ open.base \in 0 .. 5 /\ 1 .. open.base \subseteq disk.has
      /\ Alters \cap disk.has \subseteq 1 .. open.base
  BY <1>1, BaselineHolds, TypesSay
<1>3. CASE open.base = 0
  <2>1. UNCHANGED <<disk, opened>> /\ open' = [open EXCEPT !.pc = "up"]
    BY <1>3 DEF H!MakeTable, H!Goto
  <2>2. Recorded /\ SchemaTypes'
    BY <1>2, <1>3, <2>1, TypesSay DEF SchemaTypes, Opens, H!Steps, H!SoundFile, Recorded
  <2>3. open'.pc = "up" /\ rows5' = rows5 /\ Recorded'
    BY <2>1, <2>2, TypesSay DEF Opens, rows5, Recorded
  <2> QED
    BY <1>1, <2>1, <2>2, <2>3 DEF SchemaInv, Seeding, NotCut, Noted, Traced, Reached, H!Steps
<1>4. CASE open.base # 0
  <2> DEFINE to == IF rows5 = {} THEN "seed" ELSE "up"
  <2>1. /\ disk' = [disk EXCEPT !.goose.is = TRUE]
        /\ open' = [open EXCEPT !.seeded = (rows5 = {}), !.pc = to]
        /\ opened' = IF disk.goose.is THEN opened ELSE [opened EXCEPT !.wrote = TRUE]
    BY <1>4 DEF H!MakeTable, H!Writes, rows5
  <2>2. /\ disk' \in H!FileShapes /\ disk'.has = disk.has /\ disk'.user = disk.user
        /\ disk'.goose.is /\ rows5' = rows5
    BY <2>1, TypesSay DEF H!FileShapes, rows5
  <2>3. opened' \in Pasts /\ opened'.was = opened.was /\ opened'.cut = opened.cut
    BY <2>1, TypesSay DEF Pasts
  <2>4. opened'.wrote => opened.wrote \/ ~disk.goose.is
    BY <2>1, TypesSay DEF Pasts
  <2> HIDE DEF to
  <2>5. /\ open' \in Opens /\ open'.pc = to /\ open'.base = open.base /\ open'.seeded = (rows5 = {})
        /\ to = (IF rows5 = {} THEN "seed" ELSE "up")
    BY <2>1, TypesSay DEF Opens, to, H!Steps
  <2>6. ~disk.goose.is => rows5 = {}
    BY TypesSay DEF H!SoundFile, rows5
  <2>7. SchemaTypes'
    BY <2>2, <2>3, <2>5, TypesSay DEF SchemaTypes, H!SoundFile, rows5
  <2>8. Seeding'
    <3>1. \E n \in 0 .. open.base + 1 : {} = 0 .. n - 1
      BY <1>2
    <3>2. H!Baseline(disk.user)' = H!Baseline(disk.user)
      BY <2>2 DEF H!Baseline
    <3>3. open.base >= 1
      BY <1>2, <1>4
    <3> QED
      BY <1>1, <2>2, <2>5, <3>1, <3>2, <3>3 DEF Seeding
  <2>9. NotCut' /\ Noted' /\ Traced' /\ Reached'
    BY <1>1, <2>2, <2>3, <2>4, <2>5, <2>6 DEF SchemaInv, NotCut, Noted, Traced, Reached, Recorded
  <2> QED
    BY <2>7, <2>8, <2>9 DEF SchemaInv
<1> QED
  BY <1>3, <1>4

LEMMA SameCardinality == \A Some : H!Cardinality(Some) = Cardinality(Some)
BY DEF H!Cardinality, Cardinality

LEMMA SeedKeeps == SchemaInv /\ H!Seed => SchemaInv'
<1> SUFFICES ASSUME SchemaInv, H!Seed PROVE SchemaInv'
  OBVIOUS
<1> USE DEF pc
<1>1. /\ open.pc = "seed" /\ open.base = H!Baseline(disk.user) /\ disk.user <= 5
      /\ open.seeded /\ disk.goose.is /\ open.base >= 1
  BY DEF H!Seed, SchemaInv, Seeding, H!Steps
<1>2. /\ open.base \in 0 .. 5 /\ 1 .. open.base \subseteq disk.has
      /\ Alters \cap disk.has \subseteq 1 .. open.base
  BY <1>1, BaselineHolds, TypesSay
<1>3. PICK n \in 0 .. open.base + 1 : rows5 = 0 .. n - 1
  BY <1>1 DEF SchemaInv, Seeding
<1>4. H!Cardinality(rows5) = n
  BY <1>2, <1>3, FS_Interval, SameCardinality
<1>5. CASE n > open.base
  <2>1. UNCHANGED <<disk, opened>> /\ open' = [open EXCEPT !.pc = "up"]
    BY <1>4, <1>5 DEF H!Seed, H!Goto, rows5
  <2>2. Recorded /\ SchemaTypes'
    BY <1>2, <1>3, <1>5, <2>1, TypesSay DEF SchemaTypes, Opens, H!Steps, H!SoundFile, Recorded
  <2>3. open'.pc = "up" /\ open'.seeded = open.seeded /\ rows5' = rows5 /\ Recorded'
    BY <2>1, <2>2, TypesSay DEF Opens, rows5, Recorded
  <2> QED
    BY <1>1, <2>1, <2>2, <2>3 DEF SchemaInv, Seeding, NotCut, Noted, Traced, Reached, H!Steps
<1>6. CASE n <= open.base
  <2>1. /\ disk' = [disk EXCEPT !.goose.rows = @ \cup {n}] /\ open' = open
        /\ opened' = [opened EXCEPT !.wrote = TRUE]
    BY <1>2, <1>4, <1>6 DEF H!Seed, H!Writes, rows5
  <2>2. n \in 0 .. 5 /\ n \in disk.has \cup {0} /\ schemaVersion = 5
    BY <1>2, <1>6, FiveMigrations
  <2>3. /\ disk' \in H!FileShapes /\ disk'.has = disk.has /\ disk'.user = disk.user
        /\ disk'.goose.is /\ rows5' = rows5 \cup {n}
    BY <1>1, <2>1, <2>2, TypesSay DEF H!FileShapes, rows5
  <2>4. opened' \in Pasts /\ opened'.was = opened.was /\ opened'.cut = opened.cut
    BY <2>1, TypesSay DEF Pasts
  <2>5. SchemaTypes'
    BY <2>1, <2>2, <2>3, <2>4, TypesSay DEF SchemaTypes, H!SoundFile, rows5
  <2>6. Seeding'
    <3>1. rows5' = 0 .. (n + 1) - 1 /\ n + 1 \in 0 .. open.base + 1
      BY <1>2, <1>3, <1>6, <2>3
    <3>2. H!Baseline(disk.user)' = H!Baseline(disk.user)
      BY <2>3 DEF H!Baseline
    <3> QED
      BY <1>1, <2>1, <2>3, <3>1, <3>2 DEF Seeding
  <2>7. NotCut' /\ Noted' /\ Traced' /\ Reached'
    BY <1>1, <2>1, <2>3, <2>4 DEF SchemaInv, NotCut, Noted, Traced, Reached
  <2> QED
    BY <2>5, <2>6, <2>7 DEF SchemaInv
<1> QED
  BY <1>2, <1>5, <1>6

LEMMA UpKeeps == SchemaInv /\ H!Up => SchemaInv'
<1> SUFFICES ASSUME SchemaInv, H!Up PROVE SchemaInv'
  OBVIOUS
<1> USE DEF pc
<1>1. /\ open.pc = "up" /\ open' = [open EXCEPT !.before = rows5, !.pc = "migrate"]
      /\ disk.user <= 5
  BY DEF H!Up, SchemaInv, Seeding, H!Steps, rows5
<1>2. rows5 \in SUBSET (0 .. 5) /\ schemaVersion = 5
  BY TypesSay, FiveMigrations DEF H!FileShapes, rows5
<1>3. open' \in Opens /\ open'.pc = "migrate" /\ open'.before = rows5 /\ open'.seeded = open.seeded
  BY <1>1, <1>2, TypesSay DEF Opens, H!Steps
<1>4. CASE disk.goose.is
  <2>1. UNCHANGED <<disk, opened>>
    BY <1>4 DEF H!Up
  <2>2. rows5' = rows5 /\ (Recorded' <=> Recorded)
    BY <2>1 DEF rows5, Recorded
  <2>3. SchemaTypes'
    BY <1>3, <2>1, TypesSay DEF SchemaTypes, H!SoundFile
  <2> QED
    BY <1>1, <1>3, <1>4, <2>1, <2>2, <2>3 DEF SchemaInv, Seeding, NotCut, Noted, Traced, Reached
<1>5. CASE ~disk.goose.is
  <2>1. /\ disk' = [disk EXCEPT !.goose = [is |-> TRUE, rows |-> {0}]]
        /\ opened' = [opened EXCEPT !.wrote = TRUE]
    BY <1>5 DEF H!Up, H!Writes
  <2>2. rows5 = {}
    BY <1>5, TypesSay DEF H!SoundFile, rows5
  <2>3. /\ disk' \in H!FileShapes /\ disk'.has = disk.has /\ disk'.user = disk.user
        /\ disk'.goose.is /\ rows5' = {0}
    <3>1. [is |-> TRUE, rows |-> {0}] \in [is : BOOLEAN, rows : SUBSET (0 .. schemaVersion)]
      BY <1>2
    <3> QED
      BY <2>1, <3>1, TypesSay DEF H!FileShapes, rows5
  <2>4. opened' \in Pasts /\ opened'.was = opened.was /\ opened'.cut = opened.cut
    BY <2>1, TypesSay DEF Pasts
  <2>5. SchemaTypes'
    BY <1>3, <2>3, <2>4, TypesSay DEF SchemaTypes, H!SoundFile, rows5
  <2>6. NotCut'
    BY <1>1, <1>3, <2>2, <2>3, <2>4 DEF SchemaInv, NotCut, Recorded
  <2>7. ~(H!Migrations \subseteq open'.before)
    BY <1>3, <2>2, FiveMigrations
  <2> QED
    BY <1>1, <1>3, <2>2, <2>3, <2>4, <2>5, <2>6, <2>7 DEF SchemaInv, Seeding, Noted, Traced, Reached
<1> QED
  BY <1>4, <1>5

LEMMA LeastPending ==
  ASSUME NEW Some \in SUBSET (1 .. 5), Some # {}
  PROVE  \E x \in Some : \A y \in Some : x <= y
<1>1. CASE 1 \in Some
  BY <1>1
<1>2. CASE 1 \notin Some /\ 2 \in Some
  BY <1>2
<1>3. CASE 1 \notin Some /\ 2 \notin Some /\ 3 \in Some
  BY <1>3
<1>4. CASE 1 \notin Some /\ 2 \notin Some /\ 3 \notin Some
  <2>1. Some \subseteq {4, 5}
    BY <1>4
  <2>2. CASE 4 \in Some
    BY <2>1, <2>2
  <2>3. CASE 4 \notin Some
    <3>1. Some = {5}
      BY <2>1, <2>3
    <3> QED
      BY <3>1
  <2> QED
    BY <2>2, <2>3
<1> QED
  BY <1>1, <1>2, <1>3, <1>4

LEMMA MigrateKeeps == SchemaInv /\ H!Migrate => SchemaInv'
<1> SUFFICES ASSUME SchemaInv, H!Migrate PROVE SchemaInv'
  OBVIOUS
<1> USE DEF pc
<1>1. /\ open.pc = "migrate" /\ disk.user <= 5 /\ disk.goose.is
      /\ opened.was.goose.rows \subseteq open.before /\ open.before \subseteq rows5
      /\ disk.has \ opened.was.has \subseteq rows5 \ open.before
      /\ opened.wrote => open.seeded \/ ~(H!Migrations \subseteq open.before)
  BY DEF H!Migrate, SchemaInv, Seeding, Noted, Traced, H!Steps
<1>2. /\ rows5 \in SUBSET (0 .. 5) /\ rows5 \subseteq disk.has \cup {0} /\ disk.has \subseteq H!Migrations
      /\ schemaVersion = 5 /\ H!Migrations = 1 .. 5 /\ \A v \in disk.has : 1 .. v \subseteq disk.has
  BY TypesSay, FiveMigrations DEF H!FileShapes, H!SoundFile, rows5
<1>3. H!Pending = {v \in 1 .. 5 : v \notin rows5}
  BY <1>2 DEF H!Pending, rows5
<1>4. CASE H!Pending = {}
  <2> DEFINE as == (rows5 \ open.before) \ {0}
  <2>1. /\ open' = [open EXCEPT !.applied = as, !.pc = "stamp"] /\ UNCHANGED <<disk, opened>>
    BY <1>4 DEF H!Migrate, rows5
  <2>2. open' \in Opens /\ open'.pc = "stamp" /\ open'.applied = as /\ open'.seeded = open.seeded
    BY <1>2, <2>1, TypesSay DEF Opens, H!Steps
  <2>3. rows5' = rows5 /\ (Recorded' <=> Recorded)
    BY <2>1 DEF rows5, Recorded
  <2>4. SchemaTypes'
    BY <2>1, <2>2, TypesSay DEF SchemaTypes, H!SoundFile
  <2>5. H!Migrations \subseteq rows5 /\ disk.has = H!Migrations
    BY <1>2, <1>3, <1>4
  <2>6. Noted'
    BY <1>1, <1>2, <2>1, <2>2, <2>5 DEF Noted
  <2>7. Traced'
    BY <1>1, <1>2, <2>1, <2>2 DEF Traced
  <2>8. Seeding' /\ NotCut' /\ Reached'
    BY <1>1, <2>1, <2>2, <2>3, <2>5 DEF SchemaInv, Seeding, NotCut, Reached
  <2> QED
    BY <2>4, <2>6, <2>7, <2>8 DEF SchemaInv
<1>5. CASE H!Pending # {}
  <2> DEFINE v == CHOOSE x \in H!Pending : \A y \in H!Pending : x <= y
  <2>1. v \in H!Pending /\ \A y \in H!Pending : v <= y
    BY <1>3, <1>5, LeastPending
  <2>2. IF H!Runs(v)
        THEN /\ disk' = [disk EXCEPT !.has = @ \cup {v}, !.goose.rows = @ \cup {v}]
             /\ opened' = [opened EXCEPT !.wrote = TRUE] /\ open' = open
        ELSE open' = [open EXCEPT !.pc = "failed"] /\ UNCHANGED <<disk, opened>>
    BY <1>5 DEF H!Migrate, H!Writes, H!Goto
  <2> HIDE DEF v
  <2>3. v \in 1 .. 5 /\ v \notin rows5 /\ 1 .. v - 1 \subseteq rows5 /\ 1 .. v - 1 \subseteq disk.has
    BY <1>2, <1>3, <2>1
  <2>4. CASE H!Runs(v)
    <3>1. disk' = [disk EXCEPT !.has = @ \cup {v}, !.goose.rows = @ \cup {v}]
      BY <2>2, <2>4
    <3>2. opened' = [opened EXCEPT !.wrote = TRUE] /\ open' = open
      BY <2>2, <2>4
    <3>3. /\ disk' \in H!FileShapes /\ disk'.has = disk.has \cup {v} /\ disk'.user = disk.user
          /\ disk'.goose.is = disk.goose.is /\ rows5' = rows5 \cup {v}
      <4> DEFINE g == [disk.goose EXCEPT !.rows = @ \cup {v}]
      <4>1. /\ disk.goose.is \in BOOLEAN /\ disk.goose = [is |-> disk.goose.is, rows |-> rows5]
            /\ disk.exists \in BOOLEAN /\ disk.user \in Nat /\ disk.private \in BOOLEAN
            /\ disk = [exists |-> disk.exists, user |-> disk.user, has |-> disk.has, goose |-> disk.goose,
                       private |-> disk.private]
        BY TypesSay DEF H!FileShapes, rows5
      <4>2. disk.has \cup {v} \in SUBSET H!Migrations /\ rows5 \cup {v} \in SUBSET (0 .. schemaVersion)
        BY <1>2, <2>3
      <4>3. g = [is |-> disk.goose.is, rows |-> rows5 \cup {v}]
        BY <4>1 DEF rows5
      <4>4. disk' = [exists |-> disk.exists, user |-> disk.user, has |-> disk.has \cup {v}, goose |-> g,
                     private |-> disk.private]
        BY <3>1, <4>1
      <4> QED
        BY <4>1, <4>2, <4>3, <4>4 DEF H!FileShapes, rows5
    <3>4. opened' \in Pasts /\ opened'.was = opened.was /\ opened'.cut = opened.cut
      BY <3>2, TypesSay DEF Pasts
    <3>5. H!SoundFile(disk)'
      <4>1. \A w \in disk'.has : 1 .. w \subseteq disk'.has
        BY <1>2, <2>3, <3>3
      <4>2. disk.user <= schemaVersion => 1 .. disk.user \subseteq disk.has
        BY TypesSay DEF H!SoundFile
      <4>3. disk'.goose.is
        BY <1>1, <3>3
      <4>4. rows5 \cup {v} \subseteq (disk.has \cup {v}) \cup {0}
        BY <1>2
      <4>5. 1 .. disk.user \subseteq disk.has => 1 .. disk.user \subseteq disk.has \cup {v}
        OBVIOUS
      <4> QED
        BY <3>3, <4>1, <4>2, <4>3, <4>4, <4>5 DEF H!SoundFile, rows5
    <3>6. Noted' /\ Traced'
      BY <1>1, <1>2, <2>3, <3>2, <3>3, <3>4 DEF Noted, Traced
    <3>7. Seeding' /\ NotCut' /\ Reached'
      BY <1>1, <3>2, <3>3, <3>4 DEF SchemaInv, Seeding, NotCut, Reached, Recorded
    <3> QED
      BY <3>2, <3>4, <3>5, <3>6, <3>7, TypesSay DEF SchemaInv, SchemaTypes
  <2>5. CASE ~H!Runs(v)
    <3>1. open' = [open EXCEPT !.pc = "failed"] /\ UNCHANGED <<disk, opened>>
      BY <2>2, <2>5
    <3>2. v \in Alters /\ (v \in disk.has \/ ([x \in {3, 5} |-> IF x = 3 THEN 2 ELSE 1])[v] \notin disk.has)
      BY <2>5 DEF H!Runs
    <3>3. "seed" \in opened.cut
      BY <1>1, <2>3, <3>2, FiveMigrations DEF SchemaInv, NotCut, Recorded
    <3>4. open' \in Opens /\ open'.pc = "failed"
      BY <3>1, TypesSay DEF Opens
    <3>5. SchemaTypes'
      BY <3>1, <3>4, TypesSay DEF SchemaTypes, H!SoundFile
    <3> QED
      BY <3>1, <3>3, <3>4, <3>5 DEF SchemaInv, Seeding, NotCut, Noted, Traced, Reached, H!Steps
  <2> QED
    BY <2>4, <2>5
<1> QED
  BY <1>4, <1>5

LEMMA StampKeeps == SchemaInv /\ H!Stamp => SchemaInv'
<1> SUFFICES ASSUME SchemaInv, H!Stamp PROVE SchemaInv'
  OBVIOUS
<1> USE DEF pc
<1> DEFINE quiet == ~open.fresh /\ open.applied = {} /\ ~open.seeded
<1>1. /\ open.pc = "stamp" /\ open' = [open EXCEPT !.noop = quiet, !.pc = "mode"]
      /\ disk' = [disk EXCEPT !.user = schemaVersion] /\ opened' = opened
  BY DEF H!Stamp
<1>2. schemaVersion = 5 /\ disk.has = H!Migrations /\ H!Migrations = 1 .. 5 /\ H!Migrations \subseteq rows5
  BY <1>1, FiveMigrations DEF SchemaInv, Reached
<1>3. /\ disk' \in H!FileShapes /\ disk'.has = disk.has /\ disk'.user = 5
      /\ disk'.goose = disk.goose /\ rows5' = rows5
  BY <1>1, <1>2, TypesSay DEF H!FileShapes, rows5
<1>4. quiet \in BOOLEAN
  OBVIOUS
<1>5. open' \in Opens /\ open'.pc = "mode" /\ open'.applied = open.applied /\ open'.noop = quiet
  BY <1>1, <1>4, TypesSay DEF Opens, H!Steps
<1>6. SchemaTypes'
  BY <1>1, <1>2, <1>3, <1>5, TypesSay DEF SchemaTypes, H!SoundFile
<1>7. Seeding' /\ NotCut' /\ Reached'
  BY <1>1, <1>2, <1>3, <1>5 DEF SchemaInv, Seeding, NotCut, Reached, Recorded
<1>8. Noted' /\ Traced'
  BY <1>1, <1>3, <1>5 DEF SchemaInv, Noted, Traced
<1> QED
  BY <1>6, <1>7, <1>8 DEF SchemaInv

LEMMA ModeKeeps == SchemaInv /\ H!Mode => SchemaInv'
<1> SUFFICES ASSUME SchemaInv, H!Mode PROVE SchemaInv'
  OBVIOUS
<1> USE DEF pc
<1>1. /\ open.pc = "mode" /\ open' = [open EXCEPT !.pc = "open"]
      /\ disk' = [disk EXCEPT !.private = TRUE] /\ opened' = opened
  BY DEF H!Mode, H!Goto
<1>2. /\ disk' \in H!FileShapes /\ disk'.has = disk.has /\ disk'.user = disk.user
      /\ disk'.goose = disk.goose /\ rows5' = rows5 /\ disk'.private = TRUE
  BY <1>1, TypesSay DEF H!FileShapes, rows5
<1>3. open' \in Opens /\ open'.pc = "open" /\ open'.applied = open.applied /\ open'.noop = open.noop
  BY <1>1, TypesSay DEF Opens
<1>4. SchemaTypes'
  BY <1>1, <1>2, <1>3, TypesSay DEF SchemaTypes, H!SoundFile
<1>5. Seeding' /\ NotCut' /\ Reached'
  BY <1>1, <1>2, <1>3 DEF SchemaInv, Seeding, NotCut, Reached, Recorded, H!Steps
<1>6. Noted' /\ Traced'
  BY <1>1, <1>2, <1>3 DEF SchemaInv, Noted, Traced
<1> QED
  BY <1>4, <1>5, <1>6 DEF SchemaInv

\* An Open that is over, whichever way, leaves only the file.
LEMMA ClosingKeeps ==
  ASSUME SchemaInv, open' = H!Closed \/ open' = [H!Closed EXCEPT !.pc = "broken"], disk' = disk,
         \/ opened' = opened /\ open.pc # "seed"
         \/ open.pc \in H!Steps /\ opened' = [opened EXCEPT !.faults = @ + 1, !.cut = @ \cup {open.pc}]
  PROVE  SchemaInv'
<1> USE DEF pc
<1>1. open' \in Opens /\ open'.pc \in {"closed", "broken"}
  <2>1. PICK p \in {"closed", "broken"} :
          open' = [pc |-> p, from |-> 0, base |-> 0, seeded |-> FALSE, before |-> {}, applied |-> {},
                   fresh |-> FALSE, noop |-> FALSE]
    BY DEF H!Closed
  <2> QED
    BY <2>1 DEF Opens
<1>2. opened' \in Pasts
  <2>1. opened.faults + 1 \in Nat /\ (open.pc \in H!Steps => opened.cut \cup {open.pc} \in SUBSET H!Steps)
    BY TypesSay DEF Pasts
  <2> QED
    BY <2>1, TypesSay DEF Pasts
<1>3. "seed" \notin opened'.cut => "seed" \notin opened.cut /\ open.pc # "seed"
  BY ZenonT(60), TypesSay DEF Pasts
<1>4. rows5' = rows5 /\ (Recorded' <=> Recorded)
  BY DEF rows5, Recorded
<1>5. SchemaTypes'
  BY <1>1, <1>2, TypesSay DEF SchemaTypes, H!SoundFile
<1>6. NotCut'
  BY <1>1, <1>3, <1>4 DEF SchemaInv, NotCut
<1> QED
  BY <1>1, <1>5, <1>6 DEF SchemaInv, Seeding, Noted, Traced, Reached, H!Steps

LEMMA SchemaStep == SchemaInv /\ [H!SchemaNext]_schemaVars => SchemaInv'
<1> SUFFICES ASSUME SchemaInv, [H!SchemaNext]_schemaVars PROVE SchemaInv'
  OBVIOUS
<1>1. CASE \E p \in {"closed", "broken"} : H!Cut(p)
  <2>1. H!Closed = [H!Closed EXCEPT !.pc = "closed"]
    BY DEF H!Closed
  <2> QED
    BY <1>1, <2>1, ClosingKeeps DEF H!Cut
<1>2. CASE H!End \/ (open.pc = "broken" /\ open' = H!Closed /\ UNCHANGED <<disk, opened>>)
  BY <1>2, ClosingKeeps DEF H!End
<1>3. CASE UNCHANGED schemaVars
  BY <1>3 DEF schemaVars, SchemaInv, SchemaTypes, Seeding, NotCut, Noted, Traced, Reached, pc, rows5, Recorded,
               H!SoundFile, H!Baseline
<1> QED
  BY <1>1, <1>2, <1>3, BeginKeeps, VersionKeeps, MakeTableKeeps, SeedKeeps, UpKeeps, MigrateKeeps, StampKeeps, ModeKeeps
     DEF H!SchemaNext

LEMMA SchemaSteps ==
  office = "schema" /\ [OfficeNext]_wholeVars => [H!SchemaNext]_schemaVars
BY DEF OfficeNext, wholeVars, OStep, PStep, MStep, KStep, LStep, HStep, CStep,
       configVars, probeVars, streakVars, storeVars, ledgerVars, schemaVars, carryVars, fileVars, keptVars

LEMMA OfficeStays ==
  /\ office = "schema" /\ [OfficeNext]_wholeVars => (office = "schema")'
  /\ office # "schema" /\ [OfficeNext]_wholeVars => (office # "schema")'
BY DEF OfficeNext, wholeVars

\* Whatever file an earlier release left, whichever statements failed and wherever the
\* process ended, an Open that succeeds (store/store.go, OpenWithStatus) leaves the whole
\* schema, recorded, stamped and private; it says that it changed nothing only when it wrote
\* nothing, and names what it ran; and a file is beyond opening only when it is newer, or
\* when an Open ended while it recorded the baseline.
THEOREM SchemaIsWhole == OfficeSpec => []SchemaConverges
<1> DEFINE Whole == office = "schema" => SchemaInv
<1>1. OfficeInit => Whole
  BY SchemaStarts DEF OfficeInit
<1>2. Whole /\ [OfficeNext]_wholeVars => Whole'
  BY OfficeStays, SchemaSteps, SchemaStep
<1>3. Whole => SchemaConverges
  <2> SUFFICES ASSUME office = "schema", SchemaInv PROVE H!SchemaConverges
    BY DEF SchemaConverges
  <2>1. H!OpenIsWhole
    BY FiveMigrations DEF SchemaInv, Noted, Traced, Reached, pc, rows5, H!OpenIsWhole
  <2>2. H!NeverStuck
    BY FiveMigrations DEF SchemaInv, Reached, pc, H!NeverStuck
  <2> QED
    BY <2>1, <2>2 DEF H!SchemaConverges
<1> QED
  BY <1>1, <1>2, <1>3, PTL DEF OfficeSpec, wholeVars
-----------------------------------------------------------------------------
(* The row of one account.  A world is the file, the row and what the      *)
(* process remembers; w serves t when what it hands out is t.              *)
Ids == {"s1", "s2", "none"}
RunIds == {"r1", "none"}
Contents == [sess : Ids \cup {"hollow"}, runs : [StoreAgents -> RunIds]]
Truths == [sess : Ids, runs : [StoreAgents -> RunIds]]
Memories == [sess : Ids, runs : [StoreAgents -> RunIds], fetched : BOOLEAN, imported : BOOLEAN, backend : BOOLEAN]
LeftFiles == [kind : {"none", "corrupt", "kept"}, is : Contents]
Worlds == [file : [live : LeftFiles, bak : LeftFiles], row : Contents, mem : Memories]
Mild == {"no", "write", "archive"}

\* A session whose window has closed is as good as none.
Same(s, r, t) == r = t.runs /\ (s = t.sess \/ (s \in kgone \cup {"none"} /\ t.sess \in kgone \cup {"none"}))
Saved(w, t) == Same(S!Clean(w.row).sess, w.row.runs, t)
Settled(w, t) ==
  /\ Same(w.mem.sess, w.mem.runs, t)
  /\ IF w.mem.backend THEN w.mem.fetched /\ ~S!Readable(w.file.live) ELSE w.mem.imported
\* Nothing was read so far, and what will be is t.
Unread(w, t) ==
  /\ w.mem.backend /\ ~w.mem.fetched /\ w.mem.sess = "none" /\ w.mem.runs = S!NoRuns
  /\ ~S!Readable(w.file.live) /\ Saved(w, t)
Unfolded(w, t) ==
  LET c == IF S!Readable(w.file.live) THEN S!Clean(w.file.live.is) ELSE S!Nothing
  IN ~w.mem.backend /\ ~w.mem.imported /\ w.mem.sess = "none" /\ w.mem.runs = S!NoRuns /\ Same(c.sess, c.runs, t)
Serves(w, t) == Settled(w, t) \/ Unread(w, t) \/ Unfolded(w, t)

LEMMA CleanIs ==
  ASSUME NEW c \in Contents
  PROVE  /\ S!Clean(c) \in Truths /\ S!Clean(c).runs = c.runs
         /\ S!Clean(c).sess = IF c.sess = "hollow" THEN "none" ELSE c.sess
         /\ c.sess # "hollow" => S!Clean(c) = c
BY DEF S!Clean, S!Hollow, S!None, Contents, Truths, Ids

LEMMA NothingIs == S!Nothing = [sess |-> "none", runs |-> S!NoRuns] /\ S!NoRuns \in [StoreAgents -> RunIds] /\ S!Nothing \in Truths
BY DEF S!Nothing, S!NoRuns, S!None, Truths, Ids, RunIds

\* The first look folds the file in, and changes nothing of a row that it does not
\* have to change.
LEMMA FoldServes ==
  ASSUME NEW w \in Worlds, NEW t \in Truths, NEW fault \in Mild, Serves(w, t)
  PROVE  LET f == S!Fold(w, fault)
         IN f \in Worlds /\ f.row = w.row /\ f.mem.backend = w.mem.backend /\ (Settled(f, t) \/ Unread(f, t))
            /\ (Settled(w, t) => Settled(f, t))
<1> DEFINE f == S!Fold(w, fault)
           c == S!Clean(w.file.live.is)
<1>0. /\ w.file \in [live : LeftFiles, bak : LeftFiles] /\ w.row \in Contents /\ w.mem \in Memories
      /\ w.file.live \in LeftFiles /\ w.file.live.is \in Contents /\ c \in Truths
      /\ fault # "file" /\ fault # "read"
  BY CleanIs DEF Worlds, LeftFiles, Mild
<1>1. CASE w.mem.imported
  <2>1. f = w
    BY <1>1 DEF S!Fold
  <2> QED
    BY <1>1, <2>1 DEF Serves, Unfolded
<1>2. CASE ~w.mem.imported /\ ~(S!Readable(w.file.live) /\ c # S!Nothing)
  <2>1. ~(S!Readable(w.file.live) /\ w.mem.backend)
    BY <1>2 DEF Serves, Settled, Unread, Unfolded
  <2>2. f = [w EXCEPT !.mem.imported = TRUE]
    BY <1>0, <1>2, <2>1 DEF S!Fold
  <2>3. /\ f \in Worlds /\ f.row = w.row /\ f.file = w.file /\ f.mem.backend = w.mem.backend /\ f.mem.imported
        /\ f.mem.sess = w.mem.sess /\ f.mem.runs = w.mem.runs /\ f.mem.fetched = w.mem.fetched
    BY <1>0, <2>2 DEF Worlds, Memories
  <2>4. CASE Unfolded(w, t)
    <3>1. Same("none", S!NoRuns, t)
      BY <1>2, <2>4, NothingIs DEF Unfolded
    <3> QED
      BY <2>3, <2>4, <3>1 DEF Unfolded, Settled
  <2> QED
    BY <2>3, <2>4, <1>2 DEF Serves, Settled, Unread, Saved
<1>3. CASE ~w.mem.imported /\ S!Readable(w.file.live) /\ c # S!Nothing
  <2>1. Unfolded(w, t) /\ ~w.mem.backend
    BY <1>3 DEF Serves, Settled, Unread, Unfolded
  <2>2. f = [w EXCEPT !.mem = [S!Kept(w.mem, c) EXCEPT !.fetched = TRUE]]
    <3>1. f = [[w EXCEPT !.mem = S!Kept(@, c)] EXCEPT !.mem.fetched = TRUE]
      BY <1>0, <1>3, <2>1 DEF S!Fold
    <3> QED
      BY <1>0, <3>1 DEF Worlds
  <2>3. /\ S!Kept(w.mem, c) \in Memories /\ S!Kept(w.mem, c).imported /\ ~S!Kept(w.mem, c).backend
        /\ S!Kept(w.mem, c).sess = c.sess /\ S!Kept(w.mem, c).runs = c.runs
    BY <1>0, <2>1 DEF S!Kept, S!None, Memories, Truths, Unfolded
  <2>4. f.mem = [S!Kept(w.mem, c) EXCEPT !.fetched = TRUE] /\ f.row = w.row /\ f.file = w.file
    BY <2>2 DEF Worlds
  <2>5. /\ f.mem \in Memories /\ ~f.mem.backend /\ f.mem.imported /\ f.mem.sess = c.sess /\ f.mem.runs = c.runs
    BY <2>3, <2>4 DEF Memories
  <2>6. f \in Worlds
    BY <1>0, <2>2, <2>4, <2>5 DEF Worlds
  <2>7. Same(c.sess, c.runs, t)
    BY <1>3, <2>1 DEF Unfolded
  <2>8. Settled(f, t)
    BY <2>5, <2>7 DEF Settled
  <2> QED
    BY <1>0, <2>1, <2>4, <2>5, <2>6, <2>8 DEF Memories, Settled
<1> QED
  BY <1>1, <1>2, <1>3

LEMMA FetchServes ==
  ASSUME NEW f \in Worlds, NEW t \in Truths, NEW fault \in Mild, Settled(f, t) \/ Unread(f, t)
  PROVE  LET v == S!Fetch(f, fault)
         IN v \in Worlds /\ v.row = f.row /\ v.mem.backend = f.mem.backend /\ Settled(v, t)
<1> DEFINE v == S!Fetch(f, fault)
           c == S!Clean(f.row)
<1>0. f.row \in Contents /\ f.mem \in Memories /\ c \in Truths /\ c.runs = f.row.runs /\ fault # "read"
  BY CleanIs DEF Worlds, Mild
<1>1. CASE Settled(f, t)
  <2>1. v = f
    BY <1>1 DEF Settled, S!Fetch
  <2> QED
    BY <1>1, <2>1
<1>2. CASE Unread(f, t) /\ f.row = S!Nothing
  <2>1. v = [f EXCEPT !.mem.fetched = TRUE]
    BY <1>2 DEF Unread, S!Fetch
  <2>2. /\ v \in Worlds /\ v.row = f.row /\ v.file = f.file /\ v.mem.backend = f.mem.backend /\ v.mem.fetched
        /\ v.mem.sess = "none" /\ v.mem.runs = S!NoRuns
    BY <1>0, <1>2, <2>1 DEF Worlds, Memories, Unread
  <2>3. Same("none", S!NoRuns, t)
    BY <1>2, <1>0, NothingIs, CleanIs DEF Unread, Saved
  <2> QED
    BY <1>2, <2>2, <2>3 DEF Settled, Unread
<1>3. CASE Unread(f, t) /\ f.row # S!Nothing
  <2>1. v = [f EXCEPT !.mem.fetched = TRUE, !.mem.sess = IF c.sess = S!None THEN @ ELSE c.sess,
                      !.mem.runs = IF c.runs = S!NoRuns THEN @ ELSE c.runs]
    BY <1>0, <1>3 DEF Unread, S!Fetch
  <2>2. /\ v.mem = [f.mem EXCEPT !.fetched = TRUE, !.sess = IF c.sess = S!None THEN @ ELSE c.sess,
                                 !.runs = IF c.runs = S!NoRuns THEN @ ELSE c.runs]
        /\ v.row = f.row /\ v.file = f.file
    BY <2>1 DEF Worlds
  <2>3. v.mem \in Memories /\ v.mem.backend = f.mem.backend /\ v.mem.fetched /\ v.mem.sess = c.sess /\ v.mem.runs = c.runs
    BY <1>0, <1>3, <2>2 DEF Memories, Truths, Unread, S!None
  <2>4. v \in Worlds
    BY <1>0, <2>1, <2>2, <2>3 DEF Worlds
  <2> QED
    BY <1>0, <1>3, <2>2, <2>3, <2>4 DEF Settled, Unread, Saved
<1> QED
  BY <1>1, <1>2, <1>3

\* A call that needs to know looks in the row as well.
LEMMA Looked ==
  ASSUME NEW w \in Worlds, NEW t \in Truths, NEW fault \in Mild, Serves(w, t), NEW look \in BOOLEAN,
         Unread(S!Fold(w, fault), t) => look
  PROVE  LET f == S!Fold(w, fault)
             v == IF look THEN S!Fetch(f, fault) ELSE f
         IN v \in Worlds /\ v.row = w.row /\ v.mem.backend = w.mem.backend /\ Settled(v, t)
<1>1. CASE look
  BY <1>1, FoldServes, FetchServes
<1>2. CASE ~look
  BY <1>2, FoldServes
<1> QED
  BY <1>1, <1>2

LEMMA PersistServes ==
  ASSUME NEW v \in Worlds, NEW t \in Truths, NEW fault \in Mild, Settled(v, t)
  PROVE  LET u == S!Persist(v, fault)
         IN u \in Worlds /\ u.mem = v.mem /\ Settled(u, t) /\ (fault = "no" /\ v.mem.backend => Saved(u, t))
<1> DEFINE u == S!Persist(v, fault)
           held == [sess |-> v.mem.sess, runs |-> v.mem.runs]
<1>0. v.mem \in Memories /\ held \in Truths /\ held \in Contents
  BY DEF Worlds, Memories, Truths, Contents, Ids
<1>1. CASE u = v /\ ~(fault = "no" /\ v.mem.backend)
  BY <1>1
<1>2. CASE u = [v EXCEPT !.row = held]
  <2>1. u \in Worlds /\ u.mem = v.mem /\ u.file = v.file /\ u.row = held
    BY <1>0, <1>2 DEF Worlds
  <2>2. S!Clean(u.row).sess = v.mem.sess /\ u.row.runs = v.mem.runs
    BY <1>0, <2>1, CleanIs DEF Truths, Ids
  <2> QED
    BY <2>1, <2>2 DEF Settled, Saved
<1> QED
  BY <1>1, <1>2 DEF S!Persist

\* What a call makes of a world that serves old: one that serves new, and stores it if
\* old was stored and the database answered.
Carries(u, new, w, old, fault) ==
  /\ u \in Worlds /\ Settled(u, new) /\ u.mem.backend = w.mem.backend
  /\ fault = "no" /\ w.mem.backend /\ Saved(w, old) => Saved(u, new)

\* What is told to a settled world and written.
LEMMA ToldServes ==
  ASSUME NEW w \in Worlds, NEW old, NEW new \in Truths, NEW v \in Worlds, NEW m \in Memories, NEW fault \in Mild,
         v.mem.backend = w.mem.backend, m.backend = v.mem.backend, m.imported = v.mem.imported,
         m.fetched \/ (m.fetched = v.mem.fetched), Settled(v, old), Same(m.sess, m.runs, new)
  PROVE  Carries(S!Persist([v EXCEPT !.mem = m], fault), new, w, old, fault)
<1> DEFINE x == [v EXCEPT !.mem = m]
<1>1. x \in Worlds /\ x.mem = m /\ x.file = v.file
  BY DEF Worlds
<1>2. Settled(x, new)
  BY <1>1 DEF Settled
<1> QED
  BY <1>1, <1>2, PersistServes DEF Carries

\* What is left as it is.
LEMMA UntoldServes ==
  ASSUME NEW w \in Worlds, NEW old \in Truths, NEW new \in Truths, NEW v \in Worlds, NEW fault,
         v.mem.backend = w.mem.backend, v.row = w.row, Settled(v, old), new.runs = old.runs,
         new.sess = old.sess \/ (new.sess = "none" /\ old.sess \in kgone \cup {"none"})
  PROVE  Carries(v, new, w, old, fault)
BY DEF Carries, Settled, Saved, Same

LEMMA LoadServes ==
  ASSUME NEW w \in Worlds, NEW t \in Truths, NEW fault \in Mild, Serves(w, t)
  PROVE  Carries(S!AfterLoad(w, fault), t, w, t, fault)
<1> DEFINE f == S!Fold(w, fault)
           v == IF f.mem.sess = S!None THEN S!Fetch(f, fault) ELSE f
           m == [v.mem EXCEPT !.sess = "none"]
<1>1. v \in Worlds /\ v.row = w.row /\ v.mem.backend = w.mem.backend /\ Settled(v, t)
  BY Looked DEF Unread, S!None
<1>2. CASE v.mem.sess \in kgone
  <2>1. [v EXCEPT !.mem.sess = S!None] = [v EXCEPT !.mem = m]
    BY <1>1 DEF Worlds, S!None
  <2>2. /\ m \in Memories /\ m.backend = v.mem.backend /\ m.imported = v.mem.imported /\ m.fetched = v.mem.fetched
        /\ m.sess = "none" /\ m.runs = v.mem.runs
    BY <1>1 DEF Worlds, Memories, Ids
  <2>3. Same(m.sess, m.runs, t)
    BY <1>1, <1>2, <2>2 DEF Settled, Same
  <2>4. S!AfterLoad(w, fault) = S!Persist([v EXCEPT !.mem = m], fault)
    BY <1>2, <2>1 DEF S!AfterLoad
  <2> HIDE DEF f, v, m
  <2> QED
    BY <1>1, <2>2, <2>3, <2>4, ToldServes
<1>3. CASE v.mem.sess \notin kgone
  <2>1. S!AfterLoad(w, fault) = v
    BY <1>3 DEF S!AfterLoad
  <2> HIDE DEF f, v, m
  <2> QED
    BY <1>1, <2>1, UntoldServes
<1> QED
  BY <1>2, <1>3

LEMMA SaveServes ==
  ASSUME NEW w \in Worlds, NEW t \in Truths, NEW fault \in Mild, Serves(w, t), Settled(w, t), NEW s \in Ids
  PROVE  Carries(S!AfterSave(w, s, fault), [t EXCEPT !.sess = s], w, t, fault)
<1> DEFINE f == S!Fold(w, fault)
           m == [f.mem EXCEPT !.fetched = TRUE, !.sess = s]
           new == [t EXCEPT !.sess = s]
<1>1. f \in Worlds /\ f.mem.backend = w.mem.backend /\ Settled(f, t)
  BY FoldServes
<1>2. /\ m \in Memories /\ m.backend = f.mem.backend /\ m.imported = f.mem.imported /\ m.fetched
      /\ m.sess = s /\ m.runs = f.mem.runs
  BY <1>1 DEF Worlds, Memories
<1>3. new \in Truths /\ new.sess = s /\ new.runs = t.runs
  BY DEF Truths
<1>4. Same(m.sess, m.runs, new)
  BY <1>1, <1>2, <1>3 DEF Settled, Same
<1>5. S!AfterSave(w, s, fault) = S!Persist([f EXCEPT !.mem = m], fault)
  <2>1. [f EXCEPT !.mem.fetched = TRUE, !.mem.sess = s] = [f EXCEPT !.mem = m]
    BY <1>1 DEF Worlds
  <2> QED
    BY <2>1 DEF S!AfterSave
<1> HIDE DEF f, m, new
<1>6. Carries(S!AfterSave(w, s, fault), new, w, t, fault)
  BY <1>1, <1>2, <1>3, <1>4, <1>5, ToldServes
<1> QED
  BY <1>6 DEF new

LEMMA RemoveServes ==
  ASSUME NEW w \in Worlds, NEW t \in Truths, NEW fault \in Mild, Serves(w, t), NEW expected \in Ids
  PROVE  Carries(S!AfterRemove(w, expected, fault),
                 [t EXCEPT !.sess = IF expected \in {"none", t.sess} THEN "none" ELSE t.sess], w, t, fault)
<1> DEFINE f == S!Fold(w, fault)
           v == IF f.mem.sess = S!None THEN S!Fetch(f, fault) ELSE f
           m == [v.mem EXCEPT !.sess = "none"]
           new == [t EXCEPT !.sess = IF expected \in {"none", t.sess} THEN "none" ELSE t.sess]
<1>1. v \in Worlds /\ v.row = w.row /\ v.mem.backend = w.mem.backend /\ Settled(v, t)
  BY Looked DEF Unread, S!None
<1>2. /\ new \in Truths /\ new.runs = t.runs
      /\ new.sess = IF expected \in {"none", t.sess} THEN "none" ELSE t.sess
  BY DEF Truths, Ids
<1>3. ~(f.mem.sess = S!None /\ S!Blind(f, fault))
  BY DEF S!Blind, Mild
<1>4. CASE v.mem.sess = "none" \/ expected \notin {"none", v.mem.sess}
  <2>1. S!AfterRemove(w, expected, fault) = v
    BY <1>3, <1>4 DEF S!AfterRemove, S!None
  <2>2. new.sess = t.sess \/ (new.sess = "none" /\ t.sess \in kgone \cup {"none"})
    BY <1>1, <1>2, <1>4 DEF Settled, Same
  <2> HIDE DEF f, v, m, new
  <2>3. Carries(S!AfterRemove(w, expected, fault), new, w, t, fault)
    BY <1>1, <1>2, <2>1, <2>2, UntoldServes
  <2> QED
    BY <2>3 DEF new
<1>5. CASE v.mem.sess # "none" /\ expected \in {"none", v.mem.sess}
  <2>1. [v EXCEPT !.mem.sess = S!None] = [v EXCEPT !.mem = m]
    BY <1>1 DEF Worlds, S!None
  <2>2. /\ m \in Memories /\ m.backend = v.mem.backend /\ m.imported = v.mem.imported /\ m.fetched = v.mem.fetched
        /\ m.sess = "none" /\ m.runs = v.mem.runs
    BY <1>1 DEF Worlds, Memories, Ids
  <2>3. Same(m.sess, m.runs, new)
    BY <1>1, <1>2, <1>5, <2>2 DEF Settled, Same
  <2>4. S!AfterRemove(w, expected, fault) = S!Persist([v EXCEPT !.mem = m], fault)
    BY <1>3, <1>5, <2>1 DEF S!AfterRemove, S!None
  <2> HIDE DEF f, v, m, new
  <2>5. Carries(S!AfterRemove(w, expected, fault), new, w, t, fault)
    BY <1>1, <1>2, <2>2, <2>3, <2>4, ToldServes
  <2> QED
    BY <2>5 DEF new
<1> QED
  BY <1>4, <1>5

LEMMA LoadRunServes ==
  ASSUME NEW w \in Worlds, NEW t \in Truths, NEW fault \in Mild, Serves(w, t), NEW g \in StoreAgents
  PROVE  Carries(S!AfterLoadRun(w, g, fault), t, w, t, fault)
<1> DEFINE f == S!Fold(w, fault)
           v == IF f.mem.runs[g] = S!None THEN S!Fetch(f, fault) ELSE f
<1>1. v \in Worlds /\ v.row = w.row /\ v.mem.backend = w.mem.backend /\ Settled(v, t)
  <2>1. Unread(f, t) => f.mem.runs[g] = S!None
    BY DEF Unread, S!NoRuns
  <2>2. (f.mem.runs[g] = S!None) \in BOOLEAN
    OBVIOUS
  <2> QED
    BY <2>1, <2>2, Looked
<1>2. S!AfterLoadRun(w, g, fault) = v
  BY DEF S!AfterLoadRun
<1> HIDE DEF f, v
<1> QED
  BY <1>1, <1>2, UntoldServes

\* Both calls on one run.
LEMMA RunServes ==
  ASSUME NEW w \in Worlds, NEW t \in Truths, NEW fault \in Mild, NEW g \in StoreAgents, NEW r \in RunIds,
         NEW v \in Worlds, NEW m \in Memories, v.mem.backend = w.mem.backend, Settled(v, t),
         m.backend = v.mem.backend, m.imported = v.mem.imported, m.fetched \/ (m.fetched = v.mem.fetched),
         m.sess = v.mem.sess, m.runs = [v.mem.runs EXCEPT ![g] = r]
  PROVE  Carries(S!Persist([v EXCEPT !.mem = m], fault), [t EXCEPT !.runs[g] = r], w, t, fault)
<1> DEFINE new == [t EXCEPT !.runs[g] = r]
<1>1. new \in Truths /\ new.sess = t.sess /\ new.runs = [t.runs EXCEPT ![g] = r]
  BY DEF Truths
<1>2. Same(m.sess, m.runs, new)
  BY <1>1 DEF Settled, Same
<1> HIDE DEF new
<1>3. Carries(S!Persist([v EXCEPT !.mem = m], fault), new, w, t, fault)
  BY <1>1, <1>2, ToldServes
<1> QED
  BY <1>3 DEF new

LEMMA SaveRunServes ==
  ASSUME NEW w \in Worlds, NEW t \in Truths, NEW fault \in Mild, Serves(w, t), NEW g \in StoreAgents, NEW r \in RunIds
  PROVE  Carries(S!AfterSaveRun(w, g, r, fault), [t EXCEPT !.runs[g] = r], w, t, fault)
<1> DEFINE f == S!Fold(w, fault)
           v == IF f.mem.runs = S!NoRuns THEN S!Fetch(f, fault) ELSE f
<1>1. v \in Worlds /\ v.row = w.row /\ v.mem.backend = w.mem.backend /\ Settled(v, t)
  BY Looked DEF Unread
<1>2. S!AfterSaveRun(w, g, r, fault) = S!Persist([v EXCEPT !.mem.fetched = TRUE, !.mem.runs[g] = r], fault)
  BY DEF S!AfterSaveRun
<1> HIDE DEF f, v
<1> DEFINE m == [v.mem EXCEPT !.fetched = TRUE, !.runs[g] = r]
<1>3. [v EXCEPT !.mem.fetched = TRUE, !.mem.runs[g] = r] = [v EXCEPT !.mem = m]
  BY <1>1 DEF Worlds, Memories
<1>4. /\ m \in Memories /\ m.backend = v.mem.backend /\ m.imported = v.mem.imported /\ m.fetched
      /\ m.sess = v.mem.sess /\ m.runs = [v.mem.runs EXCEPT ![g] = r]
  BY <1>1 DEF Worlds, Memories
<1> HIDE DEF m
<1> QED
  BY <1>1, <1>2, <1>3, <1>4, RunServes

LEMMA RemoveRunServes ==
  ASSUME NEW w \in Worlds, NEW t \in Truths, NEW fault \in Mild, Serves(w, t), NEW g \in StoreAgents
  PROVE  Carries(S!AfterRemoveRun(w, g, fault), [t EXCEPT !.runs[g] = "none"], w, t, fault)
<1> DEFINE f == S!Fold(w, fault)
           v == IF f.mem.runs = S!NoRuns THEN S!Fetch(f, fault) ELSE f
<1>1. v \in Worlds /\ v.row = w.row /\ v.mem.backend = w.mem.backend /\ Settled(v, t)
  BY Looked DEF Unread
<1>2. ~(f.mem.runs = S!NoRuns /\ S!Blind(f, fault))
  BY DEF S!Blind, Mild
<1>3. S!AfterRemoveRun(w, g, fault)
      = IF v.mem.runs[g] = "none" THEN v ELSE S!Persist([v EXCEPT !.mem.runs[g] = "none"], fault)
  BY <1>2 DEF S!AfterRemoveRun, S!None
<1> HIDE DEF f, v
<1>4. CASE v.mem.runs[g] = "none"
  <2>1. [t EXCEPT !.runs[g] = "none"] = t
    <3>1. t.runs \in [StoreAgents -> RunIds] /\ t.runs[g] = "none"
      BY <1>1, <1>4 DEF Truths, Settled, Same
    <3>2. [t.runs EXCEPT ![g] = "none"] = t.runs
      BY <3>1
    <3> QED
      BY <3>2 DEF Truths
  <2> QED
    BY <1>1, <1>3, <1>4, <2>1, UntoldServes
<1>5. CASE v.mem.runs[g] # "none"
  <2> DEFINE m == [v.mem EXCEPT !.runs[g] = "none"]
  <2>1. [v EXCEPT !.mem.runs[g] = "none"] = [v EXCEPT !.mem = m]
    BY <1>1 DEF Worlds, Memories
  <2>2. /\ "none" \in RunIds /\ m \in Memories /\ m.backend = v.mem.backend /\ m.imported = v.mem.imported
        /\ m.fetched = v.mem.fetched /\ m.sess = v.mem.sess /\ m.runs = [v.mem.runs EXCEPT ![g] = "none"]
    BY <1>1 DEF Worlds, Memories, RunIds
  <2> HIDE DEF m
  <2> QED
    BY <1>1, <1>3, <1>5, <2>1, <2>2, RunServes
<1> QED
  BY <1>4, <1>5

\* As long as nothing but writes and archiving failed, and since the first boot nothing
\* at all before this one.
Unhurt == kscars.old = {} /\ kscars.now \subseteq {"write", "archive", "memory"}
StoreServes ==
  /\ S!World \in Worlds /\ ktruth \in Truths /\ Serves(S!World, ktruth)
  /\ kasked # {} => Settled(S!World, ktruth)
  /\ ~kmem.backend => "memory" \in kscars.now
  /\ kscars.now = {} => Saved(S!World, ktruth)
Scars == {"read", "write", "archive", "file", "memory", "revived"}
StoreInv ==
  /\ kcount \in [calls : Nat, faults : Nat, boots : Nat] /\ kscars \in [old : SUBSET Scars, now : SUBSET Scars]
  /\ kcount.boots = 0 => S!World \in Worlds
  /\ kcount.boots > 0 /\ Unhurt => StoreServes

LEMMA StoreStarts == S!StoreInit => StoreInv
<1> SUFFICES ASSUME S!StoreInit PROVE StoreInv
  OBVIOUS
<1>1. \A h \in Ids \cup {"hollow"}, r \in RunIds : Left(h, r) \in Contents
  <2>1. \A r \in RunIds : [g \in StoreAgents |-> IF g = "g1" THEN r ELSE "none"] \in [StoreAgents -> RunIds]
    BY DEF RunIds
  <2> QED
    BY <2>1 DEF Left, Contents
<1>2. kfile \in [live : LeftFiles, bak : LeftFiles] /\ krow \in Contents
  <2>1. /\ Left("none", "none") \in Contents /\ Left("s1", "r1") \in Contents /\ Left("hollow", "r1") \in Contents
        /\ Left("none", "r1") \in Contents /\ Left("s1", "none") \in Contents /\ Left("s2", "r1") \in Contents
    BY <1>1 DEF Ids, RunIds
  <2> USE DEF LeftFiles
  <2>2. \A c \in Contents : [kind |-> "none", is |-> c] \in LeftFiles /\ [kind |-> "corrupt", is |-> c] \in LeftFiles
                           /\ [kind |-> "kept", is |-> c] \in LeftFiles
    OBVIOUS
  <2> HIDE DEF LeftFiles
  <2>3. /\ {[kind |-> "none", is |-> Left("none", "none")], [kind |-> "corrupt", is |-> Left("none", "none")]}
            \cup {[kind |-> "kept", is |-> c] : c \in {Left("s1", "r1"), Left("hollow", "r1"), Left("none", "r1")}}
            \subseteq LeftFiles
        /\ {[kind |-> "none", is |-> Left("none", "none")], [kind |-> "kept", is |-> Left("s1", "none")]}
            \subseteq LeftFiles
    BY <2>1, <2>2
  <2> QED
    BY <2>1, <2>3 DEF S!StoreInit
<1>3. kmem \in Memories
  BY NothingIs DEF S!StoreInit, S!Opened, S!None, Memories, Ids
<1>4. S!World \in Worlds
  BY <1>2, <1>3 DEF S!World, Worlds
<1>5. kcount = [calls |-> 0, faults |-> 0, boots |-> 0] /\ kscars = [old |-> {}, now |-> {}]
  BY DEF S!StoreInit
<1> QED
  BY <1>4, <1>5 DEF StoreInv

LEMMA CallKeeps ==
  ASSUME StoreInv, NEW u, NEW new, NEW fault \in S!Faults \cup {"no"}, S!Call(u, fault), ktruth' = new,
         kcount.boots > 0 /\ StoreServes /\ fault \in Mild
           => new \in Truths /\ Carries(u, new, S!World, ktruth, fault)
  PROVE  StoreInv'
<1>1. /\ kcount.boots > 0 /\ kcount'.boots = kcount.boots /\ kcount' \in [calls : Nat, faults : Nat, boots : Nat]
  <2>1. /\ kcount.boots > 0
        /\ kcount' = [kcount EXCEPT !.calls = @ + 1, !.faults = IF fault = "no" THEN @ ELSE @ + 1]
    BY DEF S!Call
  <2>2. kcount \in [calls : Nat, faults : Nat, boots : Nat]
    BY DEF StoreInv
  <2>3. kcount.calls + 1 \in Nat /\ (IF fault = "no" THEN kcount.faults ELSE kcount.faults + 1) \in Nat
    BY <2>2
  <2> QED
    BY <2>1, <2>2, <2>3
<1>2. /\ kscars' \in [old : SUBSET Scars, now : SUBSET Scars] /\ kscars'.old = kscars.old
      /\ kscars'.now = IF fault = "no" THEN kscars.now ELSE kscars.now \cup {fault}
  <2>1. kscars' = [kscars EXCEPT !.now = IF fault = "no" THEN @ ELSE @ \cup {fault}]
    BY DEF S!Call
  <2>2. kscars \in [old : SUBSET Scars, now : SUBSET Scars]
    BY DEF StoreInv
  <2>3. fault # "no" => {fault} \subseteq Scars
    BY DEF S!Faults, Scars
  <2>4. kscars.now \subseteq Scars
    BY <2>2
  <2> DEFINE now == IF fault = "no" THEN kscars.now ELSE kscars.now \cup {fault}
  <2>5. now \in SUBSET Scars
    BY <2>3, <2>4
  <2>6. kscars' = [kscars EXCEPT !.now = now]
    BY <2>1
  <2> HIDE DEF now
  <2>7. kscars' \in [old : SUBSET Scars, now : SUBSET Scars] /\ kscars'.old = kscars.old /\ kscars'.now = now
    BY <2>2, <2>5, <2>6
  <2> QED
    BY <2>7 DEF now
<1>3. ASSUME Unhurt' PROVE StoreServes'
  <2>1. Unhurt /\ fault \in Mild
    BY <1>2, <1>3 DEF Unhurt, S!Faults, Mild
  <2>2. StoreServes /\ new \in Truths /\ Carries(u, new, S!World, ktruth, fault)
    BY <1>1, <2>1 DEF StoreInv
  <2>3. S!World' = u /\ kgone' = kgone /\ kmem' = u.mem
    BY <2>2 DEF S!Call, S!World, Carries, Worlds
  <2>4. Settled(S!World, ktruth)'
    BY <2>2, <2>3 DEF Carries, Settled, Same
  <2>5. S!World' \in Worlds /\ ktruth' \in Truths
    BY <2>2, <2>3 DEF Carries
  <2>6. ~kmem'.backend => "memory" \in kscars'.now
    BY <1>2, <2>2, <2>3 DEF Carries, StoreServes, S!World
  <2>7. ASSUME kscars'.now = {} PROVE Saved(S!World, ktruth)'
    <3>1. fault = "no" /\ kscars.now = {}
      BY <1>2, <2>7
    <3>2. Saved(S!World, ktruth) /\ S!World.mem.backend
      BY <2>2, <3>1 DEF StoreServes, S!World
    <3>3. Saved(u, new)
      BY <2>2, <3>1, <3>2 DEF Carries
    <3> QED
      BY <2>3, <3>3 DEF Saved, Same
  <2> QED
    BY <2>4, <2>5, <2>6, <2>7 DEF StoreServes, Serves
<1> QED
  BY <1>1, <1>2, <1>3 DEF StoreInv

LEMMA CallsKeep ==
  ASSUME StoreInv, NEW fault \in S!Faults \cup {"no"},
         \/ S!Load(fault)
         \/ \E s \in {"s1", "s2"} \cup {S!None} : S!Save(s, fault) \/ S!Remove(s, fault)
         \/ \E g \in StoreAgents : S!LoadRun(g, fault) \/ S!RemoveRun(g, fault) \/ \E r \in {"r1"} : S!SaveRun(g, r, fault)
  PROVE  StoreInv'
<1> USE DEF StoreServes
<1>1. CASE S!Load(fault)
  BY <1>1, LoadServes, CallKeeps DEF S!Load
<1>2. ASSUME NEW s \in {"s1", "s2"} \cup {S!None}, S!Save(s, fault) PROVE StoreInv'
  <2>1. s \in Ids /\ kasked # {}
    BY <1>2 DEF Ids, S!None, S!Save
  <2>2. ktruth \in Truths => [ktruth EXCEPT !.sess = s] \in Truths
    BY <2>1 DEF Truths
  <2> QED
    BY <1>2, <2>1, <2>2, SaveServes, CallKeeps DEF S!Save
<1>3. ASSUME NEW s \in {"s1", "s2"} \cup {S!None}, S!Remove(s, fault) PROVE StoreInv'
  <2> DEFINE new == [ktruth EXCEPT !.sess = IF s \in {"none", ktruth.sess} THEN "none" ELSE ktruth.sess]
  <2>1. s \in Ids /\ ktruth' = new
    BY <1>3 DEF Ids, S!None, S!Remove
  <2>2. ktruth \in Truths => new \in Truths
    BY DEF Truths, Ids
  <2>3. StoreServes /\ fault \in Mild => Carries(S!AfterRemove(S!World, s, fault), new, S!World, ktruth, fault)
    BY <2>1, RemoveServes
  <2> HIDE DEF new
  <2> QED
    BY <1>3, <2>1, <2>2, <2>3, CallKeeps DEF S!Remove
<1>4. ASSUME NEW g \in StoreAgents, S!LoadRun(g, fault) PROVE StoreInv'
  BY <1>4, LoadRunServes, CallKeeps DEF S!LoadRun
<1>5. ASSUME NEW g \in StoreAgents, NEW r \in {"r1"}, S!SaveRun(g, r, fault) PROVE StoreInv'
  <2>1. r \in RunIds /\ (ktruth \in Truths => [ktruth EXCEPT !.runs[g] = r] \in Truths)
    BY DEF Truths, RunIds
  <2> QED
    BY <1>5, <2>1, SaveRunServes, CallKeeps DEF S!SaveRun
<1>6. ASSUME NEW g \in StoreAgents, S!RemoveRun(g, fault) PROVE StoreInv'
  <2>1. ktruth \in Truths => [ktruth EXCEPT !.runs[g] = "none"] \in Truths
    BY DEF Truths, RunIds
  <2> QED
    BY <1>6, <2>1, RemoveRunServes, CallKeeps DEF S!RemoveRun, S!None
<1> QED
  BY <1>1, <1>2, <1>3, <1>4, <1>5, <1>6

\* What a boot does to the file and the row; it puts the file in the archive.
LEMMA ImportLeaves ==
  ASSUME NEW w \in Worlds, NEW others \in BOOLEAN
  PROVE  LET i == S!Imported(w, "no")
             v == S!Reconsulted(i, others)
         IN /\ v.file \in [live : LeftFiles, bak : LeftFiles] /\ v.row \in Contents /\ ~S!Readable(v.file.live)
            /\ ~S!Readable(w.file.live) => i = w /\ v.file = w.file
<1> DEFINE i == S!Imported(w, "no")
           v == S!Reconsulted(i, others)
<1>1. /\ w.file \in [live : LeftFiles, bak : LeftFiles] /\ w.row \in Contents
      /\ w.file.live \in LeftFiles /\ w.file.bak \in LeftFiles
  BY DEF Worlds
<1>2. \A r, c \in Contents : S!Incoming(r, c) \in Contents
  <2>1. \A r, c \in Contents : [r EXCEPT !.runs = c.runs] \in Contents
    BY DEF Contents
  <2> QED
    BY <2>1 DEF S!Incoming
<1>3. S!NoFile \in LeftFiles /\ ~S!Readable(S!NoFile)
  BY NothingIs DEF S!NoFile, S!Readable, LeftFiles, Truths, Contents
<1>4. i \in Worlds /\ ~S!Readable(i.file.live) /\ (~S!Readable(w.file.live) => i = w)
  <2>1. CASE ~S!Readable(w.file.live)
    BY <2>1 DEF S!Imported
  <2>2. CASE S!Readable(w.file.live)
    <3>1. i = [[w EXCEPT !.row = S!Incoming(@, w.file.live.is)] EXCEPT !.file = [live |-> S!NoFile, bak |-> w.file.live]]
      <4> DEFINE x == [w EXCEPT !.row = S!Incoming(@, w.file.live.is)]
      <4>1. i = S!Archived(x, "no")
        BY <2>2 DEF S!Imported
      <4>2. x.file = w.file
        BY DEF Worlds
      <4> HIDE DEF x
      <4>3. i = [x EXCEPT !.file = [live |-> S!NoFile, bak |-> w.file.live]]
        BY <4>1, <4>2 DEF S!Archived
      <4> QED
        BY <4>3 DEF x
    <3>2. S!Incoming(w.row, w.file.live.is) \in Contents
      BY <1>1, <1>2 DEF LeftFiles
    <3>3. [live |-> S!NoFile, bak |-> w.file.live] \in [live : LeftFiles, bak : LeftFiles]
      BY <1>1, <1>3
    <3> DEFINE r == S!Incoming(w.row, w.file.live.is)
               g == [live |-> S!NoFile, bak |-> w.file.live]
    <3>4. g \in [live : LeftFiles, bak : LeftFiles] /\ g.live = S!NoFile /\ r \in Contents
      BY <3>2, <3>3
    <3>5. i = [[w EXCEPT !.row = r] EXCEPT !.file = g]
      BY <3>1
    <3> HIDE DEF i, r, g
    <3>6. i \in Worlds /\ i.file = g
      BY <3>4, <3>5 DEF Worlds
    <3> QED
      BY <1>3, <2>2, <3>4, <3>6
  <2> QED
    BY <2>1, <2>2
<1>5. v.file = i.file /\ v.row \in Contents
  <2> HIDE DEF i
  <2>1. S!Incoming(i.row, i.file.bak.is) \in Contents /\ i.row \in Contents
    BY <1>2, <1>4 DEF Worlds, LeftFiles
  <2> QED
    BY <1>4, <2>1 DEF S!Reconsulted, Worlds
<1> QED
  BY <1>4, <1>5 DEF Worlds

LEMMA BootKeeps ==
  ASSUME StoreInv, NEW backend \in BOOLEAN, NEW others \in BOOLEAN, NEW fault \in S!Faults \cup {"no"},
         S!Boot(backend, others, fault)
  PROVE  StoreInv'
<1> DEFINE first == kcount.boots = 0
           i == IF backend THEN S!Imported(S!World, fault) ELSE S!World
           v == IF backend THEN S!Reconsulted(i, others) ELSE i
           old == kscars.old \cup kscars.now \cup (IF fault = "no" THEN {} ELSE {fault})
                  \cup (IF v.row # i.row /\ ~first THEN {"revived"} ELSE {})
                  \cup (IF backend \/ first THEN {} ELSE {"memory"})
           now == IF backend THEN {} ELSE {"memory"}
<1>1. /\ kfile' = v.file /\ krow' = v.row /\ kmem' = S!Opened(backend) /\ kasked' = {} /\ kgone' = kgone
      /\ kscars' = [old |-> old, now |-> now]
      /\ kcount' = [kcount EXCEPT !.boots = @ + 1, !.faults = IF fault = "no" THEN @ ELSE @ + 1]
      /\ ktruth' = IF ~first THEN ktruth
                   ELSE IF backend THEN S!Clean(v.row)
                   ELSE IF S!Readable(kfile.live) THEN S!Clean(kfile.live.is) ELSE S!Nothing
  BY DEF S!Boot
<1>2. kcount'.boots > 0 /\ kcount' \in [calls : Nat, faults : Nat, boots : Nat]
  <2>1. kcount \in [calls : Nat, faults : Nat, boots : Nat]
    BY DEF StoreInv
  <2>2. kcount.boots + 1 \in Nat /\ kcount.boots + 1 > 0 /\ (IF fault = "no" THEN kcount.faults ELSE kcount.faults + 1) \in Nat
    BY <2>1
  <2> HIDE DEF i, v, old, now
  <2> QED
    BY <1>1, <2>1, <2>2
<1>3. kscars' \in [old : SUBSET Scars, now : SUBSET Scars] /\ kscars'.old = old /\ kscars'.now = now
  <2>1. kscars.old \subseteq Scars /\ kscars.now \subseteq Scars
    BY DEF StoreInv
  <2>2. fault # "no" => {fault} \subseteq Scars
    BY DEF S!Faults, Scars
  <2> HIDE DEF i, v
  <2>3. old \subseteq Scars /\ now \subseteq Scars
    BY <2>1, <2>2 DEF Scars
  <2> HIDE DEF old, now
  <2> QED
    BY <1>1, <2>3
<1>4. ASSUME Unhurt' PROVE StoreServes'
  <2>1. fault = "no" /\ kscars.old = {} /\ kscars.now = {} /\ (first \/ v.row = i.row) /\ (first \/ backend)
    <3> HIDE DEF i, v
    <3> QED
      BY <1>3, <1>4 DEF Unhurt
  <2>2. ~first => StoreServes
    BY <2>1 DEF StoreInv, Unhurt
  <2>3. S!World \in Worlds
    BY <2>2 DEF StoreInv, StoreServes
  <2>4. /\ kfile \in [live : LeftFiles, bak : LeftFiles] /\ krow \in Contents /\ S!World.file = kfile /\ S!World.row = krow
        /\ kfile.live \in LeftFiles /\ kfile.live.is \in Contents
    BY <2>3 DEF S!World, Worlds, LeftFiles
  <2>5. v.file \in [live : LeftFiles, bak : LeftFiles] /\ v.row \in Contents /\ (backend => ~S!Readable(v.file.live))
    BY <2>1, <2>3, <2>4, ImportLeaves
  <2>6. ~first => v.row = krow
    <3>1. ASSUME ~first PROVE ~S!Readable(kfile.live)
      BY <2>1, <2>2, <3>1 DEF StoreServes, Serves, Settled, Unread, Unfolded, S!World
    <3> QED
      BY <2>1, <2>3, <2>4, <3>1, ImportLeaves
  <2>7. ~backend => v.file = kfile
    BY <2>4
  <2> HIDE DEF i, v, old
  <2>8. /\ S!World' \in Worlds /\ S!World'.file = v.file /\ S!World'.row = v.row /\ S!World'.mem = S!Opened(backend)
    <3>1. S!Opened(backend) \in Memories
      BY NothingIs DEF S!Opened, S!None, Memories, Ids
    <3> QED
      BY <1>1, <2>5, <3>1 DEF S!World, Worlds
  <2>9. ktruth' \in Truths
    BY <1>1, <2>2, <2>4, <2>5, CleanIs, NothingIs DEF StoreServes
  <2>10. backend => Saved(S!World, ktruth)'
    <3>1. CASE first /\ backend
      BY <1>1, <2>5, <2>8, <3>1, CleanIs DEF Saved, Same
    <3>2. CASE ~first
      <4>1. Saved(S!World, ktruth)
        BY <2>1, <2>2, <3>2 DEF StoreServes
      <4> QED
        BY <1>1, <2>4, <2>6, <2>8, <3>2, <4>1 DEF Saved, Same
    <3> QED
      BY <3>1, <3>2
  <2>11. Serves(S!World, ktruth)'
    <3>1. CASE backend
      BY <2>5, <2>8, <2>10, <3>1 DEF Serves, Unread, S!Opened, S!None
    <3>2. CASE ~backend
      <4>1. first /\ v.file = kfile
        BY <2>1, <2>7, <3>2
      <4>2. ktruth' = IF S!Readable(kfile.live) THEN S!Clean(kfile.live.is) ELSE S!Nothing
        BY <1>1, <3>2, <4>1
      <4> QED
        BY <2>8, <3>2, <4>1, <4>2 DEF Serves, Unfolded, Same, S!Opened, S!None
    <3> QED
      BY <3>1, <3>2
  <2>12. ~kmem'.backend => "memory" \in kscars'.now
    BY <1>1, <1>3 DEF S!Opened
  <2>13. kscars'.now = {} => backend
    BY <1>3
  <2> QED
    BY <1>1, <2>8, <2>9, <2>10, <2>11, <2>12, <2>13 DEF StoreServes
<1> QED
  BY <1>2, <1>3, <1>4 DEF StoreInv

\* Time passes: what was as good as none stays so.
LEMMA ExpireKeeps ==
  ASSUME StoreInv, kgone \subseteq kgone', UNCHANGED <<kfile, krow, kmem, kasked, ktruth, kscars, kcount>>
  PROVE  StoreInv'
<1>1. \A s, r : \A t : Same(s, r, t) => Same(s, r, t)'
  BY DEF Same
<1>2. S!World' = S!World
  BY DEF S!World
<1>3. StoreServes => StoreServes'
  BY <1>1, <1>2 DEF StoreServes, Serves, Settled, Unread, Unfolded, Saved, Same
<1> QED
  BY <1>2, <1>3 DEF StoreInv, Unhurt

LEMMA StoreStep == StoreInv /\ [S!StoreNext]_storeVars => StoreInv'
<1> SUFFICES ASSUME StoreInv, [S!StoreNext]_storeVars PROVE StoreInv'
  OBVIOUS
<1>1. CASE \E s \in {"s1", "s2"} : S!Expire(s)
  BY <1>1, ExpireKeeps DEF S!Expire
<1>2. CASE UNCHANGED storeVars
  BY <1>2, ExpireKeeps DEF storeVars
<1> QED
  BY <1>1, <1>2, CallsKeep, BootKeeps DEF S!StoreNext

LEMMA StoreSteps ==
  office = "store" /\ [OfficeNext]_wholeVars => [S!StoreNext]_storeVars
BY DEF OfficeNext, wholeVars, OStep, PStep, MStep, KStep, LStep, HStep, CStep,
       configVars, probeVars, streakVars, storeVars, ledgerVars, schemaVars, carryVars, fileVars, keptVars

LEMMA ServedIsTruth ==
  ASSUME StoreServes
  PROVE  S!Alive(S!Served) = S!Alive(ktruth)
<1> DEFINE l == S!AfterLoad(S!World, "no")
           a(g) == S!AfterLoadRun(S!World, g, "no")
<1>1. Carries(l, ktruth, S!World, ktruth, "no") /\ \A g \in StoreAgents : Carries(a(g), ktruth, S!World, ktruth, "no")
  BY LoadServes, LoadRunServes DEF StoreServes, Mild
<1>2. l.mem.sess = ktruth.sess \/ (l.mem.sess \in kgone \cup {"none"} /\ ktruth.sess \in kgone \cup {"none"})
  BY <1>1 DEF Carries, Settled, Same
<1>3. [g \in StoreAgents |-> a(g).mem.runs[g]] = ktruth.runs
  <2>1. \A g \in StoreAgents : a(g).mem.runs = ktruth.runs
    BY <1>1 DEF Carries, Settled, Same
  <2> HIDE DEF a
  <2> QED
    BY <2>1 DEF StoreServes, Truths
<1>4. S!Served = [sess |-> l.mem.sess, runs |-> ktruth.runs]
  BY <1>3 DEF S!Served
<1>5. ktruth = [sess |-> ktruth.sess, runs |-> ktruth.runs]
  BY DEF StoreServes, Truths
<1> HIDE DEF l
<1> QED
  BY <1>2, <1>4, <1>5 DEF S!Alive, S!None

LEMMA SavedIsTruth ==
  ASSUME StoreServes, Saved(S!World, ktruth)
  PROVE  S!Alive(S!Clean(krow)) = S!Alive(ktruth)
<1>1. krow \in Contents /\ S!Clean(krow) \in Truths /\ S!Clean(krow).runs = krow.runs
  BY CleanIs DEF StoreServes, S!World, Worlds
<1>2. Same(S!Clean(krow).sess, S!Clean(krow).runs, ktruth)
  BY <1>1 DEF Saved, S!World
<1>3. /\ ktruth = [sess |-> ktruth.sess, runs |-> ktruth.runs]
      /\ S!Clean(krow) = [sess |-> S!Clean(krow).sess, runs |-> S!Clean(krow).runs]
  BY <1>1 DEF StoreServes, Truths
<1> QED
  BY <1>2, <1>3 DEF Same, S!Alive, S!None

\* What a manager saved last (session/store.go) is what the next process resumes, as long
\* as the database answered and no earlier boot met a fault or went to the archive again;
\* and what this process serves even when its writes failed, or it has no database.
THEOREM SavedIsResumed == OfficeSpec => []ResumesWhatWasSaved
<1> DEFINE Row == office = "store" => StoreInv
<1>1. OfficeInit => Row
  BY StoreStarts DEF OfficeInit
<1>2. Row /\ [OfficeNext]_wholeVars => Row'
  BY StoreSteps, StoreStep DEF OfficeNext, wholeVars
<1>3. Row => ResumesWhatWasSaved
  BY ServedIsTruth, SavedIsTruth DEF StoreInv, Unhurt, StoreServes, ResumesWhatWasSaved, S!ResumesWhatWasSaved
<1> QED
  BY <1>1, <1>2, <1>3, PTL DEF OfficeSpec, wholeVars

-----------------------------------------------------------------------------
(* SmartProbe: what an account was last heard to say is in the worker's    *)
(* hand or folded into its schedule, unless the roster moved under it.     *)
Probed == {pa1, pa2}
ProbePasts == [says : P!Says \cup {"none"}, at : Nat, refusals : Nat, nudged : BOOLEAN, owed : BOOLEAN, awake : BOOLEAN]
ProbeHistories == [of : [Probed -> ProbePasts], acts : Nat, moved : BOOLEAN]
Quotas == [Probed -> [known : BOOLEAN, saved : Nat, resets : Nat]]
Schedules == [Probed -> [dirty : BOOLEAN, next : Nat, last : Nat, step : Nat]]
OrderTypes == porder \in Seq(Probed) /\ \A i, j \in DOMAIN porder : porder[i] = porder[j] => i = j
RoundTypes ==
  /\ pround \in [pc : {"idle", "fire", "ask", "asked", "answered", "settle"}, todo : SUBSET (Nat \ {0}), at : Nat,
                 tok : Probed \cup {"none"}, asks : Probed \cup {"none"}, says : P!Says \cup {"none"}]
  /\ pround.pc = "ask" => pround.at # 0
  /\ pround.pc = "asked" => pround.asks \in Probed
ProbeTypes ==
  /\ pclock \in Nat \ {0} /\ OrderTypes /\ RoundTypes
  /\ pquota \in Quotas /\ pdue \in Schedules /\ ppast \in ProbeHistories

\* The outcome of the last probe is in the schedule, or in the worker's hand.
InHand(a) == pround.pc \in {"answered", "settle"} /\ pround.tok = a
Folded(d, h) ==
  /\ d.step = h.refusals
  /\ h.says = "refused" => h.nudged \/ d.next = h.at + P!RetryDelay(h.refusals)
  /\ h.says \in {"error", "banned"} => h.nudged \/ d.next = h.at + Base
AboutToFold(d, h) ==
  /\ h.at = pclock /\ h.says = pround.says
  /\ h.refusals = CASE h.says = "refused" -> d.step + 1 [] h.says \in {"error", "banned"} -> d.step [] OTHER -> 0
ScheduleSound(a) ==
  /\ pquota[a].known \/ pdue[a].dirty => ppast.of[a].awake
  /\ ppast.of[a].owed => pdue[a].dirty
  /\ ppast.of[a].at <= pclock
  /\ ppast.of[a].says = "ok" => pquota[a].saved = ppast.of[a].at /\ ppast.of[a].at # 0
  /\ IF InHand(a) THEN AboutToFold(pdue[a], ppast.of[a]) ELSE Folded(pdue[a], ppast.of[a])
\* What a round has collected may still be asked, and the worker has the account of its place.
RoundSound ==
  /\ pround.pc # "idle" =>
       pround.todo \subseteq DOMAIN porder /\ \A i \in pround.todo : P!WellAsked(porder[i])
  /\ pround.pc \in {"ask", "asked", "answered", "settle"} =>
       pround.at \in DOMAIN porder \ pround.todo /\ pround.tok = porder[pround.at]
  /\ pround.pc = "ask" => P!WellAsked(pround.tok)
  /\ pround.pc \in {"asked", "answered"} => ~ppast.of[pround.tok].owed
  /\ pround.pc = "asked" => pround.asks = pround.tok
ProbeInv == ProbeTypes /\ (~ppast.moved => RoundSound /\ \A a \in Probed : ScheduleSound(a))

LEMMA DelayIsNumber ==
  ASSUME NEW n
  PROVE  P!RetryDelay(n) \in Nat
<1> DEFINE x == Base * 2 ^ n
           D == {d \in 0 .. Cap : d = Cap \/ d = x}
<1>1. \E d \in D : \A e \in D : d <= e
  <2> HIDE DEF x
  <2>1. Cap \in Nat
    BY RosterIsSound DEF P!ProbeAssumption
  <2>2. CASE x \in 0 .. Cap
    BY <2>1, <2>2
  <2>3. CASE x \notin 0 .. Cap
    BY <2>1, <2>3
  <2> QED
    BY <2>2, <2>3
<1>2. P!Least(D) \in D
  BY <1>1 DEF P!Least
<1>3. P!Least(D) \in 0 .. Cap
  BY <1>2
<1> QED
  BY <1>3, RosterIsSound DEF P!RetryDelay, P!ProbeAssumption

LEMMA MostIsNumber ==
  ASSUME NEW x \in Nat, NEW y \in Nat
  PROVE  P!Most({x, y}) \in Nat
<1>1. \E z \in {x, y} : \A w \in {x, y} : z >= w
  OBVIOUS
<1> QED
  BY <1>1 DEF P!Most

\* An account that may be asked may be asked later, and after a mark.
LEMMA StillAsked ==
  ASSUME ProbeTypes, ProbeTypes', NEW a \in Probed, P!WellAsked(a), pclock' \in {pclock, pclock + 1},
         ppast'.of[a].says = ppast.of[a].says, ppast'.of[a].at = ppast.of[a].at,
         ppast'.of[a].refusals = ppast.of[a].refusals,
         ppast.of[a].nudged => ppast'.of[a].nudged, ppast.of[a].awake => ppast'.of[a].awake
  PROVE  P!WellAsked(a)'
<1>1. P!RetryDelay(ppast.of[a].refusals) \in Nat /\ Fresh \in Nat /\ Base \in Nat
  BY DelayIsNumber, RosterIsSound DEF P!ProbeAssumption
<1>2. P!RetryDelay(ppast.of[a].refusals)' = P!RetryDelay(ppast.of[a].refusals)
  BY DEF P!RetryDelay
<1>3. ppast.of[a] \in ProbePasts /\ pclock \in Nat
  BY DEF ProbeTypes, OrderTypes, RoundTypes, Quotas, Schedules, ProbeHistories
<1> QED
  BY <1>1, <1>2, <1>3 DEF P!WellAsked, ProbePasts

\* What a step writes into the history of one account.
Told(a, h) ==
  /\ h \in ProbePasts /\ ppast'.of = [ppast.of EXCEPT ![a] = h]
  /\ ppast'.moved = ppast.moved /\ ppast'.acts \in Nat
  /\ ppast' = [of |-> ppast'.of, acts |-> ppast'.acts, moved |-> ppast'.moved]

\* A step that leaves the round alone and what the last probes said.
LEMMA RoundKeeps ==
  ASSUME ProbeTypes, ProbeTypes', RoundSound, NEW a \in Probed, NEW h, Told(a, h), pclock' \in {pclock, pclock + 1},
         h.says = ppast.of[a].says, h.at = ppast.of[a].at, h.refusals = ppast.of[a].refusals,
         ppast.of[a].nudged => h.nudged, ppast.of[a].awake => h.awake,
         h.owed => ppast.of[a].owed \/ ~(pround.tok = a /\ pround.pc \in {"asked", "answered"}),
         UNCHANGED <<porder, pround>>
  PROVE  RoundSound'
<1>1. \A b \in Probed : ppast'.of[b] = IF b = a THEN h ELSE ppast.of[b]
  BY DEF Told, ProbeTypes, OrderTypes, RoundTypes, Quotas, Schedules, ProbeHistories
<1>2. \A b \in Probed : P!WellAsked(b) => P!WellAsked(b)'
  BY <1>1, StillAsked
<1>3. \A i \in DOMAIN porder : porder[i] \in Probed
  BY DEF ProbeTypes, OrderTypes, RoundTypes, Quotas, Schedules, ProbeHistories
<1> QED
  BY <1>1, <1>2, <1>3 DEF RoundSound, ProbeTypes, OrderTypes, RoundTypes, Quotas, Schedules, ProbeHistories

LEMMA Tells ==
  ASSUME ProbeTypes, NEW a \in Probed, NEW h \in ProbePasts, NEW n \in Nat,
         ppast' = [ppast EXCEPT !.acts = n, !.of[a] = h] \/ ppast' = [ppast EXCEPT !.of[a] = h] \/ (ppast' = [ppast EXCEPT !.acts = n] /\ h = ppast.of[a])
         \/ (ppast' = ppast /\ h = ppast.of[a])
  PROVE  Told(a, h) /\ ppast' \in ProbeHistories
         /\ \A b \in Probed : ppast'.of[b] = IF b = a THEN h ELSE ppast.of[b]
<1> DEFINE f == ppast.of  k == ppast.acts  m == ppast.moved  r == [of |-> f, acts |-> k, moved |-> m]
<1>1. f \in [Probed -> ProbePasts] /\ k \in Nat /\ m \in BOOLEAN
  BY DEF ProbeTypes, OrderTypes, RoundTypes, Quotas, Schedules, ProbeHistories
<1>2. ppast = r
  BY DEF ProbeTypes, OrderTypes, RoundTypes, Quotas, Schedules, ProbeHistories
<1>3. ppast' \in {[of |-> [f EXCEPT ![a] = h], acts |-> n, moved |-> m], [of |-> [f EXCEPT ![a] = h], acts |-> k, moved |-> m]}
  <2>1. CASE ppast' = [ppast EXCEPT !.acts = n, !.of[a] = h]
    <3>1. ppast' = [r EXCEPT !.acts = n, !.of[a] = h]
      BY <1>2, <2>1
    <3>2. [r EXCEPT !.acts = n, !.of[a] = h] = [of |-> [f EXCEPT ![a] = h], acts |-> n, moved |-> m]
      <4> HIDE DEF f, k, m
      <4> DEFINE e == [r EXCEPT !.acts = n]
      <4>1. e = [of |-> f, acts |-> n, moved |-> m]
        OBVIOUS
      <4> HIDE DEF e
      <4>2. [e EXCEPT !.of[a] = h] = [of |-> [f EXCEPT ![a] = h], acts |-> n, moved |-> m]
        BY <4>1
      <4> QED
        BY <4>2 DEF e
    <3> QED
      BY <3>1, <3>2
  <2>2. CASE ppast' = [ppast EXCEPT !.of[a] = h]
    <3>1. ppast' = [r EXCEPT !.of[a] = h]
      BY <1>2, <2>2
    <3>2. [r EXCEPT !.of[a] = h] = [of |-> [f EXCEPT ![a] = h], acts |-> k, moved |-> m]
      <4> HIDE DEF f, k, m
      <4> QED
        OBVIOUS
    <3> QED
      BY <3>1, <3>2
  <2>3. CASE ppast' = [ppast EXCEPT !.acts = n] /\ h = f[a]
    <3>1. ppast' = [r EXCEPT !.acts = n]
      BY <1>2, <2>3
    <3>2. [r EXCEPT !.acts = n] = [of |-> f, acts |-> n, moved |-> m] /\ f = [f EXCEPT ![a] = h]
      <4> HIDE DEF f, k, m
      <4> QED
        BY <1>1, <2>3
    <3> QED
      BY <3>1, <3>2
  <2>4. CASE ppast' = ppast /\ h = f[a]
    <3>1. f = [f EXCEPT ![a] = h]
      <4> HIDE DEF f, k, m
      <4> QED
        BY <1>1, <2>4
    <3> HIDE DEF f, k, m
    <3> QED
      BY <1>2, <2>4, <3>1
  <2> QED
    BY <2>1, <2>2, <2>3, <2>4
<1> HIDE DEF f, k, m, r
<1> QED
  BY <1>1, <1>3 DEF Told, f, m, ProbeHistories

LEMMA MarkKeeps ==
  ASSUME ProbeInv, NEW a \in Probed, P!Mark(a)
  PROVE  ProbeInv'
<1> DEFINE looking == pround.tok = a /\ pround.pc \in {"asked", "answered"}
           h == P!Active(ppast.of[a], looking)
<1>1. ppast.of[a] \in ProbePasts /\ ppast.acts + 1 \in Nat
  BY DEF ProbeInv, ProbeTypes, OrderTypes, RoundTypes, Quotas, Schedules, ProbeHistories
<1>2. /\ h \in ProbePasts /\ h.says = ppast.of[a].says /\ h.at = ppast.of[a].at /\ h.refusals = ppast.of[a].refusals
      /\ h.nudged = ppast.of[a].nudged /\ h.awake /\ (h.owed <=> ppast.of[a].owed \/ ~looking)
  BY <1>1 DEF ProbePasts, P!Active
<1>3. ppast' = [ppast EXCEPT !.acts = ppast.acts + 1, !.of[a] = h]
  BY DEF P!Mark
<1> HIDE DEF h
<1>4. Told(a, h) /\ ppast' \in ProbeHistories
      /\ \A b \in Probed : ppast'.of[b] = IF b = a THEN h ELSE ppast.of[b]
  BY <1>1, <1>2, <1>3, Tells DEF ProbeInv
<1>5. UNCHANGED <<pclock, porder, pshut, pquota, pround>> /\ pdue' = [pdue EXCEPT ![a].dirty = TRUE]
  BY DEF P!Mark
<1>6. ProbeTypes'
  <2>1. pdue' \in Schedules
    BY <1>5 DEF ProbeInv, ProbeTypes, Schedules
  <2> QED
    BY <1>4, <1>5, <2>1 DEF ProbeInv, ProbeTypes, OrderTypes, RoundTypes
<1>7. ASSUME ~ppast.moved, NEW b \in Probed PROVE ScheduleSound(b)'
  <2>1. ScheduleSound(b)
    BY <1>7 DEF ProbeInv
  <2>2. pdue'[b].step = pdue[b].step /\ pdue'[b].next = pdue[b].next /\ (pdue'[b].dirty <=> pdue[b].dirty \/ b = a)
    BY <1>5 DEF ProbeInv, ProbeTypes, Schedules
  <2> QED
    BY <2>1, <2>2, <1>2, <1>4, <1>5 DEF ScheduleSound, InHand, Folded, AboutToFold
<1>8. ASSUME ~ppast.moved PROVE RoundSound'
  BY <1>2, <1>4, <1>5, <1>6, <1>8, RoundKeeps DEF ProbeInv
<1> QED
  BY <1>4, <1>6, <1>7, <1>8 DEF ProbeInv, Told

LEMMA MarkMovesKeeps ==
  ASSUME ProbeInv, NEW a \in Probed, P!MarkMoves(a)
  PROVE  ProbeInv'
<1> DEFINE h == [ppast.of[a] EXCEPT !.nudged = TRUE]
<1>1. ppast.of[a] \in ProbePasts
  BY DEF ProbeInv, ProbeTypes, OrderTypes, RoundTypes, Quotas, Schedules, ProbeHistories
<1>2. /\ h \in ProbePasts /\ h.says = ppast.of[a].says /\ h.at = ppast.of[a].at /\ h.refusals = ppast.of[a].refusals
      /\ h.nudged /\ h.awake = ppast.of[a].awake /\ h.owed = ppast.of[a].owed
  BY <1>1 DEF ProbePasts
<1>3. ppast' = [ppast EXCEPT !.of[a] = h]
  BY DEF P!MarkMoves
<1> HIDE DEF h
<1>4. Told(a, h) /\ ppast' \in ProbeHistories
      /\ \A b \in Probed : ppast'.of[b] = IF b = a THEN h ELSE ppast.of[b]
  BY <1>1, <1>2, <1>3, Tells DEF ProbeInv
<1>5. UNCHANGED <<pclock, porder, pshut, pquota, pround>> /\ (pdue' = pdue \/ pdue' = [pdue EXCEPT ![a].next = pclock])
  BY DEF P!MarkMoves
<1>6. ProbeTypes'
  <2>1. pdue' \in Schedules
    BY <1>5 DEF ProbeInv, ProbeTypes, Schedules
  <2> QED
    BY <1>4, <1>5, <2>1 DEF ProbeInv, ProbeTypes, OrderTypes, RoundTypes
<1>7. ASSUME ~ppast.moved, NEW b \in Probed PROVE ScheduleSound(b)'
  <2>1. ScheduleSound(b)
    BY <1>7 DEF ProbeInv
  <2>2. pdue'[b].step = pdue[b].step /\ (b # a => pdue'[b].next = pdue[b].next) /\ pdue'[b].dirty = pdue[b].dirty
    BY <1>5 DEF ProbeInv, ProbeTypes, Schedules
  <2> QED
    BY <2>1, <2>2, <1>2, <1>4, <1>5 DEF ScheduleSound, InHand, Folded, AboutToFold
<1>8. ASSUME ~ppast.moved PROVE RoundSound'
  BY <1>2, <1>4, <1>5, <1>6, <1>8, RoundKeeps DEF ProbeInv
<1> QED
  BY <1>4, <1>6, <1>7, <1>8 DEF ProbeInv, Told

\* Health and time.
LEMMA OutsideKeeps ==
  ASSUME ProbeInv, NEW a \in Probed, P!Health(a) \/ P!Later
  PROVE  ProbeInv'
<1> DEFINE h == ppast.of[a]
<1>1. h \in ProbePasts /\ ppast.acts + 1 \in Nat
  BY DEF ProbeInv, ProbeTypes, OrderTypes, RoundTypes, Quotas, Schedules, ProbeHistories
<1>2. UNCHANGED <<porder, pquota, pround, pdue>> /\ (ppast' = [ppast EXCEPT !.acts = ppast.acts + 1] \/ ppast' = ppast)
  BY DEF P!Health, P!Later
<1>3. pclock' = pclock \/ (pclock' = pclock + 1 /\ pround.pc \notin {"ask", "answered", "settle"})
  BY DEF P!Health, P!Later
<1>4. Told(a, h) /\ ppast' \in ProbeHistories
      /\ \A b \in Probed : ppast'.of[b] = IF b = a THEN h ELSE ppast.of[b]
  <2> HIDE DEF h
  <2>1. h = ppast.of[a]
    BY DEF h
  <2> QED
    BY <1>1, <1>2, <2>1, Tells DEF ProbeInv
<1>5. pclock' \in Nat \ {0} /\ pclock \in Nat
  <2>1. pclock \in Nat \ {0}
    BY DEF ProbeInv, ProbeTypes
  <2> QED
    BY <1>3, <2>1
<1>6. ProbeTypes'
  BY <1>2, <1>4, <1>5 DEF ProbeInv, ProbeTypes, OrderTypes, RoundTypes
<1>7. ASSUME ~ppast.moved, NEW b \in Probed PROVE ScheduleSound(b)'
  <2>1. ScheduleSound(b) /\ ppast'.of[b] = ppast.of[b] /\ ppast.of[b].at \in Nat
    BY <1>4, <1>7 DEF ProbeInv, ProbeTypes, OrderTypes, RoundTypes, Quotas, Schedules, ProbeHistories, ProbePasts
  <2> QED
    BY <2>1, <1>2, <1>3, <1>5 DEF ScheduleSound, InHand, Folded, AboutToFold
<1>8. ASSUME ~ppast.moved PROVE RoundSound'
  BY <1>1, <1>2, <1>3, <1>4, <1>6, <1>8, RoundKeeps DEF ProbeInv
<1> QED
  BY <1>4, <1>6, <1>7, <1>8 DEF ProbeInv, Told

\* A step of the worker that only moves the round on.
LEMMA WorkerKeeps ==
  ASSUME ProbeInv, UNCHANGED <<pclock, porder, pquota, pdue, ppast>>, ProbeTypes',
         pround.pc \notin {"answered", "settle"}, ~ppast.moved => pround'.pc \notin {"answered", "settle"} /\ RoundSound'
  PROVE  ProbeInv'
BY DEF ProbeInv, ScheduleSound, InHand, Folded, AboutToFold

LEMMA TickKeeps ==
  ASSUME ProbeInv, P!Tick
  PROVE  ProbeInv'
<1>1. UNCHANGED <<pclock, porder, pquota, pdue, ppast>> /\ pround.pc = "idle"
      /\ pround' = [pc |-> "fire", todo |-> P!DuePlaces, at |-> 0, tok |-> "none", asks |-> "none", says |-> "none"]
  BY DEF P!Tick, P!NoRound, P!NoAccount
<1>2. P!DuePlaces \subseteq DOMAIN porder /\ DOMAIN porder \subseteq Nat \ {0}
      /\ \A i \in P!DuePlaces : P!IsDue(porder[i])
  <2>1. DOMAIN porder \subseteq Nat \ {0}
    BY DEF ProbeInv, ProbeTypes, OrderTypes
  <2> DEFINE all == {i \in DOMAIN porder : P!IsDue(porder[i])}
  <2>2. P!DuePlaces \subseteq all
    <3> DEFINE ok(i) == P!Cardinality({j \in all : j < i}) < MaxPerTick
    <3>1. P!DuePlaces = {i \in all : ok(i)}
      BY DEF P!DuePlaces
    <3> HIDE DEF all, ok
    <3> QED
      BY <3>1
  <2>3. all \subseteq DOMAIN porder /\ \A i \in all : P!IsDue(porder[i])
    OBVIOUS
  <2> HIDE DEF all
  <2> QED
    BY <2>1, <2>2, <2>3
<1>3. ProbeTypes'
  <2>1. RoundTypes'
    BY <1>1, <1>2 DEF RoundTypes
  <2> QED
    BY <1>1, <2>1 DEF ProbeInv, ProbeTypes, OrderTypes
<1>4. ASSUME ~ppast.moved, NEW i \in P!DuePlaces PROVE P!WellAsked(porder[i])'
  <2> DEFINE a == porder[i]
  <2>1. a \in Probed /\ P!IsDue(a)
    BY <1>2 DEF ProbeInv, ProbeTypes, OrderTypes, RoundTypes, Quotas, Schedules, ProbeHistories
  <2> HIDE DEF a
  <2>2. ScheduleSound(a) /\ ~InHand(a)
    BY <1>1, <1>4, <2>1 DEF ProbeInv, InHand
  <2>3. /\ pquota[a] \in [known : BOOLEAN, saved : Nat, resets : Nat] /\ pclock \in Nat
        /\ pdue[a] \in [dirty : BOOLEAN, next : Nat, last : Nat, step : Nat] /\ ppast.of[a] \in ProbePasts
    BY <2>1 DEF ProbeInv, ProbeTypes, OrderTypes, RoundTypes, Quotas, Schedules, ProbeHistories
  <2>4. P!RetryDelay(ppast.of[a].refusals) \in Nat /\ Fresh \in Nat /\ Base \in Nat
    BY DelayIsNumber, RosterIsSound DEF P!ProbeAssumption
  <2>5. ppast.of[a].awake
    BY <2>1, <2>2, <2>3 DEF P!IsDue, P!ResetInstant, ScheduleSound
  <2>6. ppast.of[a].says = "ok" => pclock - ppast.of[a].at >= Fresh
    BY <2>1, <2>2, <2>3, <2>4 DEF P!IsDue, P!IsFresh, ScheduleSound, ProbePasts
  <2>7. Folded(pdue[a], ppast.of[a]) /\ (pdue[a].next = 0 \/ pclock >= pdue[a].next)
    BY <2>1, <2>2 DEF ScheduleSound, P!IsDue
  <2>8. P!WellAsked(a)
    BY <2>3, <2>4, <2>5, <2>6, <2>7 DEF P!WellAsked, Folded, ProbePasts
  <2> QED
    BY <2>8, <1>1 DEF P!WellAsked, a
<1>5. ~ppast.moved => RoundSound'
  BY <1>1, <1>2, <1>4 DEF RoundSound
<1> QED
  BY <1>1, <1>3, <1>5, WorkerKeeps

LEMMA SaidAlike ==
  ASSUME UNCHANGED <<pclock, ppast>>
  PROVE  \A a \in Probed : P!WellAsked(a)' <=> P!WellAsked(a)
BY DEF P!WellAsked

LEMMA FireKeeps ==
  ASSUME ProbeInv, P!Fire
  PROVE  ProbeInv'
<1>1. UNCHANGED <<pclock, porder, pquota, pdue, ppast>> /\ pround.pc = "fire"
  BY DEF P!Fire
<1>2. RoundTypes /\ OrderTypes
  BY DEF ProbeInv, ProbeTypes
<1>3. CASE pround' = P!NoRound
  <2>1. RoundTypes' /\ pround'.pc = "idle"
    BY <1>3 DEF RoundTypes, P!NoRound, P!NoAccount
  <2>2. ProbeTypes'
    BY <1>1, <2>1 DEF ProbeInv, ProbeTypes, OrderTypes
  <2> QED
    BY <1>1, <2>1, <2>2, WorkerKeeps DEF RoundSound
<1>4. ASSUME NEW i \in pround.todo, i > Len(porder), pround' = [pround EXCEPT !.todo = pround.todo \ {i}] PROVE ProbeInv'
  <2>1. RoundTypes' /\ pround'.pc = "fire" /\ pround'.todo = pround.todo \ {i}
    BY <1>1, <1>2, <1>4 DEF RoundTypes
  <2>2. ProbeTypes'
    BY <1>1, <2>1 DEF ProbeInv, ProbeTypes, OrderTypes
  <2>3. ~ppast.moved => pround.todo \subseteq DOMAIN porder
    BY <1>1 DEF ProbeInv, RoundSound
  <2>4. i \in Nat \ {0} /\ porder \in Seq(Probed)
    BY <1>2, <1>4 DEF RoundTypes, OrderTypes
  <2>5. ppast.moved
    BY <1>4, <2>3, <2>4
  <2> QED
    BY <1>1, <2>1, <2>2, <2>5, WorkerKeeps
<1>5. ASSUME NEW i \in pround.todo, ~(i > Len(porder)),
             pround' = [pround EXCEPT !.todo = pround.todo \ {i}, !.at = i, !.tok = porder[i], !.pc = "ask"]
      PROVE  ProbeInv'
  <2>1. i \in DOMAIN porder /\ i \in Nat \ {0} /\ porder[i] \in Probed
    BY <1>2, <1>5 DEF RoundTypes, OrderTypes
  <2>2. RoundTypes' /\ pround'.pc = "ask" /\ pround'.todo = pround.todo \ {i} /\ pround'.at = i /\ pround'.tok = porder[i]
    BY <1>2, <1>5, <2>1 DEF RoundTypes
  <2>3. ProbeTypes'
    BY <1>1, <2>2 DEF ProbeInv, ProbeTypes, OrderTypes
  <2>4. ASSUME ~ppast.moved PROVE RoundSound'
    <3>1. pround.todo \subseteq DOMAIN porder /\ \A j \in pround.todo : P!WellAsked(porder[j])
      BY <1>1, <2>4 DEF ProbeInv, RoundSound
    <3>2. \A j \in DOMAIN porder : porder[j] \in Probed
      BY <1>2 DEF OrderTypes
    <3>3. \A j \in pround.todo : P!WellAsked(porder[j])'
      BY <1>1, <3>1, <3>2, SaidAlike
    <3> QED
      BY <1>1, <1>5, <2>1, <2>2, <3>1, <3>3 DEF RoundSound
  <2> QED
    BY <1>1, <2>2, <2>3, <2>4, WorkerKeeps
<1> QED
  BY <1>3, <1>4, <1>5 DEF P!Fire

LEMMA StopKeeps ==
  ASSUME ProbeInv, P!Stop
  PROVE  ProbeInv'
<1>1. RoundTypes' /\ pround'.pc = "idle"
  BY DEF P!Stop, RoundTypes, P!NoRound, P!NoAccount
<1>2. ProbeTypes'
  BY <1>1 DEF P!Stop, ProbeInv, ProbeTypes, OrderTypes
<1> QED
  BY <1>1, <1>2, WorkerKeeps DEF RoundSound, P!Stop

LEMMA AskKeeps ==
  ASSUME ProbeInv, P!Ask
  PROVE  ProbeInv'
<1>1. UNCHANGED <<pclock, porder, pquota, pdue>> /\ pround.pc = "ask"
  BY DEF P!Ask
<1>2. RoundTypes /\ OrderTypes
  BY DEF ProbeInv, ProbeTypes
<1>3. ~ppast.moved => pround.at \in DOMAIN porder
  BY <1>1 DEF ProbeInv, RoundSound
<1>4. CASE pround.at > Len(porder)
  <2>1. ppast' = ppast /\ pround' = [pround EXCEPT !.pc = "answered", !.says = "error"]
    BY <1>4 DEF P!Ask
  <2>2. RoundTypes'
    BY <1>2, <2>1 DEF RoundTypes, P!Says
  <2>3. ppast.moved
    BY <1>2, <1>3, <1>4 DEF OrderTypes, RoundTypes
  <2> QED
    BY <1>1, <2>1, <2>2, <2>3 DEF ProbeInv, ProbeTypes, OrderTypes
<1>5. CASE ~(pround.at > Len(porder))
  <2> DEFINE a == porder[pround.at]
             h == [ppast.of[a] EXCEPT !.owed = FALSE]
  <2>1. pround.at \in DOMAIN porder /\ a \in Probed
    BY <1>1, <1>2, <1>5 DEF OrderTypes, RoundTypes
  <2> HIDE DEF a
  <2>2. ppast' = [ppast EXCEPT !.of[a] = h] /\ pround' = [pround EXCEPT !.asks = a, !.pc = "asked"]
    BY <1>5 DEF P!Ask, a
  <2>3. ppast.of[a] \in ProbePasts /\ ppast.acts \in Nat
    BY <2>1 DEF ProbeInv, ProbeTypes, ProbeHistories
  <2>4. /\ h \in ProbePasts /\ h.says = ppast.of[a].says /\ h.at = ppast.of[a].at /\ h.refusals = ppast.of[a].refusals
        /\ h.nudged = ppast.of[a].nudged /\ h.awake = ppast.of[a].awake /\ ~h.owed
    BY <2>3 DEF ProbePasts
  <2> HIDE DEF h
  <2>5. Told(a, h) /\ ppast' \in ProbeHistories /\ \A b \in Probed : ppast'.of[b] = IF b = a THEN h ELSE ppast.of[b]
    BY <2>1, <2>2, <2>3, <2>4, Tells DEF ProbeInv
  <2>6. RoundTypes' /\ pround'.pc = "asked" /\ pround'.todo = pround.todo /\ pround'.at = pround.at
        /\ pround'.tok = pround.tok /\ pround'.asks = a
    BY <1>2, <2>1, <2>2 DEF RoundTypes
  <2>7. ProbeTypes'
    BY <1>1, <2>5, <2>6 DEF ProbeInv, ProbeTypes, OrderTypes
  <2>8. ASSUME ~ppast.moved, NEW b \in Probed PROVE ScheduleSound(b)'
    <3>1. ScheduleSound(b)
      BY <2>8 DEF ProbeInv
    <3> QED
      BY <3>1, <1>1, <2>4, <2>5, <2>6 DEF ScheduleSound, InHand, Folded, AboutToFold
  <2>9. ASSUME ~ppast.moved PROVE RoundSound'
    <3>1. RoundSound
      BY <2>9 DEF ProbeInv
    <3>2. pround.tok = a
      BY <1>1, <3>1 DEF RoundSound, a
    <3>3. \A b \in Probed : P!WellAsked(b) => P!WellAsked(b)'
      BY <1>1, <2>4, <2>5, <2>7, StillAsked DEF ProbeInv
    <3>4. \A j \in DOMAIN porder : porder[j] \in Probed
      BY <1>2 DEF OrderTypes
    <3> QED
      BY <1>1, <2>1, <2>4, <2>5, <2>6, <3>1, <3>2, <3>3, <3>4 DEF RoundSound
  <2> QED
    BY <2>5, <2>7, <2>8, <2>9 DEF ProbeInv, Told
<1> QED
  BY <1>4, <1>5

LEMMA ClearKeeps ==
  ASSUME ProbeInv, P!Clear
  PROVE  ProbeInv'
<1>1. UNCHANGED <<pclock, porder, pquota, ppast>> /\ pround.pc = "answered" /\ pround' = [pround EXCEPT !.pc = "settle"]
  BY DEF P!Clear
<1>2. RoundTypes /\ pdue \in Schedules /\ pclock \in Nat
  BY DEF ProbeInv, ProbeTypes
<1>3. RoundTypes' /\ pround'.pc = "settle" /\ pround'.todo = pround.todo /\ pround'.at = pround.at
      /\ pround'.tok = pround.tok /\ pround'.says = pround.says
  BY <1>1, <1>2 DEF RoundTypes
<1>4. pdue' = [pdue EXCEPT ![pround.tok] = P!ClearMark(pdue[pround.tok])]
  BY DEF P!Clear
<1>5. pdue' \in Schedules
  BY <1>2, <1>4 DEF P!ClearMark, Schedules
<1>6. ProbeTypes'
  BY <1>1, <1>3, <1>5 DEF ProbeInv, ProbeTypes, OrderTypes
<1>7. ASSUME ~ppast.moved, NEW b \in Probed PROVE ScheduleSound(b)'
  <2>1. ScheduleSound(b) /\ RoundSound
    BY <1>7 DEF ProbeInv
  <2>2. /\ pdue'[b].step = pdue[b].step /\ pdue'[b].next = pdue[b].next
        /\ (pdue'[b].dirty <=> pdue[b].dirty /\ b # pround.tok)
    BY <1>2, <1>4 DEF P!ClearMark, Schedules
  <2>3. b = pround.tok => ~ppast.of[b].owed
    BY <1>1, <2>1 DEF RoundSound
  <2> QED
    BY <2>1, <2>2, <2>3, <1>1, <1>3 DEF ScheduleSound, InHand, Folded, AboutToFold
<1>8. ASSUME ~ppast.moved PROVE RoundSound'
  <2>1. RoundSound
    BY <1>8 DEF ProbeInv
  <2>2. \A j \in DOMAIN porder : porder[j] \in Probed
    BY DEF ProbeInv, ProbeTypes, OrderTypes
  <2> QED
    BY <1>1, <1>3, <2>1, <2>2, SaidAlike DEF RoundSound
<1> QED
  BY <1>1, <1>6, <1>7, <1>8 DEF ProbeInv

LEMMA Hears ==
  ASSUME NEW g \in ProbePasts, NEW says \in P!Says, pclock \in Nat, NEW h, h = P!Heard(g, says)
  PROVE  /\ h \in ProbePasts /\ h.says = says /\ h.at = pclock /\ h.owed = g.owed
         /\ h.awake <=> g.awake \/ says \in {"ok", "exhausted"}
         /\ h.refusals = CASE says = "refused" -> g.refusals + 1 [] says \in {"error", "banned"} -> g.refusals [] OTHER -> 0
<1> DEFINE w == g.awake \/ says \in {"ok", "exhausted"}
           r == CASE says = "refused" -> g.refusals + 1 [] says \in {"error", "banned"} -> g.refusals [] OTHER -> 0
<1>1. w \in BOOLEAN /\ r \in Nat
  BY DEF ProbePasts
<1>2. h = [g EXCEPT !.says = says, !.at = pclock, !.nudged = FALSE, !.awake = w, !.refusals = r]
  BY DEF P!Heard
<1>3. h.awake = w /\ h.refusals = r
  <2> HIDE DEF w, r
  <2> QED
    BY <1>2 DEF ProbePasts
<1>4. h \in ProbePasts /\ h.says = says /\ h.at = pclock /\ h.owed = g.owed
  <2> HIDE DEF w, r
  <2> QED
    BY <1>1, <1>2 DEF ProbePasts
<1> QED
  BY <1>3, <1>4

LEMMA AnswerKeeps ==
  ASSUME ProbeInv, NEW says \in P!Says, P!Answer(says)
  PROVE  ProbeInv'
<1>0. P!Answer(says) => pround.pc = "asked"
  BY DEF P!Answer
<1>a. PICK a \in Probed : a = pround.asks
  BY <1>0 DEF ProbeInv, ProbeTypes, RoundTypes
<1>h. PICK h : h = P!Heard(ppast.of[a], says)
  OBVIOUS
<1> DEFINE resets == P!Most({pclock + 1, Midnight})
<1>1. UNCHANGED <<pclock, porder, pdue>> /\ pround.pc = "asked" /\ pround' = [pround EXCEPT !.pc = "answered", !.says = says]
  BY DEF P!Answer
<1>2. RoundTypes /\ OrderTypes /\ pquota \in Quotas /\ pclock \in Nat \ {0} /\ a \in Probed
  BY <1>1, <1>a DEF ProbeInv, ProbeTypes, RoundTypes
<1>3. resets \in Nat
  BY <1>2, MostIsNumber, RosterIsSound DEF P!ProbeAssumption
<1>4. /\ says = "ok" => pquota' = [pquota EXCEPT ![a] = [known |-> TRUE, saved |-> pclock, resets |-> resets]]
      /\ says = "exhausted" => pquota' = [pquota EXCEPT ![a] = [pquota[a] EXCEPT !.known = TRUE, !.resets = resets]]
      /\ says \notin {"ok", "exhausted"} => pquota' = pquota
      /\ ppast' = [ppast EXCEPT !.of[a] = h]
  BY <1>a, <1>h DEF P!Answer
<1>5. ppast.of[a] \in ProbePasts /\ ppast.acts \in Nat
  BY <1>2 DEF ProbeInv, ProbeTypes, ProbeHistories
<1>6. /\ h \in ProbePasts /\ h.says = says /\ h.at = pclock /\ h.owed = ppast.of[a].owed
      /\ h.awake <=> ppast.of[a].awake \/ says \in {"ok", "exhausted"}
      /\ h.refusals = CASE says = "refused" -> ppast.of[a].refusals + 1
                       [] says \in {"error", "banned"} -> ppast.of[a].refusals [] OTHER -> 0
  BY <1>2, <1>5, <1>h, Hears
<1> HIDE DEF resets
<1>7. Told(a, h) /\ ppast' \in ProbeHistories /\ \A b \in Probed : ppast'.of[b] = IF b = a THEN h ELSE ppast.of[b]
  BY <1>2, <1>4, <1>5, <1>6, Tells DEF ProbeInv
<1>8. /\ pquota' \in Quotas /\ \A b \in Probed \ {a} : pquota'[b] = pquota[b]
      /\ says = "ok" => pquota'[a].saved = pclock
      /\ says \notin {"ok", "exhausted"} => pquota'[a] = pquota[a]
  <2>1. CASE says = "ok"
    <3>1. PICK q \in [known : BOOLEAN, saved : Nat, resets : Nat] : q.saved = pclock /\ pquota' = [pquota EXCEPT ![a] = q]
      BY <1>2, <1>3, <1>4, <2>1
    <3> QED
      BY <1>2, <2>1, <3>1 DEF Quotas
  <2>2. CASE says = "exhausted"
    BY <1>2, <1>3, <1>4, <2>2 DEF Quotas
  <2>3. CASE says \notin {"ok", "exhausted"}
    BY <1>2, <1>4, <2>3
  <2> QED
    BY <2>1, <2>2, <2>3
<1>9. RoundTypes' /\ pround'.pc = "answered" /\ pround'.todo = pround.todo /\ pround'.at = pround.at
      /\ pround'.tok = pround.tok /\ pround'.says = says
  BY <1>1, <1>2 DEF RoundTypes
<1>10. ProbeTypes'
  BY <1>1, <1>7, <1>8, <1>9 DEF ProbeInv, ProbeTypes, OrderTypes
<1>11. ~ppast.moved => RoundSound /\ pround.tok = a
  BY <1>1, <1>a DEF ProbeInv, RoundSound
<1>12. ASSUME ~ppast.moved, NEW b \in Probed PROVE ScheduleSound(b)'
  <2>1. ScheduleSound(b) /\ pround.tok = a
    BY <1>11, <1>12 DEF ProbeInv
  <2>2. CASE b # a
    <3>1. ~InHand(b) /\ ~InHand(b)' /\ pquota'[b] = pquota[b] /\ ppast'.of[b] = ppast.of[b]
      BY <1>7, <1>8, <1>9, <2>1, <2>2 DEF InHand
    <3> QED
      BY <1>1, <2>1, <3>1 DEF ScheduleSound, Folded
  <2>3. CASE b = a
    <3>1. ~InHand(a) /\ InHand(a)' /\ ppast'.of[a] = h
      BY <1>1, <1>2, <1>7, <1>9, <2>1 DEF InHand
    <3>2. pdue[a].step = ppast.of[a].refusals
      BY <2>1, <2>3, <3>1 DEF ScheduleSound, Folded
    <3>3. AboutToFold(pdue[a], ppast.of[a])'
      BY <1>1, <1>6, <1>9, <3>1, <3>2 DEF AboutToFold
    <3>4. pquota'[a].known \/ pdue[a].dirty => h.awake
      BY <1>6, <1>8, <2>1, <2>3 DEF ScheduleSound
    <3> QED
      BY <1>1, <1>2, <1>6, <1>8, <2>1, <2>3, <3>1, <3>3, <3>4 DEF ScheduleSound
  <2> QED
    BY <2>2, <2>3
<1>13. ASSUME ~ppast.moved PROVE RoundSound'
  <2>1. /\ RoundSound /\ pround.tok = a /\ a = porder[pround.at]
        /\ pround.at \in DOMAIN porder \ pround.todo /\ pround.todo \subseteq DOMAIN porder
        /\ \A i \in pround.todo : P!WellAsked(porder[i])
    BY <1>1, <1>11, <1>13 DEF RoundSound
  <2>2. \A i \in pround.todo : porder[i] \in Probed \ {a}
    BY <1>2, <2>1 DEF OrderTypes
  <2>3. \A b \in Probed \ {a} : P!WellAsked(b) => P!WellAsked(b)'
    BY <1>1, <1>7, <1>10, StillAsked DEF ProbeInv
  <2>4. ~ppast'.of[a].owed
    BY <1>1, <1>2, <1>6, <1>7, <2>1 DEF RoundSound
  <2> QED
    BY <1>1, <1>9, <2>1, <2>2, <2>3, <2>4 DEF RoundSound
<1> QED
  BY <1>7, <1>10, <1>12, <1>13 DEF ProbeInv, Told

LEMMA Rescheduled ==
  ASSUME NEW d \in [dirty : BOOLEAN, next : Nat, last : Nat, step : Nat], NEW x \in Nat, NEW y \in Nat,
         NEW e, e = [d EXCEPT !.step = x, !.next = y]
  PROVE  e \in [dirty : BOOLEAN, next : Nat, last : Nat, step : Nat] /\ e.dirty = d.dirty /\ e.step = x /\ e.next = y
OBVIOUS

LEMMA Folds ==
  ASSUME NEW d \in [dirty : BOOLEAN, next : Nat, last : Nat, step : Nat], NEW says, pclock \in Nat,
         NEW e, e = P!NextSchedule(d, says)
  PROVE  /\ e \in [dirty : BOOLEAN, next : Nat, last : Nat, step : Nat] /\ e.dirty = d.dirty
         /\ says = "refused" => e.step = d.step + 1 /\ e.next = pclock + P!RetryDelay(d.step + 1)
         /\ says \in {"error", "banned"} => e.step = d.step /\ e.next = pclock + Base
         /\ says \notin {"refused", "error", "banned"} => e.step = 0
<1> DEFINE r == P!RetryDelay(d.step + 1)
           m == P!Most({pclock + 1, Midnight})
<1>1. r \in Nat /\ m \in Nat /\ Base \in Nat
  BY DelayIsNumber, MostIsNumber, RosterIsSound DEF P!ProbeAssumption
<1>2. /\ says = "refused" => e = [d EXCEPT !.step = d.step + 1, !.next = pclock + r]
      /\ says = "exhausted" => e = [d EXCEPT !.step = 0, !.next = m]
      /\ says \in {"error", "banned"} => e = [d EXCEPT !.next = pclock + Base]
      /\ says \notin {"refused", "exhausted", "error", "banned"} => e = [d EXCEPT !.step = 0, !.next = 0]
  BY DEF P!NextSchedule
<1> HIDE DEF r, m
<1>3. CASE says = "refused"
  <2>1. e = [d EXCEPT !.step = d.step + 1, !.next = pclock + r]
    BY <1>2, <1>3
  <2>2. d.step + 1 \in Nat /\ pclock + r \in Nat
    BY <1>1
  <2> QED
    BY <1>3, <2>1, <2>2, Rescheduled DEF r
<1>4. CASE says = "exhausted"
  <2>1. e = [d EXCEPT !.step = 0, !.next = m]
    BY <1>2, <1>4
  <2>2. e \in [dirty : BOOLEAN, next : Nat, last : Nat, step : Nat] /\ e.dirty = d.dirty /\ e.step = 0
    <3>1. 0 \in Nat /\ m \in Nat
      BY <1>1
    <3> QED
      BY <2>1, <3>1, Rescheduled
  <2> QED
    BY <1>4, <2>2
<1>5. CASE says \in {"error", "banned"}
  BY <1>1, <1>2, <1>5
<1>6. CASE says \notin {"refused", "exhausted", "error", "banned"}
  <2>1. e = [d EXCEPT !.step = 0, !.next = 0]
    BY <1>2, <1>6
  <2>2. e \in [dirty : BOOLEAN, next : Nat, last : Nat, step : Nat] /\ e.dirty = d.dirty /\ e.step = 0
    <3>1. 0 \in Nat
      OBVIOUS
    <3> QED
      BY <2>1, <3>1, Rescheduled
  <2> QED
    BY <1>6, <2>2
<1> QED
  BY <1>3, <1>4, <1>5, <1>6

LEMMA SettleKeeps ==
  ASSUME ProbeInv, P!Settle
  PROVE  ProbeInv'
<1> DEFINE a == pround.tok
           says == pround.says
<1>1. /\ UNCHANGED <<pclock, porder, pquota, ppast>> /\ pround.pc = "settle"
      /\ pround' = [pc |-> "fire", todo |-> pround.todo, at |-> 0, tok |-> "none", asks |-> "none", says |-> "none"]
      /\ pdue' = [pdue EXCEPT ![a] = P!NextSchedule(pdue[a], says)]
  BY DEF P!Settle, P!NoRound, P!NoAccount
<1>2. RoundTypes /\ OrderTypes /\ pdue \in Schedules /\ pclock \in Nat
  BY DEF ProbeInv, ProbeTypes
<1>3. RoundTypes'
  BY <1>1, <1>2 DEF RoundTypes
<1>e. PICK e : e = P!NextSchedule(pdue[a], says)
  OBVIOUS
<1>4. ASSUME a \in Probed
      PROVE  /\ e \in [dirty : BOOLEAN, next : Nat, last : Nat, step : Nat] /\ e.dirty = pdue[a].dirty
             /\ says = "refused" => e.step = pdue[a].step + 1 /\ e.next = pclock + P!RetryDelay(pdue[a].step + 1)
             /\ says \in {"error", "banned"} => e.step = pdue[a].step /\ e.next = pclock + Base
             /\ says \notin {"refused", "error", "banned"} => e.step = 0
  <2> HIDE DEF a, says
  <2> QED
    BY <1>2, <1>4, <1>e, Folds DEF Schedules
<1> HIDE DEF a, says
<1>5. pdue' \in Schedules
  BY <1>1, <1>2, <1>4, <1>e DEF Schedules
<1>6. ProbeTypes'
  BY <1>1, <1>3, <1>5 DEF ProbeInv, ProbeTypes, OrderTypes
<1>7. ASSUME ~ppast.moved, NEW b \in Probed PROVE ScheduleSound(b)'
  <2>1. ScheduleSound(b) /\ ~InHand(b)'
    BY <1>1, <1>7 DEF ProbeInv, InHand
  <2>2. CASE b # a
    <3>1. ~InHand(b) /\ pdue'[b] = pdue[b]
      BY <1>1, <1>2, <2>2 DEF InHand, Schedules, a
    <3> QED
      BY <1>1, <2>1, <3>1 DEF ScheduleSound, Folded
  <2>3. CASE b = a
    <3>1. InHand(b) /\ pdue'[b] = e
      BY <1>1, <1>2, <1>e, <2>3 DEF InHand, Schedules, a
    <3>2. AboutToFold(pdue[a], ppast.of[a])
      BY <2>1, <2>3, <3>1 DEF ScheduleSound
    <3>3. Folded(pdue'[a], ppast.of[a])
      BY <1>4, <2>3, <3>1, <3>2 DEF AboutToFold, Folded, says
    <3> QED
      BY <1>1, <1>4, <2>1, <2>3, <3>1, <3>3 DEF ScheduleSound, Folded
  <2> QED
    BY <2>2, <2>3
<1>8. ASSUME ~ppast.moved PROVE RoundSound'
  <2>1. RoundSound
    BY <1>8 DEF ProbeInv
  <2>2. \A j \in DOMAIN porder : porder[j] \in Probed
    BY <1>2 DEF OrderTypes
  <2> QED
    BY <1>1, <2>1, <2>2, SaidAlike DEF RoundSound
<1> QED
  BY <1>1, <1>6, <1>7, <1>8 DEF ProbeInv

\* An operator's edit of the roster: while a round is under way nothing more is said of it.
LEMMA MoveKeeps ==
  ASSUME ProbeInv, P!Move
  PROVE  ProbeInv'
<1>1. UNCHANGED <<pclock, pquota, pdue, pround>> /\ OrderTypes /\ RoundTypes
  BY DEF P!Move, ProbeInv, ProbeTypes
<1>2. ppast' = [ppast EXCEPT !.acts = ppast.acts + 1, !.moved = ppast.moved \/ pround.pc # "idle"]
  BY DEF P!Move
<1>3. ppast \in ProbeHistories
  BY DEF ProbeInv, ProbeTypes
<1>4. ppast' \in ProbeHistories /\ ppast'.of = ppast.of /\ (ppast'.moved <=> ppast.moved \/ pround.pc # "idle")
  <2> DEFINE moved == ppast.moved \/ pround.pc # "idle"
  <2>1. moved \in BOOLEAN /\ ppast' = [ppast EXCEPT !.acts = ppast.acts + 1, !.moved = moved]
    BY <1>2, <1>3 DEF ProbeHistories
  <2>2. ppast' \in ProbeHistories /\ ppast'.of = ppast.of /\ ppast'.moved = moved
    <3> DEFINE n == ppast.acts + 1
    <3>1. n \in Nat /\ ppast.of \in [Probed -> ProbePasts] /\ ppast = [of |-> ppast.of, acts |-> ppast.acts, moved |-> ppast.moved]
      BY <1>3 DEF ProbeHistories
    <3> HIDE DEF moved, n
    <3>2. ppast' = [of |-> ppast.of, acts |-> n, moved |-> moved]
      BY <2>1, <3>1 DEF n
    <3> QED
      BY <2>1, <3>1, <3>2 DEF ProbeHistories
  <2> QED
    BY <2>2
<1>5. OrderTypes'
  <2>1. CASE \E i, j \in DOMAIN porder : i < j /\ porder' = [porder EXCEPT ![i] = porder[j], ![j] = porder[i]]
    <3>1. PICK i, j \in DOMAIN porder : i < j /\ porder' = [porder EXCEPT ![i] = porder[j], ![j] = porder[i]]
      BY <2>1
    <3>2. porder \in Seq(Probed) /\ i # j /\ i \in 1 .. Len(porder) /\ j \in 1 .. Len(porder)
      BY <1>1, <3>1 DEF OrderTypes
    <3>3. porder' \in Seq(Probed) /\ DOMAIN porder' = DOMAIN porder
      BY <3>1, <3>2
    <3>4. \A k \in DOMAIN porder : porder'[k] = IF k = j THEN porder[i] ELSE IF k = i THEN porder[j] ELSE porder[k]
      BY <3>1, <3>2
    <3> QED
      BY <1>1, <3>1, <3>3, <3>4 DEF OrderTypes
  <2>2. CASE \E i \in DOMAIN porder : porder' = P!RemoveAt(porder, i)
    <3>1. PICK i \in DOMAIN porder : porder' = SubSeq(porder, 1, i - 1) \o SubSeq(porder, i + 1, Len(porder))
      BY <2>2 DEF P!RemoveAt
    <3>2. porder \in Seq(Probed) /\ i \in 1 .. Len(porder) /\ Len(porder) \in Nat
      BY <1>1, <3>1 DEF OrderTypes
    <3> DEFINE left == SubSeq(porder, 1, i - 1)
               right == SubSeq(porder, i + 1, Len(porder))
    <3>a. left \in Seq(Probed) /\ Len(left) = i - 1
      BY <3>2
    <3>b. right \in Seq(Probed) /\ Len(right) = Len(porder) - i
      BY <3>2
    <3>c. left \o right \in Seq(Probed) /\ Len(left \o right) = Len(left) + Len(right)
      <4> HIDE DEF left, right
      <4> QED
        BY <3>a, <3>b
    <3>3. porder' \in Seq(Probed) /\ Len(porder') = Len(porder) - 1
      <4>1. porder' = left \o right
        BY <3>1
      <4>2. i \in Nat /\ Len(porder) \in Nat
        BY <3>2
      <4> HIDE DEF left, right
      <4>3. Len(left) + Len(right) = Len(porder) - 1
        BY <3>a, <3>b, <4>2
      <4> QED
        BY <3>c, <4>1, <4>3
    <3> HIDE DEF left, right
    <3>4. \A k \in 1 .. Len(porder) - 1 : porder'[k] = IF k < i THEN porder[k] ELSE porder[k + 1]
      BY <3>1, <3>2
    <3>5. DOMAIN porder' = 1 .. Len(porder) - 1 /\ DOMAIN porder = 1 .. Len(porder)
      BY <3>2, <3>3
    <3> QED
      BY <1>1, <3>2, <3>3, <3>4, <3>5 DEF OrderTypes
  <2> QED
    BY <2>1, <2>2 DEF P!Move
<1>6. ProbeTypes'
  BY <1>1, <1>4, <1>5 DEF ProbeInv, ProbeTypes, RoundTypes
<1>7. ASSUME ~ppast'.moved PROVE (RoundSound /\ \A b \in Probed : ScheduleSound(b))'
  <2>1. ~ppast.moved /\ pround.pc = "idle"
    BY <1>4, <1>7
  <2>2. \A b \in Probed : ScheduleSound(b)
    BY <2>1 DEF ProbeInv
  <2> QED
    BY <1>1, <1>4, <2>1, <2>2 DEF RoundSound, ScheduleSound, InHand, Folded, AboutToFold
<1> QED
  BY <1>6, <1>7 DEF ProbeInv

LEMMA ProbeStarts == P!ProbeInit => ProbeInv
<1> SUFFICES ASSUME P!ProbeInit PROVE ProbeInv
  OBVIOUS
<1> USE DEF P!ProbeInit
<1>1. OrderTypes
  BY RosterIsSound DEF P!ProbeAssumption, OrderTypes, Probed
<1>2. RoundTypes /\ pround.pc = "idle"
  BY DEF RoundTypes, P!NoRound, P!NoAccount
<1>3. pquota \in Quotas /\ pdue \in Schedules
  BY DEF Quotas, Schedules, Probed
<1>4. ppast \in ProbeHistories
  BY DEF ProbeHistories, ProbePasts, Probed
<1>5. \A a \in Probed : ScheduleSound(a)
  BY <1>2 DEF ScheduleSound, InHand, Folded, Probed
<1> QED
  BY <1>1, <1>2, <1>3, <1>4, <1>5 DEF ProbeInv, ProbeTypes, RoundSound

LEMMA ProbeKept == ProbeInv /\ [P!ProbeNext]_probeVars => ProbeInv'
<1> SUFFICES ASSUME ProbeInv, [P!ProbeNext]_probeVars PROVE ProbeInv'
  OBVIOUS
<1>1. CASE \E a \in Probed : P!Mark(a) \/ P!MarkMoves(a) \/ P!Health(a)
  BY <1>1, MarkKeeps, MarkMovesKeeps, OutsideKeeps
<1>2. CASE P!Later
  BY <1>2, OutsideKeeps DEF Probed
<1>3. CASE UNCHANGED probeVars
  <2>1. \A a \in Probed : P!WellAsked(a)' <=> P!WellAsked(a)
    BY <1>3, SaidAlike DEF probeVars
  <2>2. \A j \in DOMAIN porder : porder[j] \in Probed
    BY DEF ProbeInv, ProbeTypes, OrderTypes
  <2>3. ProbeTypes' /\ (~ppast.moved => \A a \in Probed : ScheduleSound(a)')
    BY <1>3 DEF probeVars, ProbeInv, ProbeTypes, OrderTypes, RoundTypes, ScheduleSound, InHand, Folded, AboutToFold
  <2>4. ~ppast.moved => RoundSound'
    BY <1>3, <2>1, <2>2 DEF probeVars, ProbeInv, RoundSound
  <2> QED
    BY <1>3, <2>3, <2>4 DEF probeVars, ProbeInv
<1> QED
  BY <1>1, <1>2, <1>3, TickKeeps, FireKeeps, AskKeeps, AnswerKeeps, ClearKeeps, SettleKeeps, StopKeeps, MoveKeeps
     DEF P!ProbeNext, Probed

LEMMA ProbeMeasures == ProbeInv /\ [P!ProbeNext]_probeVars => [P!ProbeStep]_probeVars
<1> SUFFICES ASSUME ProbeInv, P!ProbeNext, ~ppast.moved PROVE P!ProbeStep
  BY DEF P!ProbeStep
<1>1. P!MarkKept
  BY DEF ProbeInv, ScheduleSound, P!MarkKept, Probed
<1>2. ASSUME pround.pc = "ask", pround'.pc = "asked" PROVE P!WellAsked(pround'.asks)
  <2>1. RoundSound /\ RoundTypes
    BY DEF ProbeInv, ProbeTypes
  <2>2. P!Ask \/ (UNCHANGED pround)
    BY <1>2, <2>1 DEF P!ProbeNext, P!Mark, P!MarkMoves, P!Health, P!Tick, P!Fire, P!Clear, P!Settle, P!Stop, P!Later, P!Move, P!Answer
  <2>3. pround'.asks = porder[pround.at]
    BY <1>2, <2>1, <2>2 DEF P!Ask, RoundTypes
  <2> QED
    BY <1>2, <2>1, <2>3 DEF RoundSound
<1> QED
  BY <1>1, <1>2 DEF P!ProbeStep

-----------------------------------------------------------------------------
(* Maturity: the snapshot of an account is of its last touch.              *)
Walks == [pc : {"idle", "look", "decide", "touch"}, i : Nat, now : Nat, all : BOOLEAN, since : Nat]
Touches == [by : M!Who \cup {"none"}, at : Nat, done : Int]
NightPasts == [touch : [M!Accounts -> Touches], acts : Nat, erased : SUBSET Nat, limited : BOOLEAN, ticked : Nat]
NightTypes ==
  /\ sclock \in Nat /\ sjob \in [M!Who -> Walks]
  /\ smat \in [M!Accounts -> [touched : BOOLEAN, at : Nat, result : {"none", "skip", "ok", "error"}]]
  /\ spast \in NightPasts

\* The snapshot is of the last touch, and says "ok" of one that succeeded until a skip erases it.
SnapshotSound(a) ==
  /\ smat[a].touched <=> spast.touch[a].by # "none"
  /\ smat[a].touched => smat[a].at = spast.touch[a].at
  /\ spast.touch[a].done # M!Never /\ a \notin spast.erased => smat[a].result = "ok"
\* A touch under way began no longer than its timeout ago, the tick's in the gate.
WalksSound ==
  /\ spast.limited => sjob["tick"].pc = "idle"
  /\ sjob["tick"].pc = "touch" => M!InFireGate(sjob["tick"].now)
  /\ \A w \in M!Who : sjob[w].pc = "touch" => sjob[w].since <= sclock /\ sclock <= sjob[w].since + Buffer
NightInv == NightTypes /\ WalksSound /\ \A a \in M!Accounts : SnapshotSound(a)

LEMMA OneNumber ==
  ASSUME NEW d \in Nat \ {0}, NEW b \in Nat, NEW n \in Nat, NEW m \in Nat, n % d < d - b, n <= m, m <= n + b
  PROVE  m \div d = n \div d
OBVIOUS

\* Nothing that began in the gate ends on another day.
LEMMA SameDay ==
  ASSUME NEW n \in Nat, NEW m \in Nat, M!InFireGate(n), n <= m, m <= n + Buffer
  PROVE  M!DayOf(m) = M!DayOf(n)
BY OneNumber, NightsAreSound DEF M!InFireGate, M!DayOf, M!MaturityAssumption

\* What a step makes of one walk.
Walked(who, j) == j \in Walks /\ sjob' = [sjob EXCEPT ![who] = j]

LEMMA Nexts ==
  ASSUME NightTypes, NEW who \in M!Who, sjob' = M!NextOf(who)
  PROVE  \E j \in Walks : Walked(who, j) /\ j.pc \in {"idle", "look"}
<1> DEFINE j == IF sjob[who].i = Len(sfit) THEN M!NoJob ELSE [sjob[who] EXCEPT !.pc = "look", !.i = sjob[who].i + 1]
<1>1. sjob[who] \in Walks
  BY DEF NightTypes
<1>2. j \in Walks /\ j.pc \in {"idle", "look"}
  <2>1. M!NoJob \in Walks /\ M!NoJob.pc = "idle"
    BY DEF Walks, M!NoJob
  <2>2. PICK k : k = sjob[who].i + 1
    OBVIOUS
  <2>3. k \in Nat
    BY <1>1, <2>2 DEF Walks
  <2>4. [sjob[who] EXCEPT !.pc = "look", !.i = k] \in Walks /\ [sjob[who] EXCEPT !.pc = "look", !.i = k].pc = "look"
    BY <1>1, <2>3 DEF Walks
  <2> QED
    BY <2>1, <2>2, <2>4
<1>3. sjob' = [sjob EXCEPT ![who] = j]
  BY DEF M!NextOf
<1> HIDE DEF j
<1> QED
  BY <1>2, <1>3 DEF Walked

\* A walk that moves on, with what it records: a skip or nothing.
Records(a) == M!Skip(a) \/ UNCHANGED <<smat, spast>>

LEMMA SkipKeeps ==
  ASSUME NightInv, NEW a \in Nat, Records(a), UNCHANGED sfit
  PROVE  /\ \A b \in M!Accounts : SnapshotSound(b)'
         /\ smat' \in [M!Accounts' -> [touched : BOOLEAN, at : Nat, result : {"none", "skip", "ok", "error"}]]
         /\ spast' \in NightPasts'
         /\ spast'.touch = spast.touch /\ spast'.limited = spast.limited
<1>1. M!Accounts' = M!Accounts
  BY DEF M!Accounts
<1>2. CASE UNCHANGED <<smat, spast>>
  BY <1>1, <1>2 DEF NightInv, NightTypes, NightPasts, SnapshotSound
<1>3. CASE M!Skip(a)
  <2>1. smat' \in [M!Accounts -> [touched : BOOLEAN, at : Nat, result : {"none", "skip", "ok", "error"}]]
        /\ \A b \in M!Accounts : smat'[b].touched = smat[b].touched /\ smat'[b].at = smat[b].at
                                 /\ (b # a => smat'[b].result = smat[b].result)
    BY <1>3 DEF M!Skip, NightInv, NightTypes
  <2>2. spast'.touch = spast.touch /\ spast'.limited = spast.limited
        /\ spast.erased \subseteq spast'.erased /\ (smat[a].result = "ok" => a \in spast'.erased)
        /\ spast' \in NightPasts
    BY <1>3 DEF M!Skip, NightInv, NightTypes, NightPasts
  <2> QED
    BY <1>1, <2>1, <2>2 DEF NightInv, SnapshotSound, NightPasts
<1> QED
  BY <1>2, <1>3 DEF Records

LEMMA WalkKeeps ==
  ASSUME NightInv, NEW who \in M!Who, NEW j, Walked(who, j), UNCHANGED sclock,
         j.pc = "touch" => j.since = sclock /\ (who = "tick" => M!InFireGate(j.now)),
         spast'.limited => IF who = "tick" THEN j.pc = "idle" ELSE spast.limited
  PROVE  WalksSound' /\ sjob' \in [M!Who -> Walks]
<1>1. sjob' \in [M!Who -> Walks] /\ \A w \in M!Who : sjob'[w] = IF w = who THEN j ELSE sjob[w]
  BY DEF Walked, NightInv, NightTypes
<1>2. Buffer \in Nat /\ sclock \in Nat /\ "tick" \in M!Who
  BY NightsAreSound DEF M!MaturityAssumption, NightInv, NightTypes, M!Who
<1>3. (spast.limited => sjob["tick"].pc = "idle")'
  BY <1>1, <1>2 DEF NightInv, WalksSound
<1>4. (sjob["tick"].pc = "touch" => M!InFireGate(sjob["tick"].now))'
  BY <1>1, <1>2 DEF NightInv, WalksSound
<1>5. (\A w \in M!Who : sjob[w].pc = "touch" => sjob[w].since <= sclock /\ sclock <= sjob[w].since + Buffer)'
  BY <1>1, <1>2 DEF NightInv, WalksSound
<1> QED
  BY <1>1, <1>3, <1>4, <1>5 DEF WalksSound

\* A step that records no touch.
LEMMA QuietKeeps ==
  ASSUME NightInv, NEW a \in Nat, Records(a), NEW who \in M!Who, NEW j, Walked(who, j), UNCHANGED <<sclock, sfit>>,
         j.pc = "touch" => j.since = sclock /\ (who = "tick" => M!InFireGate(j.now)),
         who = "tick" => sjob["tick"].pc # "idle"
  PROVE  NightInv'
<1>1. spast'.limited = spast.limited /\ (who = "tick" => ~spast.limited)
  BY SkipKeeps DEF NightInv, WalksSound
<1>2. WalksSound' /\ sjob' \in [M!Who -> Walks]
  BY <1>1, WalkKeeps
<1>3. /\ \A b \in M!Accounts : SnapshotSound(b)'
      /\ smat' \in [M!Accounts' -> [touched : BOOLEAN, at : Nat, result : {"none", "skip", "ok", "error"}]]
      /\ spast' \in NightPasts' /\ M!Accounts' = M!Accounts
  BY SkipKeeps DEF M!Accounts
<1>4. sclock' \in Nat
  BY DEF NightInv, NightTypes
<1> QED
  BY <1>2, <1>3, <1>4 DEF NightInv, NightTypes

LEMMA BeginKeepsNight ==
  ASSUME NightInv, M!TickBegins \/ \E all \in BOOLEAN : M!ForceBegins(all)
  PROVE  NightInv'
<1>1. UNCHANGED <<sclock, sfit, smat>> /\ sclock \in Nat
  BY DEF M!TickBegins, M!ForceBegins, NightInv, NightTypes
<1>0. M!Accounts' = M!Accounts /\ NightPasts' = NightPasts
  BY <1>1 DEF M!Accounts, NightPasts
<1>2. CASE M!TickBegins
  <2> DEFINE j == [M!NoJob EXCEPT !.pc = "look", !.i = 1, !.now = sclock]
  <2>1. j \in Walks /\ j.pc = "look"
    BY <1>1 DEF Walks, M!NoJob
  <2>2. sjob' = [sjob EXCEPT !["tick"] = j] /\ spast' = [spast EXCEPT !.limited = FALSE, !.ticked = sclock + 1]
    BY <1>2 DEF M!TickBegins
  <2> HIDE DEF j
  <2>3. /\ spast' \in NightPasts
        /\ ~spast'.limited /\ spast'.touch = spast.touch /\ spast'.erased = spast.erased
    <3>1. PICK k \in Nat : k = sclock + 1
      BY <1>1
    <3>2. spast \in NightPasts
      BY DEF NightInv, NightTypes
    <3> QED
      BY <1>1, <2>2, <3>1, <3>2 DEF NightPasts
  <2>4. WalksSound' /\ sjob' \in [M!Who -> Walks]
    BY <1>1, <2>1, <2>2, <2>3, WalkKeeps DEF Walked, M!Who
  <2> QED
    BY <1>0, <1>1, <2>3, <2>4 DEF NightInv, NightTypes, SnapshotSound
<1>3. ASSUME NEW all \in BOOLEAN, M!ForceBegins(all) PROVE NightInv'
  <2> DEFINE j == [M!NoJob EXCEPT !.pc = "look", !.i = 1, !.now = sclock, !.all = all]
  <2>1. j \in Walks /\ j.pc = "look"
    BY <1>1 DEF Walks, M!NoJob
  <2>2. sjob' = [sjob EXCEPT !["forced"] = j] /\ spast' = [spast EXCEPT !.acts = spast.acts + 1]
    BY <1>3 DEF M!ForceBegins
  <2> HIDE DEF j
  <2>3. /\ spast' \in NightPasts
        /\ spast'.limited = spast.limited /\ spast'.touch = spast.touch /\ spast'.erased = spast.erased
    <3>1. PICK k \in Nat : k = sclock + 1
      BY <1>1
    <3>2. spast \in NightPasts
      BY DEF NightInv, NightTypes
    <3> QED
      BY <1>1, <2>2, <3>1, <3>2 DEF NightPasts
  <2>4. WalksSound' /\ sjob' \in [M!Who -> Walks]
    BY <1>1, <2>1, <2>2, <2>3, WalkKeeps DEF Walked, M!Who
  <2> QED
    BY <1>0, <1>1, <2>3, <2>4 DEF NightInv, NightTypes, SnapshotSound
<1> QED
  BY <1>2, <1>3

LEMMA LookKeeps ==
  ASSUME NightInv, M!Look
  PROVE  NightInv'
<1> DEFINE a == sjob["tick"].i
<1>1. sjob["tick"] \in Walks /\ a \in Nat /\ "tick" \in M!Who /\ sjob["tick"].pc = "look" /\ UNCHANGED <<sclock, sfit>>
  BY DEF M!Look, NightInv, NightTypes, Walks, M!Who
<1>2. CASE M!SkipIf(M!InWindow(sjob["tick"].now), a) /\ sjob' = M!NextOf("tick")
  <2>1. PICK j \in Walks : Walked("tick", j) /\ j.pc \in {"idle", "look"}
    BY <1>1, <1>2, Nexts DEF NightInv
  <2> HIDE DEF a
  <2> QED
    BY <1>1, <1>2, <2>1, QuietKeeps DEF M!SkipIf, Records
<1>3. CASE sjob' = [sjob EXCEPT !["tick"].pc = "decide"] /\ UNCHANGED <<smat, spast>>
  <2>1. PICK j : j = [sjob["tick"] EXCEPT !.pc = "decide"]
    OBVIOUS
  <2>2. Walked("tick", j) /\ j.pc = "decide"
    BY <1>1, <1>3, <2>1 DEF Walked, Walks
  <2> HIDE DEF a
  <2> QED
    BY <1>1, <1>3, <2>2, QuietKeeps DEF Records
<1> QED
  BY <1>2, <1>3 DEF M!Look

\* A touch that begins, of the tick's or of the operator's walk.
LEMMA Started ==
  ASSUME NightTypes, NEW who \in M!Who, M!Start(who)
  PROVE  \E j \in Walks : Walked(who, j) /\ j.pc = "touch" /\ j.since = sclock /\ j.now = sjob[who].now
<1>1. PICK j : j = [sjob[who] EXCEPT !.pc = "touch", !.since = sclock]
  OBVIOUS
<1>2. sjob[who] \in Walks /\ sclock \in Nat
  BY DEF NightTypes
<1>3. j \in Walks /\ j.pc = "touch" /\ j.since = sclock /\ j.now = sjob[who].now
  BY <1>1, <1>2 DEF Walks
<1>4. sjob' = [sjob EXCEPT ![who] = j]
  BY <1>1 DEF M!Start
<1> QED
  BY <1>3, <1>4 DEF Walked

LEMMA DecideKeeps ==
  ASSUME NightInv, M!Decide
  PROVE  NightInv'
<1> DEFINE a == sjob["tick"].i
<1>1. sjob["tick"] \in Walks /\ a \in Nat /\ "tick" \in M!Who /\ sjob["tick"].pc = "decide" /\ UNCHANGED <<sclock, sfit>>
  BY DEF M!Decide, NightInv, NightTypes, Walks, M!Who
<1>2. CASE Records(a) /\ sjob' = M!NextOf("tick")
  <2>1. PICK j \in Walks : Walked("tick", j) /\ j.pc \in {"idle", "look"}
    BY <1>1, <1>2, Nexts DEF NightInv
  <2> HIDE DEF a
  <2> QED
    BY <1>1, <1>2, <2>1, QuietKeeps
<1>3. CASE M!InFireGate(sjob["tick"].now) /\ M!Start("tick") /\ UNCHANGED smat
  <2>1. PICK j \in Walks : Walked("tick", j) /\ j.pc = "touch" /\ j.since = sclock /\ j.now = sjob["tick"].now
    BY <1>1, <1>3, Started DEF NightInv
  <2>2. Records(a) /\ M!InFireGate(j.now)
    BY <1>3, <2>1 DEF M!Start, Records
  <2> HIDE DEF a
  <2> QED
    BY <1>1, <2>1, <2>2, QuietKeeps
<1> QED
  BY <1>2, <1>3 DEF M!Decide, M!SkipIf, Records

LEMMA ForceLookKeeps ==
  ASSUME NightInv, M!ForceLook
  PROVE  NightInv'
<1>1. "forced" \in M!Who /\ "forced" # "tick" /\ UNCHANGED <<sclock, sfit, smat, spast>> /\ 0 \in Nat /\ Records(0)
  BY DEF M!ForceLook, M!Start, M!Who, Records
<1>2. \E j \in Walks : Walked("forced", j) /\ (j.pc = "touch" => j.since = sclock)
  BY <1>1, Nexts, Started DEF M!ForceLook, NightInv
<1> QED
  BY <1>1, <1>2, QuietKeeps

LEMMA DayIsNumber == \A n \in Nat : M!DayOf(n) \in Nat
BY NightsAreSound DEF M!DayOf, M!MaturityAssumption

\* A touch that ended and is recorded.
LEMMA Recording ==
  ASSUME NightInv, NEW a \in Nat, NEW t \in Touches, t.by # "none", NEW r \in {"ok", "error"},
         r = "ok" \/ t.done = M!Never, UNCHANGED sfit,
         smat' = [smat EXCEPT ![a] = [touched |-> TRUE, at |-> t.at, result |-> r]],
         NEW gone \in SUBSET Nat, spast.erased \ {a} \subseteq gone, NEW limited \in BOOLEAN,
         spast' = [touch |-> [spast.touch EXCEPT ![a] = t], acts |-> spast.acts, erased |-> gone, limited |-> limited,
                   ticked |-> spast.ticked]
  PROVE  /\ \A b \in M!Accounts : SnapshotSound(b)'
         /\ smat' \in [M!Accounts' -> [touched : BOOLEAN, at : Nat, result : {"none", "skip", "ok", "error"}]]
         /\ spast' \in NightPasts' /\ M!Accounts' = M!Accounts /\ spast'.limited = limited
<1>1. M!Accounts' = M!Accounts /\ NightPasts' = NightPasts
  BY DEF M!Accounts, NightPasts
<1>2. t.at \in Nat /\ spast.touch \in [M!Accounts -> Touches] /\ spast.acts \in Nat /\ spast.ticked \in Nat
  BY DEF Touches, NightInv, NightTypes, NightPasts
<1>3. /\ smat' \in [M!Accounts -> [touched : BOOLEAN, at : Nat, result : {"none", "skip", "ok", "error"}]]
      /\ \A b \in M!Accounts : smat'[b] = IF b = a THEN [touched |-> TRUE, at |-> t.at, result |-> r] ELSE smat[b]
  BY <1>2 DEF NightInv, NightTypes
<1>4. spast' \in NightPasts /\ \A b \in M!Accounts : spast'.touch[b] = IF b = a THEN t ELSE spast.touch[b]
  BY <1>2 DEF NightPasts
<1>5. \A b \in M!Accounts : SnapshotSound(b)'
  BY <1>1, <1>3, <1>4 DEF NightInv, SnapshotSound
<1> QED
  BY <1>1, <1>3, <1>4, <1>5

LEMMA PastsAre ==
  ASSUME NightTypes, NEW a, NEW t, NEW gone, NEW limited
  PROVE  /\ [spast EXCEPT !.touch[a] = t] = [touch |-> [spast.touch EXCEPT ![a] = t], acts |-> spast.acts,
                 erased |-> spast.erased, limited |-> spast.limited, ticked |-> spast.ticked]
         /\ [spast EXCEPT !.touch[a] = t, !.erased = gone] = [touch |-> [spast.touch EXCEPT ![a] = t], acts |-> spast.acts,
                 erased |-> gone, limited |-> spast.limited, ticked |-> spast.ticked]
         /\ [spast EXCEPT !.touch[a] = t, !.limited = limited] = [touch |-> [spast.touch EXCEPT ![a] = t], acts |-> spast.acts,
                 erased |-> spast.erased, limited |-> limited, ticked |-> spast.ticked]
<1>1. spast = [touch |-> spast.touch, acts |-> spast.acts, erased |-> spast.erased, limited |-> spast.limited,
               ticked |-> spast.ticked]
  BY DEF NightTypes, NightPasts
<1>2. PICK p : p = [spast EXCEPT !.touch = [spast.touch EXCEPT ![a] = t]]
  OBVIOUS
<1>3. p = [touch |-> [spast.touch EXCEPT ![a] = t], acts |-> spast.acts, erased |-> spast.erased,
           limited |-> spast.limited, ticked |-> spast.ticked]
  BY <1>1, <1>2
<1>4. [p EXCEPT !.erased = gone] = [touch |-> [spast.touch EXCEPT ![a] = t], acts |-> spast.acts,
                 erased |-> gone, limited |-> spast.limited, ticked |-> spast.ticked]
      /\ [p EXCEPT !.limited = limited] = [touch |-> [spast.touch EXCEPT ![a] = t], acts |-> spast.acts,
                 erased |-> spast.erased, limited |-> limited, ticked |-> spast.ticked]
  BY <1>3
<1> QED
  BY <1>2, <1>3, <1>4

LEMMA TouchOkKeeps ==
  ASSUME NightInv, NEW who \in M!Who, M!TouchOk(who)
  PROVE  NightInv'
<1>1. UNCHANGED <<sclock, sfit>> /\ sjob[who].pc = "touch" /\ sjob[who] \in Walks /\ sclock \in Nat
  BY DEF M!TouchOk, NightInv, NightTypes
<1>2. PICK a, t, gone : a = sjob[who].i /\ t = [by |-> who, at |-> sjob[who].now, done |-> M!DayOf(sclock)] /\ gone = spast.erased \ {a}
  OBVIOUS
<1>3. a \in Nat /\ t \in Touches /\ t.by # "none" /\ gone \in SUBSET Nat /\ spast.limited \in BOOLEAN
  BY <1>1, <1>2, DayIsNumber DEF Walks, Touches, M!Who, NightInv, NightTypes, NightPasts
<1>4. smat' = [smat EXCEPT ![a] = [touched |-> TRUE, at |-> t.at, result |-> "ok"]] /\ spast' = [spast EXCEPT !.touch[a] = t, !.erased = gone]
  BY <1>2 DEF M!TouchOk, M!Recorded
<1>5. spast' = [touch |-> [spast.touch EXCEPT ![a] = t], acts |-> spast.acts, erased |-> gone, limited |-> spast.limited,
                ticked |-> spast.ticked]
  BY <1>4, PastsAre DEF NightInv
<1>6. /\ \A b \in M!Accounts : SnapshotSound(b)'
      /\ smat' \in [M!Accounts' -> [touched : BOOLEAN, at : Nat, result : {"none", "skip", "ok", "error"}]]
      /\ spast' \in NightPasts' /\ M!Accounts' = M!Accounts /\ spast'.limited = spast.limited
  <2>1. "ok" \in {"ok", "error"} /\ spast.erased \ {a} \subseteq gone
    BY <1>2
  <2>2. UNCHANGED sfit
    BY <1>1
  <2> HIDE DEF NightInv
  <2> QED
    BY <1>3, <1>4, <1>5, <2>1, <2>2, Recording
<1>7. \E j \in Walks : Walked(who, j) /\ j.pc \in {"idle", "look"}
  BY Nexts DEF NightInv, M!TouchOk
<1>8. WalksSound' /\ sjob' \in [M!Who -> Walks]
  BY <1>1, <1>6, <1>7, WalkKeeps DEF NightInv, WalksSound
<1> QED
  BY <1>1, <1>6, <1>8 DEF NightInv, NightTypes

LEMMA TouchFailsKeeps ==
  ASSUME NightInv, NEW who \in M!Who, M!TouchFails(who) \/ M!TouchLimited(who)
  PROVE  NightInv'
<1>1. UNCHANGED <<sclock, sfit>> /\ sjob[who].pc = "touch" /\ sjob[who] \in Walks /\ sclock \in Nat
  BY DEF M!TouchFails, M!TouchLimited, NightInv, NightTypes
<1>2. \E j \in Walks : /\ Walked(who, j) /\ j.pc \in {"idle", "look"}
                        /\ (M!TouchLimited(who) /\ who = "tick" => j.pc = "idle")
  <2>1. CASE M!TouchLimited(who) /\ who = "tick"
    <3>1. M!NoJob \in Walks /\ M!NoJob.pc = "idle"
      BY DEF Walks, M!NoJob
    <3>2. sjob' = [sjob EXCEPT ![who] = M!NoJob]
      BY <2>1 DEF M!TouchLimited, M!AfterLimit
    <3> QED
      BY <3>1, <3>2 DEF Walked
  <2>2. CASE ~(M!TouchLimited(who) /\ who = "tick")
    <3>1. sjob' = M!NextOf(who)
      BY <2>2 DEF M!TouchFails, M!TouchLimited, M!AfterLimit
    <3> QED
      BY <2>2, <3>1, Nexts DEF NightInv
  <2> QED
    BY <2>1, <2>2
<1>3. CASE who = "tick"
  <2>1. PICK a, t, gone : a = sjob[who].i /\ t = [by |-> who, at |-> sjob[who].now, done |-> M!Never] /\ gone = spast.erased
    OBVIOUS
  <2>2. a \in Nat /\ t \in Touches /\ t.by # "none" /\ t.done = M!Never /\ gone \in SUBSET Nat /\ spast.limited \in BOOLEAN
    BY <1>1, <2>1 DEF Walks, Touches, M!Who, M!Never, NightInv, NightTypes, NightPasts
  <2>3. /\ smat' = [smat EXCEPT ![a] = [touched |-> TRUE, at |-> t.at, result |-> "error"]]
        /\ \/ spast' = [spast EXCEPT !.touch[a] = t]
           \/ M!TouchLimited(who) /\ spast' = [spast EXCEPT !.touch[a] = t, !.limited = TRUE]
    BY <1>3, <2>1 DEF M!TouchFails, M!TouchLimited, M!Recorded
  <2>4. \E limited \in BOOLEAN :
          /\ spast' = [touch |-> [spast.touch EXCEPT ![a] = t], acts |-> spast.acts, erased |-> gone, limited |-> limited,
                       ticked |-> spast.ticked]
          /\ limited => spast.limited \/ M!TouchLimited(who)
    <3>1. CASE spast' = [spast EXCEPT !.touch[a] = t]
      <4>1. NightTypes
        BY DEF NightInv
      <4>2. spast' = [touch |-> [spast.touch EXCEPT ![a] = t], acts |-> spast.acts, erased |-> spast.erased,
                      limited |-> spast.limited, ticked |-> spast.ticked]
        BY <3>1, <4>1, PastsAre
      <4> QED
        BY <2>1, <2>2, <3>1, <4>2
    <3>2. CASE M!TouchLimited(who) /\ spast' = [spast EXCEPT !.touch[a] = t, !.limited = TRUE]
      <4>1. NightTypes
        BY DEF NightInv
      <4>2. spast' = [touch |-> [spast.touch EXCEPT ![a] = t], acts |-> spast.acts, erased |-> spast.erased,
                      limited |-> TRUE, ticked |-> spast.ticked]
        BY <3>2, <4>1, PastsAre
      <4> QED
        BY <2>1, <2>2, <3>2, <4>2
    <3> QED
      BY <2>3, <3>1, <3>2
  <2>5. PICK limited \in BOOLEAN :
          /\ spast' = [touch |-> [spast.touch EXCEPT ![a] = t], acts |-> spast.acts, erased |-> gone, limited |-> limited,
                       ticked |-> spast.ticked]
          /\ limited => spast.limited \/ M!TouchLimited(who)
    BY <2>4
  <2>6. /\ \A b \in M!Accounts : SnapshotSound(b)'
        /\ smat' \in [M!Accounts' -> [touched : BOOLEAN, at : Nat, result : {"none", "skip", "ok", "error"}]]
        /\ spast' \in NightPasts' /\ M!Accounts' = M!Accounts /\ spast'.limited = limited
    <3>1. "error" \in {"ok", "error"} /\ spast.erased \ {a} \subseteq gone
      BY <2>1
    <3>2. UNCHANGED sfit
      BY <1>1
    <3>3. smat' = [smat EXCEPT ![a] = [touched |-> TRUE, at |-> t.at, result |-> "error"]]
      BY <2>3
    <3> QED
      BY <2>2, <2>5, <3>1, <3>2, <3>3, Recording
  <2>7. WalksSound' /\ sjob' \in [M!Who -> Walks]
    <3>1. limited => M!TouchLimited(who)
      BY <1>1, <1>3, <2>5 DEF NightInv, WalksSound
    <3>2. PICK j \in Walks : Walked(who, j) /\ j.pc # "touch" /\ (M!TouchLimited(who) => j.pc = "idle")
      BY <1>2, <1>3
    <3> QED
      BY <1>1, <1>3, <2>6, <3>1, <3>2, WalkKeeps
  <2> QED
    BY <1>1, <2>6, <2>7 DEF NightInv, NightTypes
<1>4. CASE who # "tick"
  <2>1. Records(0) /\ 0 \in Nat
    BY <1>4 DEF M!TouchFails, M!TouchLimited, Records
  <2>2. PICK j \in Walks : Walked(who, j) /\ j.pc # "touch"
    BY <1>2
  <2> QED
    BY <1>1, <1>4, <2>1, <2>2, QuietKeeps
<1> QED
  BY <1>3, <1>4

LEMMA LaterKeeps ==
  ASSUME NightInv, M!Later
  PROVE  NightInv'
<1>1. UNCHANGED <<sfit, smat, sjob, spast>> /\ sclock' = sclock + 1
  BY DEF M!Later
<1>2. M!Accounts' = M!Accounts /\ NightPasts' = NightPasts
  BY <1>1 DEF M!Accounts, NightPasts
<1>3. NightTypes'
  BY <1>1, <1>2 DEF NightInv, NightTypes
<1>4. Buffer \in Nat /\ sclock \in Nat /\ \A w \in M!Who : sjob[w].since \in Nat
  BY NightsAreSound DEF M!MaturityAssumption, NightInv, NightTypes, Walks
<1>5. \A w \in M!Who : sjob[w].pc = "touch" => sclock < sjob[w].since + Buffer
  BY DEF M!Later
<1>6. \A w \in M!Who : sjob[w].pc = "touch" => sjob[w].since <= sclock'  /\ sclock' <= sjob[w].since + Buffer
  BY <1>1, <1>4, <1>5 DEF NightInv, WalksSound
<1>7. WalksSound'
  BY <1>1, <1>6 DEF NightInv, WalksSound
<1> QED
  BY <1>1, <1>2, <1>3, <1>7 DEF NightInv, SnapshotSound

LEMMA WorldKeeps ==
  ASSUME NightInv, NEW a \in M!Accounts, M!World(a)
  PROVE  NightInv'
<1>1. UNCHANGED <<sclock, smat, sjob>> /\ spast' = [spast EXCEPT !.acts = spast.acts + 1]
  BY DEF M!World
<1>2. M!Accounts' = M!Accounts
  <2>1. CASE UNCHANGED sfit
    BY <2>1 DEF M!Accounts
  <2>2. ASSUME NEW f, sfit' = [sfit EXCEPT ![a] = f] PROVE M!Accounts' = M!Accounts
    BY <2>2 DEF M!Accounts
  <2> QED
    BY <2>1, <2>2 DEF M!World
<1>3. NightPasts' = NightPasts
  BY <1>2 DEF NightPasts
<1>4. /\ spast' \in NightPasts
      /\ spast'.limited = spast.limited /\ spast'.touch = spast.touch /\ spast'.erased = spast.erased
  <2>1. spast \in NightPasts
    BY DEF NightInv, NightTypes
  <2>2. PICK k \in Nat : k = spast.acts + 1
    BY <2>1 DEF NightPasts
  <2> QED
    BY <1>1, <2>1, <2>2 DEF NightPasts
<1> QED
  BY <1>1, <1>2, <1>3, <1>4 DEF NightInv, NightTypes, SnapshotSound, WalksSound

LEMMA NightStarts == M!MatInit => NightInv
<1> SUFFICES ASSUME M!MatInit PROVE NightInv
  OBVIOUS
<1>1. M!NoJob \in Walks /\ M!NoJob.pc = "idle" /\ "none" \in M!Who \cup {"none"} /\ M!Never \in Int
  BY DEF Walks, M!NoJob, M!Never
<1>2. spast = [touch |-> [a \in M!Accounts |-> [by |-> "none", at |-> 0, done |-> M!Never]],
               acts |-> 0, erased |-> {}, limited |-> FALSE, ticked |-> 0]
      /\ smat = [a \in M!Accounts |-> [touched |-> FALSE, at |-> 0, result |-> "none"]]
      /\ sjob = [w \in M!Who |-> M!NoJob] /\ sclock = 0
  BY DEF M!MatInit
<1>3. spast \in NightPasts
  BY <1>1, <1>2 DEF NightPasts, Touches
<1>4. NightTypes
  BY <1>1, <1>2, <1>3 DEF NightTypes
<1>5. WalksSound
  BY <1>1, <1>2 DEF WalksSound, M!Who
<1>6. \A a \in M!Accounts : SnapshotSound(a)
  BY <1>2 DEF SnapshotSound
<1> QED
  BY <1>4, <1>5, <1>6 DEF NightInv

LEMMA NightKept == NightInv /\ [M!MatNext]_streakVars => NightInv'
<1> SUFFICES ASSUME NightInv, [M!MatNext]_streakVars PROVE NightInv'
  OBVIOUS
<1>1. CASE UNCHANGED streakVars
  <2>1. UNCHANGED <<sclock, sfit, smat, sjob, spast>>
    BY <1>1 DEF streakVars
  <2>2. M!Accounts' = M!Accounts /\ NightPasts' = NightPasts
    BY <2>1 DEF M!Accounts, NightPasts
  <2> QED
    BY <2>1, <2>2 DEF NightInv, NightTypes, WalksSound, SnapshotSound
<1>2. CASE M!TickBegins \/ \E all \in BOOLEAN : M!ForceBegins(all)
  BY <1>2, BeginKeepsNight
<1>3. CASE \E w \in M!Who : M!TouchOk(w) \/ M!TouchFails(w) \/ M!TouchLimited(w)
  BY <1>3, TouchOkKeeps, TouchFailsKeeps
<1>4. CASE \E a \in M!Accounts : M!World(a)
  BY <1>4, WorldKeeps
<1> QED
  BY <1>1, <1>2, <1>3, <1>4, LookKeeps, DecideKeeps, ForceLookKeeps, LaterKeeps DEF M!MatNext

\* Only Decide begins a touch of the tick's.
LEMMA TickStarts ==
  ASSUME NightInv, M!MatNext, NEW a, M!TouchBegins("tick", a)
  PROVE  ~M!OnRepeat(a, sjob["tick"].now) /\ sjob["tick"].pc = "decide"
<1>1. sjob \in [M!Who -> Walks] /\ "tick" \in M!Who /\ "forced" \in M!Who
  BY DEF NightInv, NightTypes, M!Who
<1>2. /\ sjob["tick"].pc # "touch" /\ sjob'["tick"].pc = "touch" /\ sjob["tick"].i = a
  BY DEF M!TouchBegins
<1>3. sjob' # M!NextOf("tick")
  BY <1>1, <1>2, Nexts DEF Walked, NightInv
<1>4. ~M!TickBegins
  BY <1>1, <1>2 DEF M!TickBegins, M!NoJob
<1>5. ~M!Look
  <2>1. PICK j : j = [sjob["tick"] EXCEPT !.pc = "decide"]
    OBVIOUS
  <2>2. j.pc = "decide"
    BY <1>1, <2>1 DEF Walks
  <2>3. sjob' # [sjob EXCEPT !["tick"] = j]
    BY <1>1, <1>2, <2>2
  <2> QED
    BY <1>3, <2>1, <2>3 DEF M!Look
<1>6. ASSUME NEW all PROVE ~M!ForceBegins(all)
  BY <1>1, <1>2 DEF M!ForceBegins, M!NoJob
<1>7. sjob' # M!NextOf("forced")
  BY <1>1, <1>2, Nexts DEF Walked, NightInv
<1>8. ~M!ForceLook
  BY <1>1, <1>2, <1>7 DEF M!ForceLook, M!Start
<1>9. ~M!Later /\ \A b : ~M!World(b)
  BY <1>2 DEF M!Later, M!World
<1>10. ASSUME NEW w \in M!Who PROVE ~M!TouchOk(w) /\ ~M!TouchFails(w) /\ ~M!TouchLimited(w)
  <2>1. sjob' # M!NextOf(w)
    BY <1>3, <1>7 DEF M!Who
  <2>2. w = "tick" => sjob[w].pc # "touch"
    BY <1>2
  <2> QED
    BY <1>2, <2>1, <2>2 DEF M!TouchOk, M!TouchFails, M!TouchLimited, M!AfterLimit, M!Who
<1>11. M!Decide
  BY <1>4, <1>5, <1>6, <1>8, <1>9, <1>10 DEF M!MatNext
<1> QED
  BY <1>2, <1>3, <1>11 DEF M!Decide

\* Only a touch that succeeded records one that is done, by the day upstream counts.
LEMMA TouchEnds ==
  ASSUME NightInv, M!MatNext, NEW a \in M!Accounts, spast'.touch[a] # spast.touch[a], spast'.touch[a].done # M!Never
  PROVE  spast'.touch[a].done = M!DayOf(sclock) /\ UNCHANGED sclock
<1>1. spast \in NightPasts /\ spast.touch \in [M!Accounts -> Touches]
  BY DEF NightInv, NightTypes, NightPasts
<1>2. ASSUME NEW b PROVE ~M!Skip(b)
  BY <1>1 DEF M!Skip, NightPasts
<1>3. ~UNCHANGED spast
  OBVIOUS
<1>4. ~M!TickBegins /\ \A all : ~M!ForceBegins(all)
  BY <1>1 DEF M!TickBegins, M!ForceBegins, NightPasts
<1>5. ~M!Look
  BY <1>2, <1>3 DEF M!Look, M!SkipIf
<1>6. ~M!Decide
  BY <1>2, <1>3 DEF M!Decide, M!SkipIf, M!Start
<1>7. ~M!ForceLook /\ ~M!Later
  BY <1>3 DEF M!ForceLook, M!Later, M!Start
<1>8. \A b : ~M!World(b)
  BY <1>1 DEF M!World, NightPasts
<1>9. ASSUME NEW w, NEW t, spast' = [spast EXCEPT !.touch[sjob[w].i] = t] PROVE spast'.touch[a] = t
  BY <1>1, <1>9 DEF NightPasts
<1>10. ASSUME NEW w PROVE ~M!TouchFails(w)
  <2>1. PICK t : t = [by |-> w, at |-> sjob[w].now, done |-> M!Never]
    OBVIOUS
  <2>2. spast'.touch[a] # t
    BY <2>1
  <2>3. ASSUME spast' = [spast EXCEPT !.touch[sjob[w].i] = t] PROVE FALSE
    BY <1>9, <2>2, <2>3
  <2> QED
    BY <1>3, <2>1, <2>3 DEF M!TouchFails
<1>11. ASSUME NEW w, NEW t, NEW limited, spast' = [spast EXCEPT !.touch[sjob[w].i] = t, !.limited = limited] PROVE spast'.touch[a] = t
  BY <1>1, <1>11 DEF NightPasts
<1>12. ASSUME NEW w PROVE ~M!TouchLimited(w)
  <2>1. PICK t : t = [by |-> w, at |-> sjob[w].now, done |-> M!Never]
    OBVIOUS
  <2>2. spast'.touch[a] # t
    BY <2>1
  <2>3. ASSUME spast' = [spast EXCEPT !.touch[sjob[w].i] = t, !.limited = TRUE] PROVE FALSE
    BY <1>11, <2>2, <2>3
  <2> QED
    BY <1>3, <2>1, <2>3 DEF M!TouchLimited
<1>13. PICK w \in M!Who : M!TouchOk(w)
  BY <1>4, <1>5, <1>6, <1>7, <1>8, <1>10, <1>12 DEF M!MatNext
<1>14. PICK t, gone : t = [by |-> w, at |-> sjob[w].now, done |-> M!DayOf(sclock)] /\ gone = spast.erased \ {sjob[w].i}
  OBVIOUS
<1>15. spast' = [spast EXCEPT !.touch[sjob[w].i] = t, !.erased = gone]
  BY <1>13, <1>14 DEF M!TouchOk
<1>16. spast'.touch[a] = t
  BY <1>1, <1>15 DEF NightPasts
<1> QED
  BY <1>13, <1>14, <1>16 DEF M!TouchOk

LEMMA NightMeasures == NightInv /\ [M!MatNext]_streakVars => [M!TouchStep]_streakVars
<1> SUFFICES ASSUME NightInv, M!MatNext PROVE M!TouchStep
  OBVIOUS
<1>1. ASSUME NEW a \in M!Accounts, M!TouchBegins("tick", a)
      PROVE  LET h == spast.touch[a] IN
             /\ h.by # "none" => sjob["tick"].now >= h.at + Throttle
             /\ h.by # "none" /\ h.done # M!Never /\ a \notin spast.erased => M!DayOf(h.at) # M!DayOf(sjob["tick"].now)
             /\ ~spast.limited
  <2>1. ~M!OnRepeat(a, sjob["tick"].now) /\ sjob["tick"].pc = "decide"
    BY <1>1, TickStarts
  <2>2. SnapshotSound(a) /\ ~spast.limited
    BY <2>1 DEF NightInv, WalksSound
  <2>3. sjob["tick"].now \in Nat /\ spast.touch[a].at \in Nat /\ Throttle \in Nat
    BY NightsAreSound DEF NightInv, NightTypes, NightPasts, Touches, Walks, M!Who, M!MaturityAssumption
  <2>4. "ok" # "skip"
    OBVIOUS
  <2> QED
    BY <2>1, <2>2, <2>3, <2>4 DEF M!OnRepeat, M!TouchedToday, M!Throttled, SnapshotSound
<1>2. ASSUME NEW a \in M!Accounts, sjob["tick"].pc = "touch", spast'.touch[a] # spast.touch[a], spast'.touch[a].done # M!Never,
             sjob["tick"].since = sjob["tick"].now
      PROVE  spast'.touch[a].done = M!DayOf(sjob["tick"].now)
  <2>1. spast'.touch[a].done = M!DayOf(sclock)
    BY <1>2, TouchEnds
  <2>2. M!InFireGate(sjob["tick"].now) /\ sjob["tick"].now <= sclock /\ sclock <= sjob["tick"].now + Buffer
    BY <1>2 DEF NightInv, WalksSound, M!Who
  <2>3. sjob["tick"].now \in Nat /\ sclock \in Nat
    BY DEF NightInv, NightTypes, Walks, M!Who
  <2> QED
    BY <2>1, <2>2, <2>3, SameDay
<1> QED
  BY <1>1, <1>2 DEF M!TouchStep

LEMMA TendingSteps ==
  [OfficeNext]_wholeVars => [P!ProbeNext]_probeVars /\ [M!MatNext]_streakVars
BY DEF OfficeNext, wholeVars, OStep, PStep, MStep, KStep, LStep, HStep, CStep,
       configVars, probeVars, streakVars, storeVars, ledgerVars, schemaVars, carryVars, fileVars, keptVars, otherVars

\* Whatever is asked of the accounts, and however late, an account is probed no sooner than
\* what it last said allows (pool/smart_probe.go), and the nightly walk touches it no more
\* often than its snapshot allows, and for the day that upstream counts (pool/maturity.go).
THEOREM TendedMeasured == OfficeSpec => TendingMeasured
<1> DEFINE Row == ProbeInv /\ NightInv
<1>1. OfficeInit => Row
  BY ProbeStarts, NightStarts DEF OfficeInit
<1>2. Row /\ [OfficeNext]_wholeVars => Row'
  BY TendingSteps, ProbeKept, NightKept
<1>3. Row /\ [OfficeNext]_wholeVars => [P!ProbeStep]_probeVars /\ [M!TouchStep]_streakVars
  BY TendingSteps, ProbeMeasures, NightMeasures
<1> QED
  BY <1>1, <1>2, <1>3, PTL DEF OfficeSpec, wholeVars, TendingMeasured
-----------------------------------------------------------------------------
(* The rows of older files.  As long as nothing was cut short a table of   *)
(* the operator's state either holds what the first file had of it or no   *)
(* file looked at so far had any, and the history likewise as a whole.     *)

StateNames == C!Names(StateTables)
HistoryNames == C!Names(HistoryTables)
Of(j, t) == C!Holds(files[j], t)
Places == DOMAIN files
Boots == [pc : {"down", "state", "stateCopy", "env", "history", "historyCopy", "up"}, i : Nat, k : Nat, empty : SUBSET C!Tables]
CarryPasts == [found : SUBSET C!Tables, cut : BOOLEAN, emptied : SUBSET (C!Tables \ {"settings"}), faults : Nat, boots : Nat,
           writes : Nat]
CarryTypes ==
  /\ files \in Seq(C!Legacy) /\ live = [x \in C!Tables |-> live[x]]
  /\ boot \in Boots /\ carried \in CarryPasts
\* What is being copied goes into tables that held nothing before this file.
CopySound ==
  /\ boot.pc \notin {"down", "up"} => boot.i >= 1 /\ \A t \in C!Tables : t \in carried.found \/ live[t] # {}
  /\ boot.pc \in {"stateCopy", "historyCopy"} =>
       boot.i \in Places /\ boot.k >= 1 /\ \A t \in boot.empty : t \in carried.found /\ live[t] \subseteq {C!File.name}
  /\ boot.pc = "env" => boot.i = 1
  /\ boot.pc = "stateCopy" => boot.empty \subseteq StateNames
  /\ boot.pc = "historyCopy" => boot.empty = HistoryNames
\* The rows of a table, and of the history, are of one file.
OneFile(ts) == \A n, m \in C!FilesOf(ts) : n = m
OneSource == OneFile(HistoryNames) /\ \A t \in C!Tables : OneFile({t})
\* The first file that has any of these tables, and that they hold what it has.
FirstAt(j, ts) == j \in Places /\ (\E u \in ts : Of(j, u) # {}) /\ \A k \in Places : k < j => \A u \in ts : Of(k, u) = {}
Taken(ts) == \A j \in Places : FirstAt(j, ts) => \A t \in ts : Of(j, t) \subseteq live[t]
\* No file looked at so far has had the table.
Untried(t) ==
  /\ boot.pc \in {"down", "state", "stateCopy"} /\ live[t] = {}
  /\ \A j \in Places : j < boot.i => Of(j, t) = {}
  /\ boot.pc = "stateCopy" => /\ t \in boot.empty
                              /\ \A k \in DOMAIN StateTables : k < boot.k /\ StateTables[k] = t => Of(boot.i, t) = {}
HistoryUntried ==
  /\ boot.pc # "up" /\ (boot.pc # "historyCopy" => \A t \in HistoryNames : live[t] = {})
  /\ boot.pc \in {"history", "historyCopy"} => \A j \in Places : j < boot.i => \A u \in HistoryNames : Of(j, u) = {}
  /\ boot.pc = "historyCopy" =>
       /\ \A t \in HistoryNames : live[t] \subseteq Of(boot.i, t)
       /\ \A k \in DOMAIN HistoryTables : k < boot.k => Of(boot.i, HistoryTables[k]) \subseteq live[HistoryTables[k]]
StateKept == \A t \in StateNames \ carried.emptied : Taken({t}) \/ Untried(t)
HistoryKept == carried.emptied = {} => Taken(HistoryNames) \/ HistoryUntried
EnvLast == (\E j \in Places : FirstAt(j, {"settings"})) => "env" \notin live["settings"]
CarryInv ==
  /\ CarryTypes /\ CopySound /\ OneSource
  /\ ~carried.cut => StateKept /\ HistoryKept /\ EnvLast

LEMMA CarryNames ==
  /\ C!Tables = StateNames \cup HistoryNames /\ "settings" \in StateNames /\ StateNames \cap HistoryNames = {}
  /\ C!Tables \subseteq STRING
  /\ \A k \in DOMAIN StateTables : StateTables[k] \in StateNames
  /\ \A k \in DOMAIN HistoryTables : HistoryTables[k] \in HistoryNames
  /\ \A t \in StateNames : \E k \in DOMAIN StateTables : StateTables[k] = t
  /\ \A t \in HistoryNames : \E k \in DOMAIN HistoryTables : HistoryTables[k] = t
  /\ DOMAIN StateTables = 1 .. Len(StateTables) /\ DOMAIN HistoryTables = 1 .. Len(HistoryTables)
  /\ Len(StateTables) \in Nat /\ Len(HistoryTables) \in Nat
<1>1. StateTables \in Seq(STRING) /\ HistoryTables \in Seq(STRING)
  BY OldFilesAreSound DEF C!CarryAssumption
<1> QED
  BY <1>1, OldFilesAreSound DEF C!CarryAssumption, C!Tables, C!Names, StateNames, HistoryNames

LEMMA Held ==
  ASSUME files \in Seq(C!Legacy)
  PROVE  /\ Places = 1 .. Len(files) /\ Len(files) \in Nat
         /\ \A j \in Places, t \in C!Tables :
              /\ Of(j, t) \subseteq {files[j].name} /\ files[j].name \in STRING \ {"env", "live"}
              /\ ~files[j].ok => Of(j, t) = {}
<1>1. \A j \in Places : files[j] \in C!Legacy
  BY DEF Places
<1> QED
  BY <1>1 DEF Places, Of, C!Holds, C!Legacy

LEMMA FilesAre ==
  \A ts : \A n : n \in C!FilesOf(ts) <=> n \notin {"env", "live"} /\ \E t \in ts : n \in live[t]
<1> SUFFICES ASSUME NEW ts, NEW n PROVE n \in C!FilesOf(ts) <=> n \notin {"env", "live"} /\ \E t \in ts : n \in live[t]
  OBVIOUS
<1>1. n \in UNION {live[t] : t \in ts} <=> \E t \in ts : n \in live[t]
  OBVIOUS
<1> QED
  BY <1>1 DEF C!FilesOf

LEMMA CarryStarts == C!CarryInit => CarryInv
<1> SUFFICES ASSUME C!CarryInit PROVE CarryInv
  OBVIOUS
<1>1. files \in Seq(C!Legacy)
  BY OldFilesAreSound DEF C!CarryInit, C!CarryAssumption
<1>2. CarryTypes
  BY <1>1 DEF C!CarryInit, C!Down, CarryTypes, Boots, CarryPasts
<1>3. CopySound
  BY DEF C!CarryInit, C!Down, CopySound
<1>4. \A t \in C!Tables : live[t] = {}
  BY DEF C!CarryInit
<1>5. OneSource
  <2> SUFFICES ASSUME NEW ts \in SUBSET C!Tables, NEW n \in C!FilesOf(ts) PROVE FALSE
    BY CarryNames DEF OneSource, OneFile
  <2> QED
    BY <1>4, FilesAre
<1>6. StateKept
  <2>1. boot.pc = "down" /\ boot.i = 0
    BY DEF C!CarryInit, C!Down
  <2>2. \A j \in Places : ~(j < 0)
    BY <1>1, Held
  <2> QED
    BY <1>4, <2>1, <2>2, CarryNames DEF StateKept, Untried
<1>7. HistoryKept
  BY <1>4, CarryNames DEF HistoryKept, HistoryUntried, C!CarryInit, C!Down
<1>8. EnvLast
  BY <1>4, CarryNames DEF EnvLast
<1> QED
  BY <1>2, <1>3, <1>5, <1>6, <1>7, <1>8 DEF CarryInv

\* What a step that leaves the files, or adds rows, keeps.
LEMMA Grows ==
  ASSUME files' = files, NEW ts \in SUBSET C!Tables, \A t \in ts : live[t] \subseteq live'[t], Taken(ts)
  PROVE  Taken(ts)'
BY DEF Taken, FirstAt, Of, Places

LEMMA TakenNext ==
  ASSUME files' = files, NEW ts, \A j \in Places : FirstAt(j, ts) => \A t \in ts : Of(j, t) \subseteq live'[t]
  PROVE  Taken(ts)'
BY DEF Taken, FirstAt, Of, Places

LEMMA NeverHeld ==
  ASSUME NEW ts \in SUBSET C!Tables, \A j \in Places : \A t \in ts : Of(j, t) = {}
  PROVE  Taken(ts)
BY DEF Taken, FirstAt

LEMMA SameFiles ==
  ASSUME files' = files
  PROVE  Places' = Places /\ \A j, t : Of(j, t)' = Of(j, t)
BY DEF Places, Of

LEMMA EnvStays ==
  ASSUME files' = files, EnvLast, "env" \in live'["settings"] => "env" \in live["settings"]
  PROVE  EnvLast'
BY DEF EnvLast, FirstAt, Of, Places

LEMMA SameSource ==
  ASSUME OneSource, \A t \in C!Tables : live'[t] \ {"env", "live"} \subseteq live[t] \ {"env", "live"}
  PROVE  OneSource'
<1>1. \A ts \in SUBSET C!Tables : C!FilesOf(ts)' \subseteq C!FilesOf(ts)
  BY DEF C!FilesOf
<1>2. HistoryNames \in SUBSET C!Tables /\ \A t \in C!Tables : {t} \in SUBSET C!Tables
  BY CarryNames
<1> QED
  BY <1>1, <1>2 DEF OneSource, OneFile

\* A boot is four fields.
LEMMA BootIs ==
  ASSUME boot \in Boots, NEW at, NEW n, NEW fill
  PROVE  /\ C!NextFile = [pc |-> boot.pc, i |-> boot.i + 1, k |-> 0, empty |-> {}]
         /\ [C!Down EXCEPT !.pc = at, !.i = n] = [pc |-> at, i |-> n, k |-> 0, empty |-> {}]
         /\ [C!NextFile EXCEPT !.pc = at] = [pc |-> at, i |-> boot.i + 1, k |-> 0, empty |-> {}]
         /\ [boot EXCEPT !.pc = at] = [pc |-> at, i |-> boot.i, k |-> boot.k, empty |-> boot.empty]
         /\ [boot EXCEPT !.pc = at, !.k = n, !.empty = fill] = [pc |-> at, i |-> boot.i, k |-> n, empty |-> fill]
         /\ [boot EXCEPT !.k = boot.k + 1] = [pc |-> boot.pc, i |-> boot.i, k |-> boot.k + 1, empty |-> boot.empty]
<1>1. boot = [pc |-> boot.pc, i |-> boot.i, k |-> boot.k, empty |-> boot.empty]
  BY DEF Boots
<1>2. C!Down = [pc |-> "down", i |-> 0, k |-> 0, empty |-> {}]
  BY DEF C!Down
<1>3. C!NextFile = [pc |-> boot.pc, i |-> boot.i + 1, k |-> 0, empty |-> {}]
  <2>1. PICK y : y = [C!Down EXCEPT !.pc = boot.pc]
    OBVIOUS
  <2>2. y = [pc |-> boot.pc, i |-> 0, k |-> 0, empty |-> {}]
    BY <1>2, <2>1
  <2>3. C!NextFile = [y EXCEPT !.i = boot.i + 1]
    BY <2>1 DEF C!NextFile
  <2> QED
    BY <2>2, <2>3
<1>4. [C!Down EXCEPT !.pc = at, !.i = n] = [pc |-> at, i |-> n, k |-> 0, empty |-> {}]
  <2>1. PICK y : y = [C!Down EXCEPT !.pc = at]
    OBVIOUS
  <2>2. y = [pc |-> at, i |-> 0, k |-> 0, empty |-> {}]
    BY <1>2, <2>1
  <2>3. [y EXCEPT !.i = n] = [pc |-> at, i |-> n, k |-> 0, empty |-> {}]
    BY <2>2
  <2> QED
    BY <2>1, <2>3
<1>5. [C!NextFile EXCEPT !.pc = at] = [pc |-> at, i |-> boot.i + 1, k |-> 0, empty |-> {}]
  BY <1>3
<1>6. [boot EXCEPT !.pc = at] = [pc |-> at, i |-> boot.i, k |-> boot.k, empty |-> boot.empty]
  BY <1>1
<1>7. [boot EXCEPT !.pc = at, !.k = n, !.empty = fill] = [pc |-> at, i |-> boot.i, k |-> n, empty |-> fill]
  <2>1. PICK y : y = [boot EXCEPT !.pc = at]
    OBVIOUS
  <2>2. PICK z : z = [y EXCEPT !.k = n]
    OBVIOUS
  <2>3. z = [pc |-> at, i |-> boot.i, k |-> n, empty |-> boot.empty]
    BY <1>6, <2>1, <2>2
  <2>4. [z EXCEPT !.empty = fill] = [pc |-> at, i |-> boot.i, k |-> n, empty |-> fill]
    BY <2>3
  <2> QED
    BY <2>1, <2>2, <2>4
<1>8. [boot EXCEPT !.k = boot.k + 1] = [pc |-> boot.pc, i |-> boot.i, k |-> boot.k + 1, empty |-> boot.empty]
  BY <1>1
<1> QED
  BY <1>3, <1>4, <1>5, <1>6, <1>7, <1>8

\* A history is six fields.
LEMMA CarriedIs ==
  ASSUME carried \in CarryPasts, NEW a, NEW b
  PROVE  /\ [carried EXCEPT !.boots = a, !.found = b] =
              [found |-> b, cut |-> carried.cut, emptied |-> carried.emptied, faults |-> carried.faults, boots |-> a,
               writes |-> carried.writes]
         /\ [carried EXCEPT !.faults = a, !.cut = b] =
              [found |-> carried.found, cut |-> b, emptied |-> carried.emptied, faults |-> a, boots |-> carried.boots,
               writes |-> carried.writes]
         /\ [carried EXCEPT !.writes = a] =
              [found |-> carried.found, cut |-> carried.cut, emptied |-> carried.emptied, faults |-> carried.faults,
               boots |-> carried.boots, writes |-> a]
         /\ [carried EXCEPT !.writes = a, !.emptied = b] =
              [found |-> carried.found, cut |-> carried.cut, emptied |-> b, faults |-> carried.faults,
               boots |-> carried.boots, writes |-> a]
<1>1. carried = [found |-> carried.found, cut |-> carried.cut, emptied |-> carried.emptied, faults |-> carried.faults,
                 boots |-> carried.boots, writes |-> carried.writes]
  BY DEF CarryPasts
<1>2. PICK x : x = [carried EXCEPT !.boots = a]
  OBVIOUS
<1>3. x = [found |-> carried.found, cut |-> carried.cut, emptied |-> carried.emptied, faults |-> carried.faults,
           boots |-> a, writes |-> carried.writes]
  BY <1>1, <1>2
<1>4. [x EXCEPT !.found = b] =
        [found |-> b, cut |-> carried.cut, emptied |-> carried.emptied, faults |-> carried.faults, boots |-> a,
         writes |-> carried.writes]
  BY <1>3
<1>5. PICK y : y = [carried EXCEPT !.faults = a]
  OBVIOUS
<1>6. y = [found |-> carried.found, cut |-> carried.cut, emptied |-> carried.emptied, faults |-> a,
           boots |-> carried.boots, writes |-> carried.writes]
  BY <1>1, <1>5
<1>7. [y EXCEPT !.cut = b] =
        [found |-> carried.found, cut |-> b, emptied |-> carried.emptied, faults |-> a, boots |-> carried.boots,
         writes |-> carried.writes]
  BY <1>6
<1>8. PICK z : z = [carried EXCEPT !.writes = a]
  OBVIOUS
<1>9. z = [found |-> carried.found, cut |-> carried.cut, emptied |-> carried.emptied, faults |-> carried.faults,
           boots |-> carried.boots, writes |-> a]
  BY <1>1, <1>8
<1>10. [z EXCEPT !.emptied = b] =
         [found |-> carried.found, cut |-> carried.cut, emptied |-> b, faults |-> carried.faults,
          boots |-> carried.boots, writes |-> a]
  BY <1>9
<1> QED
  BY <1>2, <1>4, <1>5, <1>7, <1>8, <1>9, <1>10

LEMMA StartKeeps == CarryInv /\ C!Start => CarryInv'
<1> SUFFICES ASSUME CarryInv, C!Start PROVE CarryInv'
  OBVIOUS
<1>1. /\ files' = files /\ live' = live /\ boot.pc = "down"
      /\ boot' = [pc |-> "state", i |-> 1, k |-> 0, empty |-> {}]
  BY DEF C!Start, C!Down
<1>2. /\ carried' \in CarryPasts /\ carried'.cut = carried.cut /\ carried'.emptied = carried.emptied
      /\ carried'.found = {t \in C!Tables : live[t] = {}}
  <2>1. carried \in CarryPasts
    BY DEF CarryInv, CarryTypes
  <2>2. carried' = [carried EXCEPT !.boots = carried.boots + 1, !.found = {t \in C!Tables : live[t] = {}}]
    BY DEF C!Start
  <2>3. PICK found : found = {t \in C!Tables : live[t] = {}}
    OBVIOUS
  <2>4. PICK n : n = carried.boots + 1
    OBVIOUS
  <2>5. carried' = [carried EXCEPT !.boots = n, !.found = found]
    BY <2>2, <2>3, <2>4
  <2>6. carried' = [found |-> found, cut |-> carried.cut, emptied |-> carried.emptied, faults |-> carried.faults,
                    boots |-> n, writes |-> carried.writes]
    BY <2>1, <2>5, CarriedIs
  <2> QED
    BY <2>1, <2>3, <2>4, <2>6 DEF CarryPasts
<1>3. CarryTypes'
  BY <1>1, <1>2 DEF CarryInv, CarryTypes, Boots
<1>4. CopySound'
  BY <1>1, <1>2 DEF CopySound
<1>5. OneSource'
  BY <1>1, SameSource DEF CarryInv
<1>6. ASSUME ~carried'.cut PROVE StateKept' /\ HistoryKept' /\ EnvLast'
  <2>1. StateKept /\ HistoryKept /\ EnvLast
    BY <1>2, <1>6 DEF CarryInv
  <2>2. \A j \in Places : ~(j < 1)
    BY Held DEF CarryInv, CarryTypes
  <2>3. \A t \in C!Tables : Untried(t) => Untried(t)'
    BY <1>1, <2>2, SameFiles DEF Untried
  <2>4. HistoryUntried => HistoryUntried'
    BY <1>1 DEF HistoryUntried
  <2>5. \A ts \in SUBSET C!Tables : Taken(ts) => Taken(ts)'
    BY <1>1, Grows
  <2>6. HistoryNames \in SUBSET C!Tables /\ \A t \in StateNames : t \in C!Tables /\ {t} \in SUBSET C!Tables
    BY CarryNames
  <2>7. StateKept'
    BY <1>2, <2>1, <2>3, <2>5, <2>6 DEF StateKept
  <2>8. HistoryKept'
    BY <1>2, <2>1, <2>4, <2>5, <2>6 DEF HistoryKept
  <2> QED
    BY <1>1, <2>1, <2>7, <2>8, EnvStays
<1> QED
  BY <1>3, <1>4, <1>5, <1>6 DEF CarryInv

\* Where a gate leaves the boot: past the last file, at the next one, or at a copy.
LEMMA AtGate ==
  ASSUME boot \in Boots,
         NEW at, NEW copying, NEW tables, NEW whole, NEW after, C!Enter(at, copying, tables, whole, after)
  PROVE  /\ files' = files /\ live' = live /\ carried' = carried /\ boot.pc = at
         /\ \/ boot.i > Len(files) /\ boot' = [pc |-> after, i |-> 1, k |-> 0, empty |-> {}]
            \/ /\ ~(boot.i > Len(files)) /\ (C!ToFill(tables, whole) = {} \/ ~C!File.ok)
               /\ boot' = [pc |-> at, i |-> boot.i + 1, k |-> 0, empty |-> {}]
            \/ /\ ~(boot.i > Len(files)) /\ C!ToFill(tables, whole) # {}
               /\ boot' = [pc |-> copying, i |-> boot.i, k |-> 1, empty |-> C!ToFill(tables, whole)]
<1>1. boot.pc = at /\ UNCHANGED <<files, live, carried>>
  BY DEF C!Enter
<1>2. boot' = IF boot.i > Len(files) THEN [C!Down EXCEPT !.pc = after, !.i = 1]
              ELSE IF C!ToFill(tables, whole) = {} \/ ~C!File.ok THEN C!NextFile
              ELSE [boot EXCEPT !.pc = copying, !.k = 1, !.empty = C!ToFill(tables, whole)]
  BY DEF C!Enter
<1> QED
  BY <1>1, <1>2, BootIs

LEMMA EnterStateKeeps == CarryInv /\ C!EnterState => CarryInv'
<1> SUFFICES ASSUME CarryInv, C!EnterState PROVE CarryInv'
  OBVIOUS
<1>1. PICK fill : fill = C!ToFill(StateTables, FALSE)
  OBVIOUS
<1>2. fill = {t \in StateNames : live[t] = {}}
  BY <1>1 DEF C!ToFill, StateNames
<1>3. /\ files' = files /\ live' = live /\ carried' = carried /\ boot.pc = "state"
      /\ \/ boot.i > Len(files) /\ boot' = [pc |-> "env", i |-> 1, k |-> 0, empty |-> {}]
         \/ /\ ~(boot.i > Len(files)) /\ (fill = {} \/ ~C!File.ok)
            /\ boot' = [pc |-> "state", i |-> boot.i + 1, k |-> 0, empty |-> {}]
         \/ /\ ~(boot.i > Len(files)) /\ boot' = [pc |-> "stateCopy", i |-> boot.i, k |-> 1, empty |-> fill]
  <2>1. boot \in Boots
    BY DEF CarryInv, CarryTypes
  <2> QED
    BY <1>1, <2>1, AtGate DEF C!EnterState
<1>4. boot \in Boots /\ boot.i \in Nat /\ boot.i >= 1 /\ \A t \in C!Tables : t \in carried.found \/ live[t] # {}
  BY <1>3 DEF CarryInv, CarryTypes, CopySound, Boots
<1>5. /\ Places = 1 .. Len(files) /\ Len(files) \in Nat
      /\ \A j \in Places, t \in C!Tables : ~files[j].ok => Of(j, t) = {}
  BY Held DEF CarryInv, CarryTypes
<1>6. fill \in SUBSET C!Tables /\ fill \subseteq StateNames
  BY <1>2, CarryNames
<1>7. CarryTypes'
  BY <1>3, <1>4, <1>6 DEF CarryInv, CarryTypes, Boots
<1>8. CopySound'
  BY <1>2, <1>3, <1>4, <1>5, <1>6 DEF CopySound, Boots, Places
<1>9. OneSource'
  BY <1>3, SameSource DEF CarryInv
<1>10. ASSUME ~carried'.cut PROVE StateKept' /\ HistoryKept' /\ EnvLast'
  <2>1. StateKept /\ HistoryKept /\ EnvLast
    BY <1>3, <1>10 DEF CarryInv
  <2>2. ASSUME NEW t \in StateNames, Untried(t) PROVE Untried(t)' \/ Taken({t})
    <3>1. live[t] = {} /\ t \in fill /\ t \in C!Tables /\ \A j \in Places : j < boot.i => Of(j, t) = {}
      BY <1>2, <2>2, CarryNames DEF Untried
    <3>2. CASE boot.i > Len(files)
      <4>1. \A j \in Places : Of(j, t) = {}
        BY <1>4, <1>5, <3>1, <3>2
      <4> QED
        BY <3>1, <4>1, NeverHeld
    <3>3. CASE ~(boot.i > Len(files)) /\ boot' = [pc |-> "state", i |-> boot.i + 1, k |-> 0, empty |-> {}] /\ ~C!File.ok
      <4>1. boot.i \in Places /\ Of(boot.i, t) = {}
        BY <1>4, <1>5, <3>1, <3>3 DEF C!File
      <4>2. \A j \in Places : j < boot.i + 1 => Of(j, t) = {}
        BY <1>4, <1>5, <3>1, <4>1
      <4> QED
        BY <1>3, <3>1, <3>3, <4>2, SameFiles DEF Untried
    <3>4. CASE ~(boot.i > Len(files)) /\ boot' = [pc |-> "stateCopy", i |-> boot.i, k |-> 1, empty |-> fill]
      <4>1. boot'.pc = "stateCopy" /\ boot'.k = 1 /\ boot'.empty = fill /\ boot'.i = boot.i
        BY <1>4, <3>4 DEF Boots
      <4>2. \A k \in DOMAIN StateTables : ~(k < 1)
        BY CarryNames
      <4> QED
        BY <1>3, <3>1, <4>1, <4>2, SameFiles DEF Untried
    <3> QED
      BY <1>3, <3>1, <3>2, <3>3, <3>4
  <2>3. HistoryUntried => HistoryUntried'
    BY <1>3, <1>4 DEF HistoryUntried, Boots
  <2>4. \A ts \in SUBSET C!Tables : Taken(ts) => Taken(ts)'
    BY <1>3, Grows
  <2>5. HistoryNames \in SUBSET C!Tables /\ \A t \in StateNames : t \in C!Tables /\ {t} \in SUBSET C!Tables
    BY CarryNames
  <2>6. StateKept'
    BY <1>3, <2>1, <2>2, <2>4, <2>5 DEF StateKept
  <2>7. HistoryKept'
    BY <1>3, <2>1, <2>3, <2>4, <2>5 DEF HistoryKept
  <2> QED
    BY <1>3, <2>1, <2>6, <2>7, EnvStays
<1> QED
  BY <1>7, <1>8, <1>9, <1>10 DEF CarryInv

LEMMA EnterHistoryKeeps == CarryInv /\ C!EnterHistory => CarryInv'
<1> SUFFICES ASSUME CarryInv, C!EnterHistory PROVE CarryInv'
  OBVIOUS
<1>1. PICK fill : fill = C!ToFill(HistoryTables, TRUE)
  OBVIOUS
<1>2. /\ \A t \in fill : live[t] = {}
      /\ fill # {} => fill = HistoryNames
      /\ (\A t \in HistoryNames : live[t] = {}) => fill = HistoryNames
  <2>1. PICK empty : empty = {t \in HistoryNames : live[t] = {}}
    OBVIOUS
  <2>2. fill = IF empty # HistoryNames THEN {} ELSE empty
    BY <1>1, <2>1 DEF C!ToFill, HistoryNames
  <2> QED
    BY <2>1, <2>2
<1>3. /\ files' = files /\ live' = live /\ carried' = carried /\ boot.pc = "history"
      /\ \/ boot.i > Len(files) /\ boot' = [pc |-> "up", i |-> 1, k |-> 0, empty |-> {}]
         \/ /\ ~(boot.i > Len(files)) /\ (fill = {} \/ ~C!File.ok)
            /\ boot' = [pc |-> "history", i |-> boot.i + 1, k |-> 0, empty |-> {}]
         \/ /\ ~(boot.i > Len(files)) /\ fill # {}
            /\ boot' = [pc |-> "historyCopy", i |-> boot.i, k |-> 1, empty |-> fill]
  <2>1. boot \in Boots
    BY DEF CarryInv, CarryTypes
  <2> QED
    BY <1>1, <2>1, AtGate DEF C!EnterHistory
<1>4. boot \in Boots /\ boot.i \in Nat /\ boot.i >= 1 /\ \A t \in C!Tables : t \in carried.found \/ live[t] # {}
  BY <1>3 DEF CarryInv, CarryTypes, CopySound, Boots
<1>5. /\ Places = 1 .. Len(files) /\ Len(files) \in Nat
      /\ \A j \in Places, t \in C!Tables : ~files[j].ok => Of(j, t) = {}
  BY Held DEF CarryInv, CarryTypes
<1>6. fill \in SUBSET C!Tables
  BY <1>2, CarryNames
<1>7. CarryTypes'
  BY <1>3, <1>4, <1>6 DEF CarryInv, CarryTypes, Boots
<1>8. CopySound'
  BY <1>2, <1>3, <1>4, <1>5, <1>6 DEF CopySound, Boots, Places
<1>9. OneSource'
  BY <1>3, SameSource DEF CarryInv
<1>10. ASSUME ~carried'.cut PROVE StateKept' /\ HistoryKept' /\ EnvLast'
  <2>1. StateKept /\ HistoryKept /\ EnvLast
    BY <1>3, <1>10 DEF CarryInv
  <2>2. \A t : ~Untried(t)
    BY <1>3 DEF Untried
  <2>3. ASSUME HistoryUntried PROVE HistoryUntried' \/ Taken(HistoryNames)
    <3>1. /\ \A t \in HistoryNames : live[t] = {}
          /\ fill = HistoryNames /\ \A j \in Places : j < boot.i => \A u \in HistoryNames : Of(j, u) = {}
      BY <1>2, <1>3, <2>3 DEF HistoryUntried
    <3>2. CASE boot.i > Len(files)
      <4>1. \A j \in Places : \A t \in HistoryNames : Of(j, t) = {}
        BY <1>4, <1>5, <3>1, <3>2
      <4> QED
        BY <4>1, CarryNames, NeverHeld
    <3>3. CASE ~(boot.i > Len(files)) /\ (fill = {} \/ ~C!File.ok) /\ boot' = [pc |-> "history", i |-> boot.i + 1, k |-> 0, empty |-> {}]
      <4>1. boot.i \in Places /\ \A t \in HistoryNames : Of(boot.i, t) = {}
        <5>1. boot.i \in Places
          BY <1>4, <1>5, <3>3
        <5>2. ASSUME NEW t \in HistoryNames PROVE Of(boot.i, t) = {}
          <6>1. ~files[boot.i].ok /\ t \in C!Tables
            BY <3>1, <3>3, <5>2, CarryNames DEF C!File
          <6> QED
            BY <1>5, <5>1, <6>1
        <5> QED
          BY <5>1, <5>2
      <4>2. \A j \in Places : j < boot.i + 1 => \A u \in HistoryNames : Of(j, u) = {}
        BY <1>4, <1>5, <3>1, <4>1
      <4> QED
        BY <1>3, <3>1, <3>3, <4>2, SameFiles DEF HistoryUntried
    <3>4. CASE boot' = [pc |-> "historyCopy", i |-> boot.i, k |-> 1, empty |-> fill]
      <4>1. boot'.pc = "historyCopy" /\ boot'.k = 1 /\ boot'.i = boot.i
        BY <3>4
      <4>2. \A k \in DOMAIN HistoryTables : ~(k < 1)
        BY CarryNames
      <4> QED
        BY <1>3, <3>1, <4>1, <4>2, SameFiles DEF HistoryUntried
    <3> QED
      BY <1>3, <3>2, <3>3, <3>4
  <2>4. \A ts \in SUBSET C!Tables : Taken(ts) => Taken(ts)'
    BY <1>3, Grows
  <2>5. HistoryNames \in SUBSET C!Tables /\ \A t \in StateNames : t \in C!Tables /\ {t} \in SUBSET C!Tables
    BY CarryNames
  <2>6. StateKept'
    BY <1>3, <2>1, <2>2, <2>4, <2>5 DEF StateKept
  <2>7. HistoryKept'
    BY <1>3, <2>1, <2>3, <2>4, <2>5 DEF HistoryKept
  <2> QED
    BY <1>3, <2>1, <2>6, <2>7, EnvStays
<1> QED
  BY <1>7, <1>8, <1>9, <1>10 DEF CarryInv

\* A copy that fails, and a crash, are known as such; they leave the rows alone.
LEMMA CutKeeps ==
  ASSUME CarryInv, UNCHANGED <<files, live>>, boot' \in Boots, boot'.i >= 1 \/ boot'.pc = "down",
         boot'.pc \in {"down", boot.pc, "state", "history"}, boot'.pc \notin {"env", "stateCopy", "historyCopy", "up"},
         boot.pc \notin {"down", "up"},
         carried' = [carried EXCEPT !.faults = @ + 1, !.cut = TRUE]
  PROVE  CarryInv'
<1>1. carried' \in CarryPasts /\ carried'.cut /\ carried'.found = carried.found
  <2>1. carried \in CarryPasts
    BY DEF CarryInv, CarryTypes
  <2>2. PICK n, b : n = carried.faults + 1 /\ b = TRUE
    OBVIOUS
  <2>3. carried' = [carried EXCEPT !.faults = n, !.cut = b]
    BY <2>2
  <2>4. carried' = [found |-> carried.found, cut |-> b, emptied |-> carried.emptied, faults |-> n, boots |-> carried.boots,
                    writes |-> carried.writes]
    BY <2>1, <2>3, CarriedIs
  <2>5. n \in Nat /\ b \in BOOLEAN
    BY <2>1, <2>2 DEF CarryPasts
  <2>6. carried'.cut
    BY <2>2, <2>4
  <2> QED
    BY <2>1, <2>4, <2>5, <2>6 DEF CarryPasts
<1>2. CarryTypes'
  BY <1>1 DEF CarryInv, CarryTypes
<1>3. CopySound'
  BY <1>1 DEF CarryInv, CopySound
<1>4. OneSource'
  BY SameSource DEF CarryInv
<1> QED
  BY <1>1, <1>2, <1>3, <1>4 DEF CarryInv

LEMMA FailsKeep ==
  ASSUME CarryInv, NEW copying, NEW at, copying \in {"stateCopy", "historyCopy"}, at \in {"state", "history"},
         C!CopyFails(copying, at)
  PROVE  CarryInv'
<1>1. boot \in Boots /\ boot.i >= 1 /\ boot.i \in Nat
  BY DEF CarryInv, CarryTypes, CopySound, C!CopyFails, Boots
<1>2. \/ boot' = [pc |-> at, i |-> boot.i + 1, k |-> 0, empty |-> {}]
      \/ boot' = [pc |-> at, i |-> boot.i, k |-> 0, empty |-> {}]
  BY <1>1, BootIs DEF C!CopyFails
<1>3. boot' \in Boots /\ boot'.i >= 1 /\ boot'.pc = at
  BY <1>1, <1>2 DEF Boots
<1>4. UNCHANGED <<files, live>> /\ boot.pc = copying /\ carried' = [carried EXCEPT !.faults = @ + 1, !.cut = TRUE]
  BY DEF C!CopyFails
<1> QED
  BY <1>3, <1>4, CutKeeps

LEMMA CrashKeeps == CarryInv /\ C!Crash => CarryInv'
<1> SUFFICES ASSUME CarryInv, C!Crash PROVE CarryInv'
  OBVIOUS
<1>1. boot' \in Boots /\ boot'.pc = "down"
  BY DEF C!Crash, C!Down, Boots
<1> QED
  BY <1>1, CutKeeps DEF C!Crash

LEMMA FilesAreNext ==
  ASSUME NEW ts, NEW n
  PROVE  n \in C!FilesOf(ts)' <=> n \notin {"env", "live"} /\ \E t \in ts : n \in live'[t]
<1>1. n \in UNION {live'[t] : t \in ts} <=> \E t \in ts : n \in live'[t]
  OBVIOUS
<1> QED
  BY <1>1 DEF C!FilesOf

\* One table's turn: what the file has of it goes in when the gate found it empty.
Turn(t) ==
  /\ live' = [u \in C!Tables |-> live'[u]]
  /\ \A u \in C!Tables : live'[u] = IF u = t /\ u \in boot.empty THEN live[u] \cup Of(boot.i, u) ELSE live[u]
LEMMA Turns ==
  ASSUME CarryTypes, NEW copying, NEW at, NEW tables, C!Copy(copying, at, tables),
         \A k \in DOMAIN tables : tables[k] \in C!Tables, DOMAIN tables = 1 .. Len(tables), Len(tables) \in Nat,
         boot.k >= 1
  PROVE  /\ files' = files /\ carried' = carried /\ boot.pc = copying
         /\ \/ boot.k > Len(tables) /\ live' = live /\ boot' = [pc |-> at, i |-> boot.i + 1, k |-> 0, empty |-> {}]
            \/ /\ boot.k \in DOMAIN tables /\ Turn(tables[boot.k])
               /\ boot' = [pc |-> copying, i |-> boot.i, k |-> boot.k + 1, empty |-> boot.empty]
<1>1. boot \in Boots /\ boot.k \in Nat /\ live = [x \in C!Tables |-> live[x]]
  BY DEF CarryTypes, Boots
<1>2. files' = files /\ carried' = carried /\ boot.pc = copying
  BY DEF C!Copy
<1>3. CASE boot.k > Len(tables)
  BY <1>1, <1>2, <1>3, BootIs DEF C!Copy
<1>4. CASE ~(boot.k > Len(tables))
  <2>1. boot.k \in DOMAIN tables /\ tables[boot.k] \in C!Tables
    BY <1>1, <1>4
  <2>2. boot' = [boot EXCEPT !.k = boot.k + 1] /\ live' = C!IntoEmpty(tables[boot.k])
    BY <1>4 DEF C!Copy
  <2>3. PICK t : t = tables[boot.k]
    OBVIOUS
  <2>4. live' = IF t \in boot.empty THEN [live EXCEPT ![t] = live[t] \cup Of(boot.i, t)] ELSE live
    BY <2>2, <2>3 DEF C!IntoEmpty, Of, C!File
  <2>5. Turn(t)
    BY <1>1, <2>1, <2>3, <2>4 DEF Turn
  <2> QED
    BY <1>1, <1>2, <2>1, <2>2, <2>3, <2>5, BootIs
<1> QED
  BY <1>3, <1>4

LEMMA TurnGrows ==
  ASSUME CarryTypes, CopySound, boot.pc \in {"stateCopy", "historyCopy"}, NEW t \in C!Tables, Turn(t)
  PROVE  /\ live' = [x \in C!Tables |-> live'[x]] /\ \A u \in C!Tables : live[u] \subseteq live'[u]
         /\ \A u \in C!Tables : u \notin carried.found => live'[u] = live[u]
         /\ \A u \in boot.empty : live'[u] \subseteq {C!File.name}
         /\ \A u \in C!Tables \ boot.empty : live'[u] = live[u]
         /\ \A u \in C!Tables : "env" \in live'[u] => "env" \in live[u]
<1>1. \A u \in C!Tables : Of(boot.i, u) \subseteq {files[boot.i].name} /\ files[boot.i].name \in STRING \ {"env", "live"}
  BY Held DEF CarryTypes, CopySound
<1>2. boot.empty \subseteq C!Tables /\ live = [x \in C!Tables |-> live[x]] /\ C!File.name = files[boot.i].name
  BY DEF CarryTypes, Boots, C!File
<1>3. \A u \in boot.empty : u \in carried.found /\ live[u] \subseteq {C!File.name}
  BY DEF CopySound
<1>4. ASSUME NEW u \in C!Tables
      PROVE  /\ live[u] \subseteq live'[u] /\ (u \notin carried.found => live'[u] = live[u])
             /\ (u \in boot.empty => live'[u] \subseteq {C!File.name}) /\ (u \notin boot.empty => live'[u] = live[u])
             /\ ("env" \in live'[u] => "env" \in live[u])
  <2>1. Of(boot.i, u) \subseteq {C!File.name} /\ C!File.name \in STRING /\ C!File.name # "env"
    BY <1>1, <1>2
  <2>2. CASE u = t /\ u \in boot.empty
    <3>1. live'[u] = live[u] \cup Of(boot.i, u)
      BY <2>2 DEF Turn
    <3> QED
      BY <1>3, <2>1, <2>2, <3>1
  <2>3. CASE ~(u = t /\ u \in boot.empty)
    <3>1. live'[u] = live[u]
      BY <2>3 DEF Turn
    <3> QED
      BY <1>3, <2>1, <2>3, <3>1
  <2> QED
    BY <2>2, <2>3
<1>5. live' = [x \in C!Tables |-> live'[x]]
  BY <1>4 DEF Turn
<1> QED
  BY <1>2, <1>4, <1>5

LEMMA TurnSource ==
  ASSUME CarryTypes, CopySound, OneSource, boot.pc \in {"stateCopy", "historyCopy"}, NEW t \in C!Tables, Turn(t)
  PROVE  OneSource'
<1>1. /\ \A u \in boot.empty : live'[u] \subseteq {C!File.name}
      /\ \A u \in C!Tables \ boot.empty : live'[u] = live[u]
  BY TurnGrows
<1>2. ASSUME NEW ts \in SUBSET C!Tables, OneFile(ts), ts \subseteq boot.empty \/ ts \cap boot.empty = {},
             NEW n \in C!FilesOf(ts)', NEW m \in C!FilesOf(ts)'
      PROVE  n = m
  <2>1. CASE ts \subseteq boot.empty
    BY <1>1, <1>2, <2>1, FilesAreNext
  <2>2. CASE ts \cap boot.empty = {}
    <3>1. n \in C!FilesOf(ts) /\ m \in C!FilesOf(ts)
      BY <1>1, <1>2, <2>2, FilesAre, FilesAreNext
    <3> QED
      BY <1>2, <3>1 DEF OneFile
  <2> QED
    BY <1>2, <2>1, <2>2
<1>3. HistoryNames \subseteq boot.empty \/ HistoryNames \cap boot.empty = {}
  BY CarryNames DEF CopySound
<1>4. HistoryNames \in SUBSET C!Tables /\ \A u \in C!Tables : {u} \in SUBSET C!Tables /\ ({u} \subseteq boot.empty \/ {u} \cap boot.empty = {})
  BY CarryNames
<1>5. OneFile(HistoryNames)'
  BY <1>2, <1>3, <1>4 DEF OneSource, OneFile
<1>6. ASSUME NEW u \in C!Tables PROVE OneFile({u})'
  BY <1>2, <1>4 DEF OneSource, OneFile
<1> QED
  BY <1>5, <1>6 DEF OneSource

\* What both copies keep.
LEMMA CopySafe ==
  ASSUME CarryInv, NEW copying, NEW at, NEW tables, C!Copy(copying, at, tables),
         \A k \in DOMAIN tables : tables[k] \in C!Tables, DOMAIN tables = 1 .. Len(tables), Len(tables) \in Nat,
         <<copying, at>> \in {<<"stateCopy", "state">>, <<"historyCopy", "history">>}
  PROVE  CarryTypes' /\ CopySound' /\ OneSource'
<1>1. /\ CarryTypes /\ CopySound /\ OneSource /\ boot.pc = copying
      /\ copying \in {"stateCopy", "historyCopy"} /\ at \in {"state", "history"}
  BY DEF CarryInv, C!Copy
<1>2. boot.i \in Nat /\ boot.k \in Nat /\ boot.k >= 1 /\ boot.i >= 1 /\ boot \in Boots
      /\ \A u \in C!Tables : u \in carried.found \/ live[u] # {}
  BY <1>1 DEF CarryTypes, CopySound, Boots
<1>3. CASE boot.k > Len(tables) /\ live' = live /\ boot' = [pc |-> at, i |-> boot.i + 1, k |-> 0, empty |-> {}]
  <2>1. files' = files /\ carried' = carried
    BY DEF C!Copy
  <2>2. CarryTypes'
    BY <1>1, <1>2, <1>3, <2>1 DEF CarryTypes, Boots
  <2>3. CopySound'
    BY <1>1, <1>2, <1>3, <2>1 DEF CopySound
  <2> QED
    BY <1>1, <1>3, <2>2, <2>3, SameSource
<1>4. CASE /\ boot.k \in DOMAIN tables /\ Turn(tables[boot.k])
           /\ boot' = [pc |-> copying, i |-> boot.i, k |-> boot.k + 1, empty |-> boot.empty]
  <2>1. files' = files /\ carried' = carried
    BY DEF C!Copy
  <2>2. PICK t \in C!Tables : t = tables[boot.k] /\ Turn(t)
    BY <1>4
  <2>3. /\ live' = [x \in C!Tables |-> live'[x]] /\ \A u \in C!Tables : live[u] \subseteq live'[u]
        /\ \A u \in boot.empty : live'[u] \subseteq {C!File.name}
    BY <1>1, <2>2, TurnGrows
  <2>4. CarryTypes'
    BY <1>1, <1>2, <1>4, <2>1, <2>3 DEF CarryTypes, Boots
  <2>5. Places' = Places /\ C!File' = C!File
    BY <1>4, <2>1 DEF Places, C!File
  <2>6. \A u \in C!Tables : u \in carried.found \/ live'[u] # {}
    BY <1>2, <2>3
  <2>7. CopySound'
    BY <1>1, <1>2, <1>4, <2>1, <2>3, <2>5, <2>6 DEF CopySound
  <2> QED
    BY <1>1, <2>2, <2>4, <2>7, TurnSource
<1> QED
  BY <1>1, <1>2, <1>3, <1>4, Turns

LEMMA CopyStateKeeps == CarryInv /\ C!Copy("stateCopy", "state", StateTables) => CarryInv'
<1> SUFFICES ASSUME CarryInv, C!Copy("stateCopy", "state", StateTables) PROVE CarryInv'
  OBVIOUS
<1>1. /\ \A k \in DOMAIN StateTables : StateTables[k] \in C!Tables
      /\ DOMAIN StateTables = 1 .. Len(StateTables) /\ Len(StateTables) \in Nat
  BY CarryNames
<1>2. CarryTypes' /\ CopySound' /\ OneSource'
  BY <1>1, CopySafe
<1>3. /\ CarryTypes /\ CopySound /\ boot.pc = "stateCopy" /\ boot.k >= 1 /\ boot.k \in Nat /\ boot.i \in Nat /\ boot.i \in Places
      /\ Places \subseteq Nat
  <2>1. CarryTypes /\ CopySound /\ boot.pc = "stateCopy"
    BY DEF CarryInv, C!Copy
  <2>2. boot.k \in Nat /\ boot.i \in Nat /\ files \in Seq(C!Legacy)
    BY <2>1 DEF CarryTypes, Boots
  <2>3. boot.k >= 1 /\ boot.i \in Places
    BY <2>1 DEF CopySound
  <2>4. Places \subseteq Nat
    BY <2>2, Held
  <2> QED
    BY <2>1, <2>2, <2>3, <2>4
<1>4. /\ files' = files /\ carried' = carried
      /\ \/ boot.k > Len(StateTables) /\ live' = live /\ boot' = [pc |-> "state", i |-> boot.i + 1, k |-> 0, empty |-> {}]
         \/ /\ boot.k \in DOMAIN StateTables /\ Turn(StateTables[boot.k])
            /\ boot' = [pc |-> "stateCopy", i |-> boot.i, k |-> boot.k + 1, empty |-> boot.empty]
  BY <1>1, <1>3, Turns
<1>5. /\ \A u \in C!Tables : live[u] \subseteq live'[u]
      /\ \A u \in HistoryNames : live'[u] = live[u]
      /\ "env" \in live'["settings"] => "env" \in live["settings"]
  <2>1. HistoryNames \subseteq C!Tables \ boot.empty /\ "settings" \in C!Tables
    BY <1>3, CarryNames DEF CopySound
  <2>2. CASE live' = live
    BY <2>2
  <2>3. CASE boot.k \in DOMAIN StateTables /\ Turn(StateTables[boot.k])
    <3>1. StateTables[boot.k] \in C!Tables
      BY <1>1, <2>3
    <3> QED
      BY <1>3, <2>1, <2>3, <3>1, TurnGrows
  <2> QED
    BY <1>4, <2>2, <2>3
<1>6. ASSUME ~carried'.cut PROVE StateKept' /\ HistoryKept' /\ EnvLast'
  <2>1. StateKept /\ HistoryKept /\ EnvLast
    BY <1>4, <1>6 DEF CarryInv
  <2>2. ASSUME NEW t \in StateNames, Untried(t) PROVE Untried(t)' \/ Taken({t})'
    <3>1. /\ live[t] = {} /\ t \in boot.empty /\ t \in C!Tables
          /\ \A j \in Places : j < boot.i => Of(j, t) = {}
          /\ \A k \in DOMAIN StateTables : k < boot.k /\ StateTables[k] = t => Of(boot.i, t) = {}
      BY <1>3, <2>2, CarryNames DEF Untried
    <3>2. CASE boot.k > Len(StateTables) /\ live' = live /\ boot' = [pc |-> "state", i |-> boot.i + 1, k |-> 0, empty |-> {}]
      <4>1. PICK k \in DOMAIN StateTables : StateTables[k] = t
        BY CarryNames
      <4>2. Of(boot.i, t) = {}
        BY <1>1, <1>3, <3>1, <3>2, <4>1
      <4>3. \A j \in Places : j < boot.i + 1 => Of(j, t) = {}
        BY <1>3, <3>1, <4>2
      <4> QED
        BY <1>4, <3>1, <3>2, <4>3, SameFiles DEF Untried
    <3>3. CASE /\ boot.k \in DOMAIN StateTables /\ Turn(StateTables[boot.k])
               /\ boot' = [pc |-> "stateCopy", i |-> boot.i, k |-> boot.k + 1, empty |-> boot.empty]
      <4>1. live'[t] = IF t = StateTables[boot.k] THEN Of(boot.i, t) ELSE {}
        BY <3>1, <3>3 DEF Turn
      <4>2. CASE t = StateTables[boot.k] /\ Of(boot.i, t) # {}
        <5>1. ASSUME NEW j \in Places, FirstAt(j, {t}) PROVE j = boot.i
          <6>1. ~(boot.i < j)
            BY <1>3, <4>2, <5>1 DEF FirstAt
          <6>2. ~(j < boot.i)
            BY <3>1, <5>1 DEF FirstAt
          <6>3. j \in Nat
            BY <1>3
          <6> QED
            BY <1>3, <6>1, <6>2, <6>3
        <5>2. \A j \in Places : FirstAt(j, {t}) => \A u \in {t} : Of(j, u) \subseteq live'[u]
          BY <4>1, <4>2, <5>1
        <5> QED
          BY <1>4, <5>2, TakenNext
      <4>3. CASE t = StateTables[boot.k] => Of(boot.i, t) = {}
        <5>1. live'[t] = {}
          BY <4>1, <4>3
        <5>2. \A k \in DOMAIN StateTables : k < boot.k + 1 /\ StateTables[k] = t => Of(boot.i, t) = {}
          BY <1>1, <1>3, <3>1, <4>3
        <5>3. boot'.pc = "stateCopy" /\ boot'.i = boot.i /\ boot'.k = boot.k + 1 /\ boot'.empty = boot.empty
          BY <3>3
        <5> QED
          BY <1>4, <3>1, <5>1, <5>2, <5>3, SameFiles DEF Untried
      <4> QED
        BY <4>2, <4>3
    <3> QED
      BY <1>4, <3>2, <3>3
  <2>3. HistoryUntried => HistoryUntried'
    BY <1>3, <1>4, <1>5 DEF HistoryUntried
  <2>4. \A ts \in SUBSET C!Tables : Taken(ts) => Taken(ts)'
    BY <1>4, <1>5, Grows
  <2>5. HistoryNames \in SUBSET C!Tables /\ \A t \in StateNames : t \in C!Tables /\ {t} \in SUBSET C!Tables
    BY CarryNames
  <2>6. StateKept'
    BY <1>4, <2>1, <2>2, <2>4, <2>5 DEF StateKept
  <2>7. HistoryKept'
    BY <1>4, <2>1, <2>3, <2>4, <2>5 DEF HistoryKept
  <2> QED
    BY <1>4, <1>5, <2>1, <2>6, <2>7, EnvStays
<1> QED
  BY <1>2, <1>6 DEF CarryInv

LEMMA CopyHistoryKeeps == CarryInv /\ C!Copy("historyCopy", "history", HistoryTables) => CarryInv'
<1> SUFFICES ASSUME CarryInv, C!Copy("historyCopy", "history", HistoryTables) PROVE CarryInv'
  OBVIOUS
<1>1. /\ \A k \in DOMAIN HistoryTables : HistoryTables[k] \in C!Tables
      /\ DOMAIN HistoryTables = 1 .. Len(HistoryTables) /\ Len(HistoryTables) \in Nat
  BY CarryNames
<1>2. CarryTypes' /\ CopySound' /\ OneSource'
  BY <1>1, CopySafe
<1>3. /\ CarryTypes /\ CopySound /\ boot.pc = "historyCopy" /\ boot.k >= 1 /\ boot.k \in Nat /\ boot.i \in Nat /\ boot.i \in Places
      /\ Places \subseteq Nat /\ boot.empty = HistoryNames
  <2>1. CarryTypes /\ CopySound /\ boot.pc = "historyCopy"
    BY DEF CarryInv, C!Copy
  <2>2. boot.k \in Nat /\ boot.i \in Nat /\ files \in Seq(C!Legacy)
    BY <2>1 DEF CarryTypes, Boots
  <2>3. boot.k >= 1 /\ boot.i \in Places /\ boot.empty = HistoryNames
    BY <2>1 DEF CopySound
  <2>4. Places \subseteq Nat
    BY <2>2, Held
  <2> QED
    BY <2>1, <2>2, <2>3, <2>4
<1>4. /\ files' = files /\ carried' = carried
      /\ \/ boot.k > Len(HistoryTables) /\ live' = live /\ boot' = [pc |-> "history", i |-> boot.i + 1, k |-> 0, empty |-> {}]
         \/ /\ boot.k \in DOMAIN HistoryTables /\ Turn(HistoryTables[boot.k])
            /\ boot' = [pc |-> "historyCopy", i |-> boot.i, k |-> boot.k + 1, empty |-> boot.empty]
  BY <1>1, <1>3, Turns
<1>5. /\ \A u \in C!Tables : live[u] \subseteq live'[u]
      /\ "env" \in live'["settings"] => "env" \in live["settings"]
  <2>1. "settings" \in C!Tables
    BY CarryNames
  <2>2. CASE live' = live
    BY <2>2
  <2>3. CASE boot.k \in DOMAIN HistoryTables /\ Turn(HistoryTables[boot.k])
    <3>1. HistoryTables[boot.k] \in C!Tables
      BY <1>1, <2>3
    <3> QED
      BY <1>3, <2>1, <2>3, <3>1, TurnGrows
  <2> QED
    BY <1>4, <2>2, <2>3
<1>6. ASSUME ~carried'.cut PROVE StateKept' /\ HistoryKept' /\ EnvLast'
  <2>1. StateKept /\ HistoryKept /\ EnvLast
    BY <1>4, <1>6 DEF CarryInv
  <2>2. \A t : ~Untried(t)
    BY <1>3 DEF Untried
  <2>3. ASSUME HistoryUntried PROVE HistoryUntried' \/ Taken(HistoryNames)'
    <3>1. /\ \A j \in Places : j < boot.i => \A u \in HistoryNames : Of(j, u) = {}
          /\ \A t \in HistoryNames : live[t] \subseteq Of(boot.i, t)
          /\ \A k \in DOMAIN HistoryTables : k < boot.k => Of(boot.i, HistoryTables[k]) \subseteq live[HistoryTables[k]]
      BY <1>3, <2>3 DEF HistoryUntried
    <3>2. CASE boot.k > Len(HistoryTables) /\ live' = live /\ boot' = [pc |-> "history", i |-> boot.i + 1, k |-> 0, empty |-> {}]
      <4>1. \A t \in HistoryNames : live[t] = Of(boot.i, t)
        <5> SUFFICES ASSUME NEW t \in HistoryNames PROVE live[t] = Of(boot.i, t)
          OBVIOUS
        <5>1. PICK k \in DOMAIN HistoryTables : HistoryTables[k] = t
          BY CarryNames
        <5>2. k < boot.k
          BY <1>1, <1>3, <3>2
        <5> QED
          BY <3>1, <5>1, <5>2
      <4>2. CASE \E t \in HistoryNames : Of(boot.i, t) # {}
        <5>1. ASSUME NEW j \in Places, FirstAt(j, HistoryNames) PROVE j = boot.i
          <6>1. ~(boot.i < j)
            BY <1>3, <4>2, <5>1 DEF FirstAt
          <6>2. ~(j < boot.i)
            BY <1>3, <3>1, <5>1 DEF FirstAt
          <6>3. j \in Nat
            BY <1>3
          <6> QED
            BY <1>3, <6>1, <6>2, <6>3
        <5>2. ASSUME NEW j \in Places, FirstAt(j, HistoryNames), NEW t \in HistoryNames PROVE Of(j, t) \subseteq live'[t]
          <6>1. j = boot.i
            BY <5>1, <5>2
          <6> QED
            BY <3>2, <4>1, <6>1
        <5> QED
          BY <1>4, <5>2, TakenNext
      <4>3. CASE \A t \in HistoryNames : Of(boot.i, t) = {}
        <5>1. \A t \in HistoryNames : live'[t] = {}
          BY <3>2, <4>1, <4>3
        <5>2. \A j \in Places : j < boot.i + 1 => \A u \in HistoryNames : Of(j, u) = {}
          BY <1>3, <3>1, <4>3
        <5> QED
          BY <1>4, <3>2, <5>1, <5>2, SameFiles DEF HistoryUntried
      <4> QED
        BY <4>2, <4>3
    <3>3. CASE /\ boot.k \in DOMAIN HistoryTables /\ Turn(HistoryTables[boot.k])
               /\ boot' = [pc |-> "historyCopy", i |-> boot.i, k |-> boot.k + 1, empty |-> boot.empty]
      <4>1. \A t \in HistoryNames : live'[t] = IF t = HistoryTables[boot.k] THEN live[t] \cup Of(boot.i, t) ELSE live[t]
        BY <1>3, <3>3, CarryNames DEF Turn
      <4>2. \A t \in HistoryNames : live'[t] \subseteq Of(boot.i, t)
        BY <3>1, <4>1
      <4>3. \A k \in DOMAIN HistoryTables : k < boot.k + 1 => Of(boot.i, HistoryTables[k]) \subseteq live'[HistoryTables[k]]
        <5> SUFFICES ASSUME NEW k \in DOMAIN HistoryTables, k < boot.k + 1
                     PROVE  Of(boot.i, HistoryTables[k]) \subseteq live'[HistoryTables[k]]
          OBVIOUS
        <5>1. HistoryTables[k] \in HistoryNames /\ (k < boot.k \/ k = boot.k)
          BY <1>1, <1>3, CarryNames
        <5> QED
          BY <3>1, <4>1, <5>1
      <4>4. boot'.pc = "historyCopy" /\ boot'.i = boot.i /\ boot'.k = boot.k + 1
        BY <3>3
      <4> QED
        BY <1>4, <3>1, <4>2, <4>3, <4>4, SameFiles DEF HistoryUntried
    <3> QED
      BY <1>4, <3>2, <3>3
  <2>4. \A ts \in SUBSET C!Tables : Taken(ts) => Taken(ts)'
    BY <1>4, <1>5, Grows
  <2>5. HistoryNames \in SUBSET C!Tables /\ \A t \in StateNames : t \in C!Tables /\ {t} \in SUBSET C!Tables
    BY CarryNames
  <2>6. StateKept'
    BY <1>4, <2>1, <2>2, <2>4, <2>5 DEF StateKept
  <2>7. HistoryKept'
    BY <1>4, <2>1, <2>3, <2>4, <2>5 DEF HistoryKept
  <2> QED
    BY <1>4, <1>5, <2>1, <2>6, <2>7, EnvStays
<1> QED
  BY <1>2, <1>6 DEF CarryInv

LEMMA ImportKeeps == CarryInv /\ C!ImportEnv => CarryInv'
<1> SUFFICES ASSUME CarryInv, C!ImportEnv PROVE CarryInv'
  OBVIOUS
<1>1. /\ CarryTypes /\ CopySound /\ OneSource /\ boot.pc = "env" /\ boot.i = 1 /\ boot \in Boots
      /\ files' = files /\ carried' = carried /\ "settings" \in C!Tables /\ "settings" \notin HistoryNames
  BY CarryNames DEF CarryInv, CarryTypes, CopySound, C!ImportEnv
<1>2. boot' = [pc |-> "history", i |-> 1, k |-> boot.k, empty |-> boot.empty]
  <2>1. boot' = [boot EXCEPT !.pc = "history"]
    BY DEF C!ImportEnv
  <2> QED
    BY <1>1, <2>1, BootIs
<1>3. live' = IF live["settings"] = {} THEN [live EXCEPT !["settings"] = {"env"}] ELSE live
  BY DEF C!ImportEnv
<1>4. /\ live' = [x \in C!Tables |-> live'[x]] /\ \A u \in C!Tables : live[u] \subseteq live'[u]
      /\ \A u \in C!Tables : u # "settings" => live'[u] = live[u]
      /\ \A u \in C!Tables : live'[u] \ {"env", "live"} \subseteq live[u] \ {"env", "live"}
  <2>1. live = [x \in C!Tables |-> live[x]]
    BY <1>1 DEF CarryTypes
  <2>2. CASE live["settings"] = {}
    <3>1. \A u \in C!Tables : live'[u] = IF u = "settings" THEN {"env"} ELSE live[u]
      BY <1>1, <1>3, <2>1, <2>2
    <3>2. live' = [x \in C!Tables |-> live'[x]]
      BY <1>1, <1>3, <2>1, <2>2
    <3>3. \A u \in C!Tables : live[u] \subseteq live'[u] /\ (u # "settings" => live'[u] = live[u])
      BY <2>2, <3>1
    <3>4. ASSUME NEW u \in C!Tables, NEW n \in live'[u] \ {"env", "live"} PROVE n \in live[u] \ {"env", "live"}
      BY <3>1, <3>4
    <3> QED
      BY <3>2, <3>3, <3>4
  <2>3. CASE live["settings"] # {}
    BY <1>3, <2>1, <2>3
  <2> QED
    BY <2>2, <2>3
<1>5. CarryTypes'
  BY <1>1, <1>2, <1>4 DEF CarryTypes, Boots
<1>6. CopySound'
  BY <1>1, <1>2, <1>4 DEF CopySound
<1>7. OneSource'
  BY <1>1, <1>4, SameSource
<1>8. ASSUME ~carried'.cut PROVE StateKept' /\ HistoryKept' /\ EnvLast'
  <2>1. StateKept /\ HistoryKept /\ EnvLast
    BY <1>1, <1>8 DEF CarryInv
  <2>2. \A t : ~Untried(t)
    BY <1>1 DEF Untried
  <2>3. HistoryUntried => HistoryUntried'
    <3>1. \A j \in Places : ~(j < 1)
      BY <1>1, Held DEF CarryTypes
    <3>2. \A t \in HistoryNames : live'[t] = live[t]
      BY <1>1, <1>4, CarryNames
    <3> QED
      BY <1>1, <1>2, <3>1, <3>2, SameFiles DEF HistoryUntried
  <2>4. \A ts \in SUBSET C!Tables : Taken(ts) => Taken(ts)'
    BY <1>1, <1>4, Grows
  <2>5. HistoryNames \in SUBSET C!Tables /\ \A t \in StateNames : t \in C!Tables /\ {t} \in SUBSET C!Tables
    BY CarryNames
  <2>6. StateKept'
    BY <1>1, <2>1, <2>2, <2>4, <2>5 DEF StateKept
  <2>7. HistoryKept'
    BY <1>1, <2>1, <2>3, <2>4, <2>5 DEF HistoryKept
  <2>8. EnvLast'
    <3>1. CASE live["settings"] = {}
      <4>1. Taken({"settings"})
        BY <1>1, <2>1, <2>2, CarryNames DEF StateKept, CarryTypes, CarryPasts
      <4>2. \A j \in Places : ~FirstAt(j, {"settings"})
        BY <3>1, <4>1 DEF Taken, FirstAt
      <4> QED
        BY <1>1, <4>2 DEF EnvLast, FirstAt, Of, Places
    <3>2. CASE live["settings"] # {}
      BY <1>1, <1>3, <2>1, <3>2, EnvStays
    <3> QED
      BY <3>1, <3>2
  <2> QED
    BY <2>6, <2>7, <2>8
<1> QED
  BY <1>5, <1>6, <1>7, <1>8 DEF CarryInv

LEMMA WriteKeeps == ASSUME CarryInv, NEW t \in C!Tables, C!Write(t) PROVE CarryInv'
<1>1. /\ CarryTypes /\ OneSource /\ boot.pc = "up" /\ files' = files /\ boot' = boot
      /\ live' = [live EXCEPT ![t] = live[t] \cup {"live"}]
  BY DEF CarryInv, C!Write
<1>2. carried' \in CarryPasts /\ carried'.cut = carried.cut /\ carried'.emptied = carried.emptied
  <2>1. carried \in CarryPasts
    BY <1>1 DEF CarryTypes
  <2>2. PICK n : n = carried.writes + 1
    OBVIOUS
  <2>3. carried' = [carried EXCEPT !.writes = n]
    BY <2>2 DEF C!Write
  <2>4. carried' = [found |-> carried.found, cut |-> carried.cut, emptied |-> carried.emptied, faults |-> carried.faults,
                    boots |-> carried.boots, writes |-> n]
    BY <2>1, <2>3, CarriedIs
  <2> QED
    BY <2>1, <2>2, <2>4 DEF CarryPasts
<1>3. \A u \in C!Tables : live'[u] = IF u = t THEN live[u] \cup {"live"} ELSE live[u]
  BY <1>1 DEF CarryTypes
<1>4. \A u \in C!Tables : live[u] \subseteq live'[u]
  BY <1>3
<1>5. ASSUME NEW u \in C!Tables, NEW n \in live'[u] \ {"env", "live"} PROVE n \in live[u] \ {"env", "live"}
  BY <1>3, <1>5
<1>6. CarryTypes'
  <2>1. live' = [x \in C!Tables |-> live'[x]]
    BY <1>1, CarryNames DEF CarryTypes
  <2> QED
    BY <1>1, <1>2, <2>1 DEF CarryTypes
<1>7. CopySound'
  BY <1>1 DEF CopySound
<1>8. OneSource'
  BY <1>1, <1>5, SameSource
<1>9. ASSUME ~carried'.cut PROVE StateKept' /\ HistoryKept' /\ EnvLast'
  <2>1. StateKept /\ HistoryKept /\ EnvLast
    BY <1>2, <1>9 DEF CarryInv
  <2>2. ~HistoryUntried /\ \A u : ~Untried(u)
    BY <1>1 DEF Untried, HistoryUntried
  <2>3. \A ts \in SUBSET C!Tables : Taken(ts) => Taken(ts)'
    BY <1>1, <1>4, Grows
  <2>4. HistoryNames \in SUBSET C!Tables /\ \A u \in StateNames : u \in C!Tables /\ {u} \in SUBSET C!Tables
    BY CarryNames
  <2>5. StateKept'
    BY <1>2, <2>1, <2>2, <2>3, <2>4 DEF StateKept
  <2>6. HistoryKept'
    BY <1>2, <2>1, <2>2, <2>3, <2>4 DEF HistoryKept
  <2>7. "env" \in live'["settings"] => "env" \in live["settings"]
    <3>1. "settings" \in C!Tables
      BY CarryNames
    <3>2. ASSUME "env" \in live'["settings"] PROVE "env" \in live["settings"]
      <4>1. live'["settings"] = live["settings"] \cup {"live"} \/ live'["settings"] = live["settings"]
        BY <1>3, <3>1
      <4> QED
        BY <3>2, <4>1
    <3> QED
      BY <3>2
  <2> QED
    BY <1>1, <2>1, <2>5, <2>6, <2>7, EnvStays
<1> QED
  BY <1>6, <1>7, <1>8, <1>9 DEF CarryInv

LEMMA EmptyKeeps == ASSUME CarryInv, NEW t \in C!Tables, C!Empty(t) PROVE CarryInv'
<1>1. /\ CarryTypes /\ OneSource /\ boot.pc = "up" /\ files' = files /\ boot' = boot /\ t # "settings"
      /\ live' = [live EXCEPT ![t] = {}]
  BY DEF CarryInv, C!Empty
<1>2. carried' \in CarryPasts /\ carried'.cut = carried.cut /\ carried'.emptied = carried.emptied \cup {t}
  <2>1. carried \in CarryPasts
    BY <1>1 DEF CarryTypes
  <2>2. PICK n, gone : n = carried.writes + 1 /\ gone = carried.emptied \cup {t}
    OBVIOUS
  <2>3. carried' = [carried EXCEPT !.writes = n, !.emptied = gone]
    BY <2>2 DEF C!Empty
  <2>4. carried' = [found |-> carried.found, cut |-> carried.cut, emptied |-> gone, faults |-> carried.faults,
                    boots |-> carried.boots, writes |-> n]
    BY <2>1, <2>3, CarriedIs
  <2> QED
    BY <1>1, <2>1, <2>2, <2>4 DEF CarryPasts
<1>3. \A u \in C!Tables : live'[u] = IF u = t THEN {} ELSE live[u]
  BY <1>1 DEF CarryTypes
<1>4. CarryTypes'
  <2>1. live' = [x \in C!Tables |-> live'[x]]
    BY <1>1 DEF CarryTypes
  <2> QED
    BY <1>1, <1>2, <2>1 DEF CarryTypes
<1>5. CopySound'
  BY <1>1 DEF CopySound
<1>6. OneSource'
  BY <1>1, <1>3, SameSource
<1>7. ASSUME ~carried'.cut PROVE StateKept' /\ HistoryKept' /\ EnvLast'
  <2>1. StateKept /\ HistoryKept /\ EnvLast
    BY <1>2, <1>7 DEF CarryInv
  <2>2. \A u : ~Untried(u)
    BY <1>1 DEF Untried
  <2>3. ASSUME NEW u \in StateNames \ carried'.emptied PROVE Taken({u})'
    <3>1. u # t /\ u \in C!Tables /\ Taken({u})
      BY <1>2, <2>1, <2>2, <2>3, CarryNames DEF StateKept
    <3>2. {u} \in SUBSET C!Tables /\ \A v \in {u} : live[v] \subseteq live'[v]
      BY <1>3, <3>1
    <3> QED
      BY <1>1, <3>1, <3>2, Grows
  <2>4. StateKept'
    BY <2>3 DEF StateKept
  <2>5. HistoryKept'
    BY <1>2 DEF HistoryKept
  <2>6. "env" \in live'["settings"] => "env" \in live["settings"]
    BY <1>1, <1>3, CarryNames
  <2> QED
    BY <1>1, <2>1, <2>4, <2>5, <2>6, EnvStays
<1> QED
  BY <1>4, <1>5, <1>6, <1>7 DEF CarryInv

\* The process ends, or nothing happens.
LEMMA EndKeeps == CarryInv /\ (C!End \/ UNCHANGED carryVars) => CarryInv'
<1> SUFFICES ASSUME CarryInv, C!End \/ UNCHANGED carryVars PROVE CarryInv'
  OBVIOUS
<1>1. /\ files' = files /\ live' = live /\ carried' = carried
      /\ \/ boot' = boot
         \/ boot.pc = "up" /\ boot' = [pc |-> "down", i |-> 0, k |-> 0, empty |-> {}]
  BY DEF C!End, C!Down, carryVars
<1>2. CarryTypes'
  BY <1>1 DEF CarryInv, CarryTypes, Boots
<1>3. CopySound'
  <2>1. CASE boot' = boot
    BY <1>1, <2>1 DEF CarryInv, CopySound, Places, C!File
  <2>2. CASE boot' = [pc |-> "down", i |-> 0, k |-> 0, empty |-> {}]
    BY <2>2 DEF CopySound
  <2> QED
    BY <1>1, <2>1, <2>2
<1>4. OneSource'
  BY <1>1, SameSource DEF CarryInv
<1>5. ASSUME ~carried'.cut PROVE StateKept' /\ HistoryKept' /\ EnvLast'
  <2>1. StateKept /\ HistoryKept /\ EnvLast
    BY <1>1, <1>5 DEF CarryInv
  <2>2. ASSUME NEW t, Untried(t) PROVE Untried(t)'
    <3>1. boot' = boot
      BY <1>1, <2>2 DEF Untried
    <3> QED
      BY <1>1, <2>2, <3>1 DEF Untried, Of, Places
  <2>3. ASSUME HistoryUntried PROVE HistoryUntried'
    <3>1. boot' = boot
      BY <1>1, <2>3 DEF HistoryUntried
    <3> QED
      BY <1>1, <2>3, <3>1 DEF HistoryUntried, Of, Places
  <2>4. \A ts \in SUBSET C!Tables : Taken(ts) => Taken(ts)'
    BY <1>1, Grows
  <2>5. HistoryNames \in SUBSET C!Tables /\ \A u \in StateNames : u \in C!Tables /\ {u} \in SUBSET C!Tables
    BY CarryNames
  <2>6. StateKept'
    BY <1>1, <2>1, <2>2, <2>4, <2>5 DEF StateKept
  <2>7. HistoryKept'
    BY <1>1, <2>1, <2>3, <2>4, <2>5 DEF HistoryKept
  <2> QED
    BY <1>1, <2>1, <2>6, <2>7, EnvStays
<1> QED
  BY <1>2, <1>3, <1>4, <1>5 DEF CarryInv

LEMMA CarryKept == CarryInv /\ [C!CarryNext]_carryVars => CarryInv'
<1> SUFFICES ASSUME CarryInv, [C!CarryNext]_carryVars PROVE CarryInv'
  OBVIOUS
<1>1. CASE C!CopyFails("stateCopy", "state") \/ C!CopyFails("historyCopy", "history")
  BY <1>1, FailsKeep
<1>2. CASE \E t \in C!Tables : C!Write(t) \/ C!Empty(t)
  BY <1>2, WriteKeeps, EmptyKeeps
<1> QED
  BY <1>1, <1>2, StartKeeps, EnterStateKeeps, EnterHistoryKeeps, ImportKeeps, EndKeeps, CrashKeeps, CopyStateKeeps,
     CopyHistoryKeeps DEF C!CarryNext

\* Numbers have a least one among them, which is what First chooses.
LEMMA Least ==
  ASSUME NEW Some, Some \subseteq Nat, Some # {}
  PROVE  \E m \in Some : \A n \in Some : m <= n
<1> DEFINE Below == {p \in Nat \X Nat : p[1] < p[2]}
<1>1. IsWellFoundedOn(Below, Nat)
  BY NatLessThanWellFounded DEF OpToRel
<1>2. \E x \in Some : \A y \in Some : <<y, x>> \notin Below
  BY <1>1, WFMin
<1>3. \A y, x \in Nat : <<y, x>> \in Below <=> y < x
  OBVIOUS
<1> HIDE DEF Below
<1>4. PICK m \in Some : \A y \in Some : <<y, m>> \notin Below
  BY <1>2
<1>5. \A y \in Some : ~(y < m)
  BY <1>3, <1>4
<1>6. \A y \in Some : m <= y
  <2> SUFFICES ASSUME NEW y \in Some PROVE m <= y
    OBVIOUS
  <2>1. y \in Nat /\ m \in Nat
    OBVIOUS
  <2> QED
    BY <1>5, <2>1
<1> QED
  BY <1>6

LEMMA FirstIs ==
  ASSUME files \in Seq(C!Legacy), NEW ts, NEW t \in ts
  PROVE  C!First(t, ts) = {} \/ \E j \in Places : FirstAt(j, ts) /\ C!First(t, ts) = Of(j, t)
<1>1. PICK at : at = {j \in Places : \E u \in ts : Of(j, u) # {}}
  OBVIOUS
<1>2. C!First(t, ts) = IF at = {} THEN {} ELSE Of(CHOOSE i \in at : \A j \in at : i <= j, t)
  BY <1>1 DEF C!First, Of, Places
<1>3. CASE at # {}
  <2>1. at \subseteq Nat /\ Places \subseteq Nat
    BY <1>1, Held
  <2>2. \E i \in at : \A j \in at : i <= j
    BY <1>3, <2>1, Least
  <2>3. PICK i : i = CHOOSE n \in at : \A j \in at : n <= j
    OBVIOUS
  <2>4. i \in at /\ \A j \in at : i <= j
    BY <2>2, <2>3
  <2>5. ASSUME NEW k \in Places, k < i, NEW u \in ts PROVE Of(k, u) = {}
    <3>1. k \notin at
      BY <2>1, <2>4, <2>5
    <3> QED
      BY <1>1, <3>1
  <2>6. FirstAt(i, ts) /\ i \in Places
    <3>1. i \in Places /\ \E u \in ts : Of(i, u) # {}
      BY <1>1, <2>4
    <3> QED
      BY <2>5, <3>1 DEF FirstAt
  <2>7. C!First(t, ts) = Of(i, t)
    BY <1>2, <1>3, <2>3
  <2> QED
    BY <2>6, <2>7
<1> QED
  BY <1>2, <1>3

LEMMA SameCount == \A Some : C!Cardinality(Some) = Cardinality(Some)
BY DEF C!Cardinality, Cardinality

LEMMA OneIsFew == ASSUME NEW Some, \A n, m \in Some : n = m PROVE Cardinality(Some) <= 1
<1>1. CASE Some = {}
  BY <1>1, FS_EmptySet
<1>2. CASE Some # {}
  <2>1. PICK n : Some = {n}
    BY <1>2
  <2> QED
    BY <2>1, FS_Singleton
<1> QED
  BY <1>1, <1>2

LEMMA CarryIsPure == CarryInv => C!NoMix
<1> SUFFICES ASSUME CarryInv PROVE C!NoMix
  OBVIOUS
<1>1. OneFile(HistoryNames) /\ \A t \in C!Tables : OneFile({t})
  BY DEF CarryInv, OneSource
<1>2. \A ts : OneFile(ts) => C!Cardinality(C!FilesOf(ts)) <= 1
  BY OneIsFew, SameCount DEF OneFile
<1> QED
  BY <1>1, <1>2 DEF C!NoMix, HistoryNames

LEMMA CarryIsWhole == CarryInv => C!Complete
<1> SUFFICES ASSUME CarryInv, boot.pc = "up", ~carried.cut, NEW t \in C!Tables \ carried.emptied
             PROVE  /\ t \in StateNames \/ carried.emptied = {} =>
                         C!First(t, IF t \in StateNames THEN {t} ELSE HistoryNames) \subseteq live[t]
                    /\ t = "settings" /\ C!First(t, {t}) # {} => "env" \notin live[t]
  BY DEF C!Complete, StateNames, HistoryNames
<1>1. files \in Seq(C!Legacy) /\ StateKept /\ HistoryKept /\ EnvLast
  BY DEF CarryInv, CarryTypes
<1>2. ~HistoryUntried /\ \A u : ~Untried(u)
  BY DEF HistoryUntried, Untried
<1>3. ASSUME NEW ts, t \in ts, Taken(ts) PROVE C!First(t, ts) \subseteq live[t]
  BY <1>1, <1>3, FirstIs DEF Taken
<1>4. CASE t \in StateNames
  <2>1. Taken({t})
    BY <1>1, <1>2, <1>4 DEF StateKept
  <2>2. C!First(t, {t}) # {} => \E j \in Places : FirstAt(j, {t})
    BY <1>1, FirstIs
  <2> QED
    BY <1>1, <1>3, <1>4, <2>1, <2>2 DEF EnvLast
<1>5. CASE t \notin StateNames
  <2>1. t \in HistoryNames /\ t # "settings"
    BY <1>5, CarryNames
  <2>2. carried.emptied = {} => Taken(HistoryNames)
    BY <1>1, <1>2 DEF HistoryKept
  <2> QED
    BY <1>3, <1>5, <2>1, <2>2
<1> QED
  BY <1>4, <1>5

\* What a table held before the boot, the boot leaves.
LEMMA CarrySpares == CarryInv /\ [C!CarryNext]_carryVars => [C!CarryStep]_carryVars
<1> SUFFICES ASSUME CarryInv, C!CarryNext, NEW t \in C!Tables, t \notin carried.found, boot.pc # "up"
             PROVE  live'[t] = live[t]
  BY DEF C!CarryStep, C!carryVars, carryVars
<1>1. CarryTypes /\ CopySound /\ boot \in Boots
  BY DEF CarryInv, CarryTypes
<1>2. ASSUME NEW copying \in {"stateCopy", "historyCopy"}, NEW at, NEW tables, C!Copy(copying, at, tables),
             \A k \in DOMAIN tables : tables[k] \in C!Tables, DOMAIN tables = 1 .. Len(tables), Len(tables) \in Nat
      PROVE  live'[t] = live[t]
  <2>1. boot.pc = copying
    BY <1>2 DEF C!Copy
  <2>2. boot.k >= 1
    BY <1>1, <1>2, <2>1 DEF CopySound
  <2>3. live' = live \/ (boot.k \in DOMAIN tables /\ Turn(tables[boot.k]))
    BY <1>1, <1>2, <2>2, Turns
  <2>4. ASSUME boot.k \in DOMAIN tables, Turn(tables[boot.k]) PROVE live'[t] = live[t]
    <3>1. PICK u \in C!Tables : u = tables[boot.k]
      BY <1>2, <2>4
    <3> QED
      BY <1>1, <1>2, <2>1, <2>4, <3>1, TurnGrows
  <2> QED
    BY <2>3, <2>4
<1>3. CASE C!Copy("stateCopy", "state", StateTables)
  BY <1>2, <1>3, CarryNames
<1>4. CASE C!Copy("historyCopy", "history", HistoryTables)
  BY <1>2, <1>4, CarryNames
<1>5. CASE C!ImportEnv
  <2>1. boot.pc = "env" /\ live' = IF live["settings"] = {} THEN [live EXCEPT !["settings"] = {"env"}] ELSE live
    BY <1>5 DEF C!ImportEnv
  <2>2. t \in carried.found \/ live[t] # {}
    BY <1>1, <2>1 DEF CopySound
  <2> QED
    BY <1>1, <2>1, <2>2 DEF CarryTypes
<1>6. CASE UNCHANGED live
  BY <1>6
<1> QED
  BY <1>3, <1>4, <1>5, <1>6 DEF C!CarryNext, C!Start, C!EnterState, C!EnterHistory, C!Enter, C!End, C!Crash, C!CopyFails,
     C!Write, C!Empty

LEMMA CarrySteps == [OfficeNext]_wholeVars => UNCHANGED office /\ [C!CarryNext]_carryVars
BY DEF OfficeNext, OStep, PStep, MStep, KStep, LStep, HStep, CStep, wholeVars, keptVars, fileVars, otherVars, carryVars

(* No table, and not the history as a whole, ever mixes the rows of two    *)
(* files, whatever is cut short; where nothing was, a table that was never *)
(* emptied holds what the first file had of it and the operator's settings *)
(* come before those of .env; and a boot leaves alone a table it found     *)
(* with rows (store/persist_carry.go, store/history.go, cli_serve.go).     *)
THEOREM CarriesHold == OfficeSpec => CarryHolds
<1>1. OfficeInit => CarryInv
  BY CarryStarts DEF OfficeInit
<1>2. CarryInv /\ [OfficeNext]_wholeVars => CarryInv'
  BY CarrySteps, CarryKept
<1>3. CarryInv => (office = "carry" => C!NoMix /\ C!Complete)
  BY CarryIsPure, CarryIsWhole
<1>4. CarryInv /\ [OfficeNext]_wholeVars => [C!CarryStep]_carryVars
  BY CarrySteps, CarrySpares
<1>5. OfficeSpec => OfficeInit /\ [][OfficeNext]_wholeVars
  BY DEF OfficeSpec, wholeVars
<1> QED
  BY <1>1, <1>2, <1>3, <1>4, <1>5, PTL DEF CarryHolds
=============================================================================
