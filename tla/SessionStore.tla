----------------------------- MODULE SessionStore -----------------------------
(***************************************************************************)
(* session/store.go over store/sessions.go: the row of one account, the    *)
(* session in its one half and the runs in its other; what the process     *)
(* remembers of it; the legacy file that is folded in.  The session        *)
(* manager and the run manager call it, the database may fail a call, and  *)
(* the process may end between any two.                                    *)
(***************************************************************************)
EXTENDS FiniteSets, Naturals

CONSTANTS
  Sessions, Runs, Agents,   \* instance ids, run ids, agents
  Files, Baks, Rows,        \* what a first boot may find
  MaxCalls, MaxFaults, MaxBoots   \* bounds

VARIABLES
  file,    \* the legacy file and its archive
  row,     \* sessions_persist
  mem,     \* the Store: data, runs, fetched, imported; whether it has a backend
  gone,    \* sessions whose grace window has closed
  asked,   \* callers that have loaded since the boot
  truth,   \* history: what the managers last saved
  scars,   \* history: the faults of earlier boots, and of this one
  count

storeVars == <<file, row, mem, gone, asked, truth, scars, count>>

None == "none"
Hollow == "hollow"     \* an active session without an instance id
NoRuns == [g \in Agents |-> None]
Nothing == [sess |-> None, runs |-> NoRuns]
Clean(c) == [c EXCEPT !.sess = IF @ = Hollow THEN None ELSE @]
NoFile == [kind |-> "none", is |-> Nothing]
Readable(f) == f.kind = "kept"
Opened(backend) == [sess |-> None, runs |-> NoRuns, fetched |-> FALSE, imported |-> FALSE, backend |-> backend]

World == [file |-> file, row |-> row, mem |-> mem]
Archived(w, fault) ==
  IF fault = "archive" THEN w
  ELSE [w EXCEPT !.file = [live |-> NoFile, bak |-> w.file.live]]

\* ensureImportedLocked: the row wins over the file.
Kept(m, c) == [m EXCEPT !.sess = IF c.sess = None THEN @ ELSE c.sess,
                        !.runs = IF c.runs = NoRuns THEN @ ELSE c.runs, !.imported = TRUE]
Fold(w, fault) ==
  LET c == Clean(w.file.live.is)
      done == [w EXCEPT !.mem.imported = TRUE]
      kept == [w EXCEPT !.mem = Kept(@, c)]
      idle == w.mem.imported \/ (Readable(w.file.live) /\ fault = "file")
      held == Readable(w.file.live) /\ c # Nothing
  IN CASE idle -> w
       [] ~idle /\ ~held -> IF Readable(w.file.live) /\ w.mem.backend THEN Archived(done, fault) ELSE done
       [] ~idle /\ held /\ ~w.mem.backend -> [kept EXCEPT !.mem.fetched = TRUE]
       [] ~idle /\ held /\ w.mem.backend /\ fault # "read" /\ w.row # Nothing -> Archived(done, fault)
       [] OTHER -> IF fault \in {"read", "write"} THEN kept
                   ELSE Archived([kept EXCEPT !.mem.fetched = TRUE, !.row = c], fault)

\* fetchLocked: both halves, once.
FetchesSession(w, fault) ==
  IF ~w.mem.backend \/ w.mem.fetched THEN w
  ELSE [w EXCEPT !.mem.fetched = TRUE, !.mem.sess = Clean(w.row).sess]
Fetch(w, fault) ==
  IF ~w.mem.backend \/ w.mem.fetched THEN w
  ELSE IF fault = "read" \/ w.row = Nothing THEN [w EXCEPT !.mem.fetched = TRUE]
  ELSE LET c == Clean(w.row)
       IN [w EXCEPT !.mem.fetched = TRUE, !.mem.sess = IF c.sess = None THEN @ ELSE c.sess,
                    !.mem.runs = IF c.runs = NoRuns THEN @ ELSE c.runs]
Blind(w, fault) == w.mem.backend /\ ~w.mem.fetched /\ fault = "read"
\* persistLocked
Persist(w, fault) ==
  IF ~w.mem.backend \/ fault = "write" THEN w
  ELSE [w EXCEPT !.row = [sess |-> w.mem.sess, runs |-> w.mem.runs]]

\* The calls, on a world.
AfterLoad(w, fault) ==
  LET f == Fold(w, fault)
      v == IF f.mem.sess = None THEN Fetch(f, fault) ELSE f
  IN IF v.mem.sess \in gone THEN Persist([v EXCEPT !.mem.sess = None], fault) ELSE v
AfterSave(w, s, fault) == Persist([Fold(w, fault) EXCEPT !.mem.fetched = TRUE, !.mem.sess = s], fault)
AfterRemove(w, expected, fault) ==
  LET f == Fold(w, fault)
      v == IF f.mem.sess = None THEN Fetch(f, fault) ELSE f
      unseen == f.mem.sess = None /\ Blind(f, fault)
  IN IF unseen \/ v.mem.sess = None \/ expected \notin {None, v.mem.sess} THEN v ELSE Persist([v EXCEPT !.mem.sess = None], fault)
AfterLoadRun(w, g, fault) ==
  LET f == Fold(w, fault) IN IF f.mem.runs[g] = None THEN Fetch(f, fault) ELSE f
AfterSaveRun(w, g, r, fault) ==
  LET f == Fold(w, fault)
      v == IF f.mem.runs = NoRuns THEN Fetch(f, fault) ELSE f
  IN Persist([v EXCEPT !.mem.fetched = TRUE, !.mem.runs[g] = r], fault)
AfterRemoveRun(w, g, fault) ==
  LET f == Fold(w, fault)
      v == IF f.mem.runs = NoRuns THEN Fetch(f, fault) ELSE f
      unseen == f.mem.runs = NoRuns /\ Blind(f, fault)
  IN IF unseen \/ v.mem.runs[g] = None THEN v
     ELSE Persist([v EXCEPT !.mem.runs[g] = None], fault)

-----------------------------------------------------------------------------
Faults == {"read", "write", "archive", "file"}
Call(w, fault) ==
  /\ count.boots > 0 /\ count.calls < MaxCalls /\ (fault # "no" => count.faults < MaxFaults)
  /\ file' = w.file /\ row' = w.row /\ mem' = w.mem
  /\ scars' = [scars EXCEPT !.now = IF fault = "no" THEN @ ELSE @ \cup {fault}]
  /\ count' = [count EXCEPT !.calls = @ + 1, !.faults = IF fault = "no" THEN @ ELSE @ + 1]
  /\ UNCHANGED gone

\* A manager saves only after it has looked for what an earlier process left.
Load(fault) == Call(AfterLoad(World, fault), fault) /\ asked' = asked \cup {"session"} /\ UNCHANGED truth
Save(s, fault) ==
  /\ "session" \in asked /\ Call(AfterSave(World, s, fault), fault)
  /\ truth' = [truth EXCEPT !.sess = s] /\ UNCHANGED asked
Remove(expected, fault) ==
  /\ Call(AfterRemove(World, expected, fault), fault)
  /\ truth' = [truth EXCEPT !.sess = IF expected \in {None, @} THEN None ELSE @] /\ UNCHANGED asked
LoadRun(g, fault) == Call(AfterLoadRun(World, g, fault), fault) /\ asked' = asked \cup {g} /\ UNCHANGED truth
SaveRun(g, r, fault) ==
  /\ g \in asked /\ Call(AfterSaveRun(World, g, r, fault), fault)
  /\ truth' = [truth EXCEPT !.runs[g] = r] /\ UNCHANGED asked
RemoveRun(g, fault) ==
  /\ Call(AfterRemoveRun(World, g, fault), fault)
  /\ truth' = [truth EXCEPT !.runs[g] = None] /\ UNCHANGED asked
\* Time passes over the grace window of a session.
Expire(s) == gone' = gone \cup {s} /\ UNCHANGED <<file, row, mem, asked, truth, scars, count>>

-----------------------------------------------------------------------------
(* A boot: importSessionsReader on the file, whose sessions win over the   *)
(* row, and on its archive when the table is left without a row.           *)
Incoming(r, c) ==
  IF c.sess # None THEN c ELSE IF r = Nothing THEN [r EXCEPT !.runs = c.runs] ELSE r
Imported(w, fault) ==
  IF ~Readable(w.file.live) \/ fault \in {"file", "read", "write"} THEN w
  ELSE Archived([w EXCEPT !.row = Incoming(@, w.file.live.is)], fault)
\* others: the rows of other accounts.
Reconsulted(w, others) ==
  IF w.row = Nothing /\ ~others /\ w.file.live = NoFile /\ Readable(w.file.bak)
  THEN [w EXCEPT !.row = Incoming(@, w.file.bak.is)] ELSE w
Boot(backend, others, fault) ==
  LET w == IF backend THEN Imported(World, fault) ELSE World
      v == IF backend THEN Reconsulted(w, others) ELSE w
      first == count.boots = 0
  IN /\ count.boots < MaxBoots /\ (fault # "no" => backend /\ count.faults < MaxFaults)
     /\ file' = v.file /\ row' = v.row /\ mem' = Opened(backend) /\ asked' = {}
     /\ truth' = IF ~first THEN truth
                 ELSE IF backend THEN Clean(v.row)
                 ELSE IF Readable(file.live) THEN Clean(file.live.is) ELSE Nothing
     /\ scars' = [old |-> scars.old \cup scars.now \cup (IF fault = "no" THEN {} ELSE {fault})
                          \cup (IF v.row # w.row /\ ~first THEN {"revived"} ELSE {})
                          \cup (IF backend \/ first THEN {} ELSE {"memory"}),
                  now |-> IF backend THEN {} ELSE {"memory"}]
     /\ count' = [count EXCEPT !.boots = @ + 1, !.faults = IF fault = "no" THEN @ ELSE @ + 1]
     /\ UNCHANGED gone

StoreInit ==
  /\ \E l \in Files, b \in Baks : file = [live |-> l, bak |-> b]
  /\ row \in Rows /\ mem = Opened(TRUE) /\ gone = {} /\ asked = {}
  /\ truth = Nothing /\ scars = [old |-> {}, now |-> {}]
  /\ count = [calls |-> 0, faults |-> 0, boots |-> 0]
StoreNext ==
  \/ \E fault \in Faults \cup {"no"} :
       \/ Load(fault)
       \/ \E s \in Sessions \cup {None} : Save(s, fault) \/ Remove(s, fault)
       \/ \E g \in Agents : LoadRun(g, fault) \/ RemoveRun(g, fault) \/ \E r \in Runs : SaveRun(g, r, fault)
       \/ \E backend, others \in BOOLEAN : Boot(backend, others, fault)
  \/ \E s \in Sessions : Expire(s)
StoreSpec == StoreInit /\ [][StoreNext]_storeVars

-----------------------------------------------------------------------------
\* What the managers saved last, both halves of it, is what the next process will
\* resume as long as the database answered; and what this process serves even when
\* writes failed.  (After other faults, and after the archive was consulted again,
\* it may not: README, section 5.)
Alive(c) == IF c.sess \in gone THEN [c EXCEPT !.sess = None] ELSE c
Served == [sess |-> AfterLoad(World, "no").mem.sess,
           runs |-> [g \in Agents |-> AfterLoadRun(World, g, "no").mem.runs[g]]]
ResumesWhatWasSaved ==
  count.boots > 0 /\ scars.old = {} =>
    /\ scars.now = {} => Alive(Clean(row)) = Alive(truth)
    /\ scars.now \subseteq {"write", "archive", "memory"} => Alive(Served) = Alive(truth)
=============================================================================
