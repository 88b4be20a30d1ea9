----------------------------- MODULE TokenEntries -----------------------------
(***************************************************************************)
(* The life of a pooled token's entry: appended to the roster, leased by   *)
(* requests that work on a snapshot of it, reordered, taken off by the     *)
(* operator, parked in the retired map while a lease is out, drained       *)
(* (FINISH of its runs, end of its session), pruned; with the idle pass of *)
(* the maintenance loop and Shutdown.                                      *)
(*                                                                         *)
(* The roster is an immutable slice behind an atomic pointer; retired has  *)
(* a mutex; the count of leases belongs to the entry's run manager.  A     *)
(* step is one access to one of them, or one upstream call.                *)
(***************************************************************************)
EXTENDS Naturals, FiniteSets, Sequences, SequencesExt

CONSTANTS
  Clients,      \* goroutines that acquire and release leases
  Operator,     \* the dashboard's goroutine, and Shutdown's
  Maintainer,   \* the maintain loop
  Entries,
  Boot,         \* the roster at the start
  MaxTurns,     \* bound: leases asked for
  MaxEdits,     \* bound: operations of the operator
  EntryOps,     \* operations of the operator
  NoEntry, Nobody

\* The pool starts with distinct entries; the goroutines are different ones.
EntriesAssumption ==
  /\ Boot \in Seq(Entries) /\ IsInjective(Boot) /\ NoEntry \notin Entries
  /\ Operator \notin Clients /\ Maintainer \notin Clients \cup {Operator}
  /\ Nobody \notin Clients \cup {Operator, Maintainer}

AllEntryOps == {"add", "last", "at", "all", "swap", "move", "reload", "reorder", "finish", "stop"}
Workers == Clients \cup {Operator, Maintainer}

VARIABLES
  roster,     \* the entries in order
  retired,    \* Pool.retired
  removed,    \* how an entry went: by RemoveLastToken, RemoveTokenAt, RemoveAllTokens, SetConfig
  drainer,    \* who is inside the entry's drained.Do
  drained,    \* entries whose drained.Do is over
  hasRun,     \* entries with an open run
  hasSession, \* entries with an admitted session
  idle,       \* idle past IDLE_ROTATION_TIMEOUT; idleFinished
  stopping,   \* Pool.draining
  turns, edits,
  epc, eloc

rosterVars == <<roster, retired, removed>>
drainVars == <<drainer, drained>>
workVars == <<hasRun, hasSession>>
poolVars == <<idle, stopping, turns, edits>>
evars == <<rosterVars, drainVars, workVars, poolVars, epc, eloc>>

EPCs == {"home", "admit", "alive", "start", "confirm", "leased", "giveback", "pop", "popat",
         "retire", "drain", "finish", "end", "clear", "sweep", "replace", "park", "settle"}
\* Entry at hand, its index, the entries still to visit, whether a lease slipped
\* in, whether the finish is inside drained.Do, and the roster of a reload.
NoELoc == [e |-> NoEntry, i |-> 0, rest |-> <<>>, slip |-> FALSE, once |-> FALSE, why |-> "", new |-> <<>>]

EInit ==
  /\ roster = Boot
  /\ retired = {} /\ removed = [e \in Entries |-> ""]
  /\ drainer = [e \in Entries |-> Nobody] /\ drained = {}
  /\ hasRun = {} /\ hasSession = {}
  /\ idle = [long |-> FALSE, finished |-> FALSE] /\ stopping = FALSE
  /\ turns = 0 /\ edits = 0
  /\ epc = [w \in Workers |-> "home"] /\ eloc = [w \in Workers |-> NoELoc]

-----------------------------------------------------------------------------
Jump(w, pc, l) == epc' = [epc EXCEPT ![w] = pc] /\ eloc' = [eloc EXCEPT ![w] = l]
Home(w) == Jump(w, "home", NoELoc)
Keep(w, pc) == Jump(w, pc, eloc[w])

\* InflightCount: the run is held from its acquisition to its release.
InflightOf(e) == {c \in Clients : eloc[c].e = e /\ epc[c] \in {"confirm", "leased"}}
OnRosterAt(w) == eloc[w].i \in DOMAIN roster /\ roster[eloc[w].i] = eloc[w].e

\* The request picks an entry of the snapshot.
Ask(c) ==
  /\ epc[c] = "home" /\ ~stopping /\ turns < MaxTurns /\ turns' = turns + 1
  /\ \E i \in DOMAIN roster : Jump(c, "admit", [NoELoc EXCEPT !.e = roster[i], !.i = i])
  /\ UNCHANGED <<rosterVars, drainVars, workVars, idle, stopping, edits>>
\* EnsureSessionForModel.
AdmitSession(c) ==
  /\ epc[c] = "admit"
  /\ hasSession' = hasSession \cup {eloc[c].e} /\ Keep(c, "alive")
  /\ UNCHANGED <<rosterVars, drainVars, hasRun, poolVars>>
Vanished(c) ==
  /\ epc[c] = "alive"
  /\ IF OnRosterAt(c) THEN Keep(c, "start") ELSE Home(c)
  /\ UNCHANGED <<rosterVars, drainVars, workVars, poolVars>>
\* Precreate and Acquire.
StartRun(c) ==
  /\ epc[c] = "start"
  /\ hasRun' = hasRun \cup {eloc[c].e} /\ Keep(c, "confirm")
  /\ UNCHANGED <<rosterVars, drainVars, hasSession, poolVars>>
\* The roster once more: the lease, and the pool is active; or back with the run.
Grant(c) ==
  /\ epc[c] = "confirm"
  /\ IF OnRosterAt(c)
     THEN Keep(c, "leased") /\ idle' = [long |-> FALSE, finished |-> FALSE]
     ELSE Home(c) /\ UNCHANGED idle
  /\ UNCHANGED <<rosterVars, drainVars, workVars, stopping, turns, edits>>

\* LeaseRelease gives the run back, then looks whether the entry is parked.
GiveRunBack(c) ==
  /\ epc[c] = "leased" /\ Keep(c, "giveback")
  /\ UNCHANGED <<rosterVars, drainVars, workVars, poolVars>>
LookParked(c) ==
  /\ epc[c] = "giveback"
  /\ IF eloc[c].e \in retired /\ InflightOf(eloc[c].e) = {} THEN Keep(c, "drain") ELSE Home(c)
  /\ UNCHANGED <<rosterVars, drainVars, workVars, poolVars>>
\* LeaseAbandon: the run ends with its last lease.
Abandon(c) ==
  /\ epc[c] = "leased" /\ Home(c)
  /\ hasRun' = IF InflightOf(eloc[c].e) = {c} THEN hasRun \ {eloc[c].e} ELSE hasRun
  /\ UNCHANGED <<rosterVars, drainVars, hasSession, poolVars>>

-----------------------------------------------------------------------------
(* drainRemovedToken, and the plain drains.                                *)

AfterDrain(w) ==
  IF eloc[w].why = "reload" THEN Jump(w, "settle", [eloc[w] EXCEPT !.once = FALSE]) ELSE Home(w)
EnterDrain(w) ==
  LET e == eloc[w].e IN
  /\ epc[w] = "drain"
  /\ \/ /\ e \notin drained /\ drainer[e] = Nobody
        /\ drainer' = [drainer EXCEPT ![e] = w]
        /\ Jump(w, "finish", [eloc[w] EXCEPT !.once = TRUE])
     \/ e \in drained /\ AfterDrain(w) /\ UNCHANGED drainer
  /\ UNCHANGED <<rosterVars, drained, workVars, poolVars>>
\* FinishAllRuns detaches the runs; those with a lease are FINISHed by its release.
FinishAll(w) ==
  /\ epc[w] = "finish"
  /\ hasRun' = hasRun \ {eloc[w].e}
  /\ IF eloc[w].why = "idle" THEN Keep(w, "sweep")
     ELSE IF eloc[w].why = "finish" THEN Home(w) ELSE Keep(w, "end")
  /\ UNCHANGED <<rosterVars, drainVars, hasSession, poolVars>>
\* EndSession; drained.Do is over and the entry leaves retired, or the next is
\* due.
EndOne(w) ==
  LET e == eloc[w].e IN
  /\ epc[w] = "end"
  /\ hasSession' = hasSession \ {e}
  /\ IF eloc[w].once
     THEN /\ drained' = drained \cup {e} /\ drainer' = [drainer EXCEPT ![e] = Nobody]
          /\ retired' = retired \ {e} /\ AfterDrain(w)
     ELSE UNCHANGED <<drained, drainer, retired>> /\ Keep(w, "sweep")
  /\ UNCHANGED <<roster, removed, hasRun, poolVars>>

-----------------------------------------------------------------------------
(* The operator.                                                           *)

Edit(op) == /\ epc[Operator] = "home" /\ ~stopping /\ op \in EntryOps
            /\ edits < MaxEdits /\ edits' = edits + 1
EditOnly == UNCHANGED <<drainVars, workVars, idle, stopping, turns>>

Append1 ==
  /\ Edit("add")
  /\ \E e \in Entries :
       /\ e \notin ToSet(roster) /\ removed[e] = "" /\ roster' = Append(roster, e)
  /\ EditOnly /\ UNCHANGED <<retired, removed, epc, eloc>>
Swap ==
  /\ Edit("swap")
  /\ \E i, j \in DOMAIN roster :
       i < j /\ roster' = [roster EXCEPT ![i] = roster[j], ![j] = roster[i]]
  /\ EditOnly /\ UNCHANGED <<retired, removed, epc, eloc>>
MoveStale ==
  /\ Edit("move")
  /\ \E i, j \in DOMAIN roster :
       i # j /\ roster' = InsertAt(RemoveAt(roster, i), j, RemoveAt(roster, i)[1])
  /\ EditOnly /\ UNCHANGED <<retired, removed, epc, eloc>>
Move ==
  /\ Edit("move")
  /\ \E i, j \in DOMAIN roster :
       i # j /\ roster' = InsertAt(RemoveAt(roster, i), j, roster[i])
  /\ EditOnly /\ UNCHANGED <<retired, removed, epc, eloc>>

\* RemoveLastToken: refused while busy; the swap; the second look, at whoever
\* was last then; parked; drained if nobody slipped in.
RemoveLast ==
  /\ Edit("last")
  /\ roster # <<>> /\ InflightOf(Last(roster)) = {} /\ Keep(Operator, "pop")
  /\ EditOnly /\ UNCHANGED rosterVars
SlipNever(e) == e \notin Entries
Slip(e) == InflightOf(e) # {}
Pop ==
  LET e == Last(roster) IN
  /\ epc[Operator] = "pop"
  /\ roster' = Front(roster) /\ removed' = [removed EXCEPT ![e] = "last"]
  /\ Jump(Operator, "retire", [NoELoc EXCEPT !.e = e, !.slip = Slip(e)])
  /\ UNCHANGED <<retired, drainVars, workVars, poolVars>>
\* RemoveTokenAt: refused while anyone is busy.
RemoveOne ==
  /\ Edit("at")
  /\ \A e \in ToSet(roster) : InflightOf(e) = {}
  /\ \E i \in DOMAIN roster : Jump(Operator, "popat", [NoELoc EXCEPT !.i = i])
  /\ EditOnly /\ UNCHANGED rosterVars
PopAt ==
  LET i == eloc[Operator].i IN
  /\ epc[Operator] = "popat"
  /\ roster' = RemoveAt(roster, i) /\ removed' = [removed EXCEPT ![roster[i]] = "at"]
  /\ Jump(Operator, "retire", [NoELoc EXCEPT !.e = roster[i]])
  /\ UNCHANGED <<retired, drainVars, workVars, poolVars>>
RetireUnparked ==
  /\ epc[Operator] = "retire"
  /\ IF eloc[Operator].slip THEN Home(Operator) ELSE Keep(Operator, "drain")
  /\ UNCHANGED <<rosterVars, drainVars, workVars, poolVars>>
Retire ==
  /\ epc[Operator] = "retire"
  /\ retired' = retired \cup {eloc[Operator].e}
  /\ IF eloc[Operator].slip THEN Home(Operator) ELSE Keep(Operator, "drain")
  /\ UNCHANGED <<roster, removed, drainVars, workVars, poolVars>>
\* RemoveAllTokens ends one after the other and clears the roster.
RemoveAll ==
  /\ Edit("all")
  /\ Jump(Operator, "sweep", [NoELoc EXCEPT !.rest = roster, !.why = "all"])
  /\ EditOnly /\ UNCHANGED rosterVars
Clear ==
  /\ epc[Operator] = "clear"
  /\ removed' = [e \in Entries |-> IF e \in ToSet(roster) THEN "all" ELSE removed[e]]
  /\ roster' = <<>> /\ Home(Operator)
  /\ UNCHANGED <<retired, drainVars, workVars, poolVars>>
\* SetConfig: every slot of the new list keeps its entry, takes over the entry of
\* its token, or gets a fresh one, and then whoever had the slot before goes.  A
\* list without fresh tokens changes nothing.
Fresh(e) == e \notin ToSet(roster) /\ removed[e] = ""
InPlace(new) == \A i \in DOMAIN new : Fresh(new[i]) \/ (i \in DOMAIN roster /\ new[i] = roster[i])
NewLists(op) ==
  {new \in UNION {[1 .. n -> Entries] : n \in 1 .. Cardinality(Entries)} :
     /\ IsInjective(new) /\ \A i \in DOMAIN new : Fresh(new[i]) \/ new[i] \in ToSet(roster)
     /\ \E i \in DOMAIN new : Fresh(new[i])
     /\ op = "reload" => InPlace(new) /\ Len(new) >= Len(roster)}
\* They go in some order (the code's is that of the slots).
Replaced(new) == {roster[i] : i \in {k \in DOMAIN new \cap DOMAIN roster : Fresh(new[k])}}
Reload ==
  \E op \in {"reload", "reorder"} :
    /\ Edit(op)
    /\ \E new \in NewLists(op) : \E rest \in SetToSeqs(Replaced(new)) :
         Jump(Operator, "replace", [NoELoc EXCEPT !.new = new, !.rest = rest, !.why = "reload"])
    /\ EditOnly /\ UNCHANGED rosterVars
ReplaceRoster ==
  LET new == eloc[Operator].new IN
  /\ epc[Operator] = "replace"
  /\ roster' = new
  /\ removed' = [e \in Entries |-> IF e \in ToSet(roster) \ ToSet(new) THEN "reload" ELSE removed[e]]
  /\ Keep(Operator, "park")
  /\ UNCHANGED <<retired, drainVars, workVars, poolVars>>
Park ==
  /\ epc[Operator] = "park"
  /\ retired' = retired \cup ToSet(eloc[Operator].rest) /\ Keep(Operator, "settle")
  /\ UNCHANGED <<roster, removed, drainVars, workVars, poolVars>>
\* The idle ones are drained at once.
Settle ==
  LET l == eloc[Operator] IN
  /\ epc[Operator] = "settle"
  /\ IF l.rest = <<>> THEN Home(Operator)
     ELSE Jump(Operator, IF InflightOf(Head(l.rest)) = {} THEN "drain" ELSE "settle",
               [l EXCEPT !.e = Head(l.rest), !.rest = Tail(l.rest)])
  /\ UNCHANGED <<rosterVars, drainVars, workVars, poolVars>>
\* FinishTokenRuns.
FinishToken ==
  /\ Edit("finish")
  /\ \E e \in ToSet(roster) : Jump(Operator, "finish", [NoELoc EXCEPT !.e = e, !.why = "finish"])
  /\ EditOnly /\ UNCHANGED rosterVars
\* Shutdown: no new Acquire; the maintain loop has ended; the roster is drained.
Stop ==
  /\ Edit("stop") /\ epc[Maintainer] = "home"
  /\ stopping' = TRUE
  /\ Jump(Operator, "sweep", [NoELoc EXCEPT !.rest = roster, !.why = "stop"])
  /\ UNCHANGED <<rosterVars, drainVars, workVars, idle, turns>>
\* The next entry of a list; the idle pass skips the busy ones.
SweepNext(w) ==
  LET l == eloc[w] IN
  /\ epc[w] = "sweep"
  /\ IF l.rest = <<>>
     THEN IF l.why = "all" THEN Keep(w, "clear") ELSE Home(w)
     ELSE LET n == [l EXCEPT !.e = Head(l.rest), !.rest = Tail(l.rest)] IN
          IF l.why = "idle" /\ InflightOf(n.e) # {} THEN Jump(w, "sweep", n) ELSE Jump(w, "finish", n)
  /\ UNCHANGED <<rosterVars, drainVars, workVars, poolVars>>

-----------------------------------------------------------------------------
(* The maintain loop.                                                      *)

\* tryIdleFinish: once per idle stretch.
IdlePass ==
  /\ epc[Maintainer] = "home" /\ ~stopping /\ idle.long /\ ~idle.finished
  /\ idle' = [idle EXCEPT !.finished = TRUE]
  /\ Jump(Maintainer, "sweep", [NoELoc EXCEPT !.rest = roster, !.why = "idle"])
  /\ UNCHANGED <<rosterVars, drainVars, workVars, stopping, turns, edits>>
\* pruneRetired drops what has been parked longer than retiredDrainGrace.
PrunableBusy(e) == e \in retired
Prunable(e) == InflightOf(e) = {}
Prune ==
  /\ epc[Maintainer] = "home" /\ ~stopping
  /\ \E e \in retired : Prunable(e) /\ retired' = retired \ {e}
  /\ UNCHANGED <<roster, removed, drainVars, workVars, poolVars, epc, eloc>>
GrowIdle ==
  /\ ~idle.long /\ turns > 0 /\ idle' = [idle EXCEPT !.long = TRUE]
  /\ UNCHANGED <<rosterVars, drainVars, workVars, stopping, turns, edits, epc, eloc>>

DrainStep(w) == EnterDrain(w) \/ FinishAll(w) \/ EndOne(w) \/ SweepNext(w)
ClientStep(c) ==
  \/ AdmitSession(c) \/ Vanished(c) \/ StartRun(c) \/ Grant(c) \/ GiveRunBack(c) \/ LookParked(c)
  \/ Abandon(c) \/ DrainStep(c)
OperatorStep == Pop \/ PopAt \/ Retire \/ Clear \/ ReplaceRoster \/ Park \/ Settle \/ DrainStep(Operator)
OperatorCall ==
  Append1 \/ Swap \/ Move \/ RemoveLast \/ RemoveOne \/ RemoveAll \/ Reload \/ FinishToken \/ Stop
MaintainerStep == IdlePass \/ Prune \/ GrowIdle \/ DrainStep(Maintainer)

ENext ==
  \/ \E c \in Clients : Ask(c) \/ ClientStep(c)
  \/ OperatorCall \/ OperatorStep \/ MaintainerStep
ESpec == EInit /\ [][ENext]_evars

-----------------------------------------------------------------------------
ETypeOK ==
  /\ roster \in Seq(Entries) /\ IsInjective(roster) /\ retired \subseteq Entries \ ToSet(roster)
  /\ removed \in [Entries -> {"", "last", "at", "all", "reload"}]
  /\ drainer \in [Entries -> Workers \cup {Nobody}] /\ drained \subseteq Entries
  /\ hasRun \subseteq Entries /\ hasSession \subseteq Entries
  /\ idle \in [long : BOOLEAN, finished : BOOLEAN] /\ stopping \in BOOLEAN
  /\ turns \in 0 .. MaxTurns /\ edits \in 0 .. MaxEdits
  /\ epc \in [Workers -> EPCs]
  /\ eloc \in [Workers -> [e : Entries \cup {NoEntry}, i : 0 .. Cardinality(Entries),
                           rest : Seq(Entries), slip : BOOLEAN, once : BOOLEAN,
                           why : {"", "all", "idle", "finish", "stop", "reload"}, new : Seq(Entries)]]

LeasedEntries == {eloc[c].e : c \in {x \in Clients : epc[x] = "leased"}}

\* RemoveLastToken never takes the session from under a lease, also not from
\* one that slips in between its busy check and the swap.
SlippedKeepsSession ==
  \A e \in LeasedEntries : removed[e] = "last" => e \notin drained /\ drainer[e] = Nobody

\* A lease on an entry that was taken off the roster finds it in the retired map
\* when it is given back, also when a reload replaced it.
AtHand == {eloc[Operator].e} \cup ToSet(eloc[Operator].rest)
SlippedIsParked ==
  \A e \in LeasedEntries :
    removed[e] \in {"last", "at", "reload"} => e \in retired \cup drained \cup AtHand

\* What slips in under a removal is served to its end: both of the above.
SlippedServed == SlippedKeepsSession /\ SlippedIsParked

\* An entry on the roster has not been retired or drained: who keeps a token keeps
\* its runs and its session.
RosterIsOpen == \A e \in ToSet(roster) : e \notin retired \cup drained

\* What is neither on the roster nor parked, and on lease to nobody, has been
\* drained.
RetiredIsDrained ==
  \A e \in Entries :
    removed[e] = "last" /\ e \notin retired /\ InflightOf(e) = {} => e \in drained \/ e = eloc[Operator].e
=============================================================================
