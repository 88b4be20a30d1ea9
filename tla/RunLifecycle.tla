----------------------------- MODULE RunLifecycle -----------------------------
(***************************************************************************)
(* What the run manager owes upstream, run by run: a run is leased only    *)
(* while it is open, it is FINISHed when nobody holds a lease and by one   *)
(* caller at a time, and once FINISH has succeeded it is never leased nor  *)
(* FINISHed again (steps.go:83-89, drain.go:322-338).  Shutdown alone      *)
(* finishes runs under a lease.                                            *)
(***************************************************************************)
EXTENDS Naturals

CONSTANT AllRuns

VARIABLES
  life,   \* [AllRuns -> {"unborn", "open", "retired", "closing", "ended"}]
  leases  \* [AllRuns -> Nat]

lifeVars == <<life, leases>>

LifeInit == /\ life = [r \in AllRuns |-> "unborn"]
            /\ leases = [r \in AllRuns |-> 0]

\* The runs of S take no new leases from here on.
Retire(S) == [r \in AllRuns |-> IF r \in S /\ life[r] = "open" THEN "retired" ELSE life[r]]

\* A run opens, and the run it replaces retires; or it is started too late to
\* be opened at all.
Open(r) == /\ life[r] = "unborn"
           /\ \E S \in SUBSET AllRuns : life' = [Retire(S) EXCEPT ![r] = "open"]
           /\ UNCHANGED leases
BornLate(r) == /\ life[r] = "unborn"
               /\ life' = [life EXCEPT ![r] = "closing"]
               /\ UNCHANGED leases

TakeLease(r) == /\ life[r] = "open"
                /\ leases' = [leases EXCEPT ![r] = @ + 1]
                /\ UNCHANGED life

\* A lease ends, and the run may retire with it.
EndLease(r) == /\ leases[r] > 0
               /\ leases' = [leases EXCEPT ![r] = @ - 1]
               /\ life' = life \/ life' = Retire({r})

RetireSome == /\ \E S \in SUBSET AllRuns : life' = Retire(S)
              /\ UNCHANGED leases

Close(r) == /\ life[r] = "retired"
            /\ leases[r] = 0
            /\ life' = [life EXCEPT ![r] = "closing"]
            /\ UNCHANGED leases

\* FINISH succeeds, or fails and leaves the run to a later attempt.
Closed(r) == /\ life[r] = "closing"
             /\ \E s \in {"ended", "retired"} : life' = [life EXCEPT ![r] = s]
             /\ UNCHANGED leases

\* Only the runs still tracked are closed by a shutdown.
CloseSome == /\ \E S \in SUBSET AllRuns :
                  life' = [r \in AllRuns |-> IF r \in S /\ life[r] \in {"open", "retired"}
                                             THEN "closing" ELSE life[r]]
             /\ \A r \in AllRuns : life'[r] # "open"
             /\ UNCHANGED leases

LifeNext == \/ \E r \in AllRuns : \/ Open(r) \/ BornLate(r) \/ TakeLease(r) \/ EndLease(r)
                                  \/ Close(r) \/ Closed(r)
            \/ RetireSome \/ CloseSome

LifeSpec == LifeInit /\ [][LifeNext]_lifeVars
=============================================================================
