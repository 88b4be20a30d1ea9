---------------------------- MODULE SlotSemaphore ----------------------------
(***************************************************************************)
(* What SLOTS_PER_ACCOUNT promises, whatever queue feeds it: per lane (an  *)
(* account paired with a model, slotKey in pool/slot_ledger.go) at most    *)
(* Cap turns run at a time.  A turn takes a slot, gives it back, or hands  *)
(* it to another turn of the same lane in one step, so that a hand-over    *)
(* never opens a window in which a third turn could slip in.               *)
(***************************************************************************)
EXTENDS Naturals, FiniteSets

CONSTANTS
  Turns,   \* the requests that may hold a slot
  Lanes,   \* the lanes, (account, model) pairs
  NoLane,  \* the value of a turn that holds nothing
  Cap      \* SLOTS_PER_ACCOUNT

VARIABLE holds  \* holds[t] is the lane whose slot t holds, or NoLane

SemTypeOK == holds \in [Turns -> Lanes \cup {NoLane}]

\* The turns that hold a slot of lane k.
HoldersOf(k) == {t \in Turns : holds[t] = k}

SemInit == holds = [t \in Turns |-> NoLane]

\* A free slot of lane k is taken.
Take(t, k) == /\ holds[t] = NoLane
              /\ Cardinality(HoldersOf(k)) < Cap
              /\ holds' = [holds EXCEPT ![t] = k]

\* The slot goes back to its lane.
GiveBack(t) == /\ holds[t] # NoLane
               /\ holds' = [holds EXCEPT ![t] = NoLane]

\* The slot goes straight to a waiting turn.
HandOver(t, u) == /\ holds[t] # NoLane
                  /\ holds[u] = NoLane
                  /\ holds' = [holds EXCEPT ![t] = NoLane, ![u] = holds[t]]

SemNext == \E t \in Turns : \/ \E k \in Lanes : Take(t, k)
                            \/ GiveBack(t)
                            \/ \E u \in Turns : HandOver(t, u)

SemSpec == SemInit /\ [][SemNext]_holds

\* SLOTS_PER_ACCOUNT is a hard wall (slot_ledger.go:4-11).
SemCap == \A k \in Lanes : Cardinality(HoldersOf(k)) <= Cap
=============================================================================
