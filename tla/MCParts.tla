------------------------------- MODULE MCParts -------------------------------
(***************************************************************************)
(* The components that share no state with each other, side by side: one   *)
(* of them is chosen at the start and takes every step.  Its states are    *)
(* those of its own specification, so each property below is the one of    *)
(* the component it is named after.                                        *)
(***************************************************************************)
EXTENDS Naturals, Sequences, FiniteSets, TLC

CONSTANTS
  part_names,
  \* BridgeEntries
  Requests, Maint, Tokens, Models, Bridges, MaxBridge, Cap, MaxAdmit, MaxCalls, MaxEvents,
  BridgeOps, NoBridge, NoToken, NoModel, NoProc,
  \* TokenEntries
  Clients, Operator, Maintainer, Entries, e1, MaxTurns, MaxEdits, EntryOps, NoEntry, Nobody

VARIABLES
  part,
  cache, order, owner, stale, barred, sess, run, gate, once, aerr, jammed, draining, bcalls,
  bevents, bpc, bloc,
  roster, retired, removed, drainer, drained, hasRun, hasSession, idle, stopping, turns, edits,
  epc, eloc

B == INSTANCE BridgeEntries_proofs
E == INSTANCE TokenEntries_proofs WITH Boot <- <<e1>>

\* What each component asks of its constants.
ASSUME PartsAssumption == B!BridgeAssumption /\ E!EntriesAssumption

bridgeVars == <<cache, order, owner, stale, barred, sess, run, gate, once, aerr, jammed, draining,
                bcalls, bevents, bpc, bloc>>
entryVars == <<roster, retired, removed, drainer, drained, hasRun, hasSession, idle, stopping,
               turns, edits, epc, eloc>>

BStep == part = "bridge" /\ B!BNext /\ UNCHANGED entryVars
EStep == part = "entries" /\ E!ENext /\ UNCHANGED bridgeVars

PInit == part \in part_names /\ B!BInit /\ E!EInit
PNext == UNCHANGED part /\ (BStep \/ EStep)
PSpec == PInit /\ [][PNext]_<<part, bridgeVars, entryVars>>

LeasedIsCached == part = "bridge" => B!LeasedIsCached
SlippedServed == part = "entries" => E!SlippedServed

Symmetry == Permutations(Requests) \cup Permutations(Bridges) \cup Permutations(Tokens)
            \cup Permutations(Models) \cup Permutations(Clients)
=============================================================================
