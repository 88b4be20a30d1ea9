----------------------------- MODULE MCRunManager -----------------------------
(* Small instances of RunManager for TLC. *)
EXTENDS RunManager, TLC

\* Callers are interchangeable, and so are the objects runs are made of.
Symmetry == Permutations(Callers) \cup Permutations(Runs)
=============================================================================
