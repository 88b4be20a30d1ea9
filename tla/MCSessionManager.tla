-------------------------- MODULE MCSessionManager --------------------------
(* Small instances of SessionManager for TLC. *)
EXTENDS SessionManager, TLC

\* Callers are interchangeable, and so are the instances upstream makes.
Symmetry == Permutations(Callers) \cup Permutations(Insts)
=============================================================================
