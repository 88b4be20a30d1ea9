--------------------------- MODULE MCAcquireRoute ---------------------------
(* Small instances of AcquireRoute for TLC. *)
EXTENDS AcquireRoute, TLC

CONSTANTS e1, e2, e3, m1, m2

OneEntry == <<e1>>
TwoEntries == <<e1, e2>>

\* Requests are interchangeable; entries are not, the roster orders them.
RequestSymmetry == Permutations(Requests)
=============================================================================
