------------------------------ MODULE MCEntries ------------------------------
(* A small instance of TokenEntries for TLC: the pool starts with two tokens. *)
EXTENDS TokenEntries

CONSTANTS e1, e2

TwoTokens == <<e1, e2>>
=============================================================================
