----------------------------- MODULE MCLedgerAppend -----------------------------
(* Values of LedgerAppend's constants for TLC. *)
EXTENDS LedgerAppend, TLC

CONSTANTS c1, c2, c3, k1, k2

Symmetry == Permutations({c1, c2, c3}) \union Permutations({k1, k2})
================================================================================
