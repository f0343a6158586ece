----------------------------- MODULE MCIdempotency -----------------------------
(* Values of Idempotency's constants for TLC. *)
EXTENDS Idempotency

CONSTANTS c1, c2, k1, b1, b2
================================================================================
