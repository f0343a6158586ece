----------------------------- MODULE MCTimeOffSync -----------------------------
(* Values of TimeOffSync's constants for TLC. *)
EXTENDS TimeOffSync

CONSTANTS night, api, k1, k2, k3

Drifted == {1}
================================================================================
