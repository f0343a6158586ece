---------------------------- MODULE MCWorkdayClient ----------------------------
(* Values of WorkdayClient's constants for TLC. *)
EXTENDS WorkdayClient

CONSTANTS c1, c2
================================================================================
