--------------------------- MODULE MCApprovalReminder ---------------------------
(* Values of ApprovalReminder's constants for TLC. *)
EXTENDS ApprovalReminder
================================================================================
