---------------------------- MODULE MCWorkforceSync ----------------------------
(* Values of WorkforceSync's constants for TLC. *)
EXTENDS WorkforceSync

CONSTANTS w1, w2

Strings == {{}, {"TERMIN", "LEAVE"}, {"INACTIVE"}}

OneOrTwo == {<<w1>>, <<w1, w2>>}

FirstManages == {[w \in Workers |-> IF w = w1 THEN Nobody ELSE w1]}
================================================================================
