------------------------------ MODULE MCIntake ------------------------------
(* Three requests for one key.                                             *)
EXTENDS Intake

CONSTANTS a, b, c, k

OneKey == [r \in Requests |-> k]
=============================================================================
