---------------------------- MODULE MCDrainMode -----------------------------
(* Small instances of DrainMode. *)
EXTENDS DrainMode

CONSTANTS j1, j2, j3
=============================================================================
