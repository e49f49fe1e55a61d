-------------------------- MODULE MCResultDelivery --------------------------
(* Model values and the small instances of ResultDelivery. *)
EXTENDS ResultDelivery

CONSTANTS p, s
=============================================================================
