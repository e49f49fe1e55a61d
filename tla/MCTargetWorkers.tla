-------------------------- MODULE MCTargetWorkers --------------------------
(* A small instance of TargetWorkers for TLC. *)
EXTENDS TargetWorkers

CONSTANTS a, b, c, ka, kb, ua, ub

\* Jobs a and c are of one account and user, b of another.
KeyOfABC == [j \in Jobs |-> IF j = b THEN kb ELSE ka]
UserOfABC == [j \in Jobs |-> IF j = b THEN ub ELSE ua]

\* Another target owes user ua a webhook.
OwedA == [u \in Users |-> IF u = ua THEN 1 ELSE 0]
=============================================================================
