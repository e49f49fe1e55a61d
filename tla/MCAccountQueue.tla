--------------------------- MODULE MCAccountQueue ---------------------------
(* Small instances of AccountQueue for TLC. *)
EXTENDS AccountQueue

CONSTANTS a, b, wa

\* No job has a webhook; a retries once and b until its caller's deadline.
NoHooks == [j \in Jobs |-> NoHook]
DeadlineB == [j \in Jobs |-> IF j = b THEN 3 ELSE 0]
RetriesAB == [j \in Jobs |-> IF j = a THEN 1 ELSE -1]

\* a has a webhook and is retried until its deadline; its webhook is not.
HookA == [j \in Jobs |-> IF j = a THEN wa ELSE NoHook]
DeadlineA == [j \in Jobs |-> IF j = a THEN 3 ELSE 0]
RetriesA == [j \in Jobs |-> IF j = a THEN -1 ELSE 0]
=============================================================================
