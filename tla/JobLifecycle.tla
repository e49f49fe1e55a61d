---------------------------- MODULE JobLifecycle ----------------------------
(***************************************************************************)
(* What an account queue promises about each job it accepted, without the  *)
(* queue: a job is sent to its target at most once at a time and never     *)
(* again once it has an outcome, it is retried only within its limit, and  *)
(* it may fail without being sent only while no attempt at it is open.     *)
(*                                                                         *)
(* An attempt has two parts: the request is out, and then it has an        *)
(* outcome and is winding up.  Only in the second part may a panic replace *)
(* what the first one decided, and only by "failed".                       *)
(***************************************************************************)
EXTENDS Integers

CONSTANTS Jobs,
          MaxRetries  \* retry limit of each job, -1 for none

VARIABLES status,     \* "none", "queued", "completed" or "failed"
          retries,    \* retries so far
          sending,    \* the jobs with a request out
          ending      \* the jobs whose attempt is winding up

vars == <<status, retries, sending, ending>>

Init ==
    /\ status = [j \in Jobs |-> "none"]
    /\ retries = [j \in Jobs |-> 0]
    /\ sending = {}
    /\ ending = {}

Accept(j) ==
    /\ status[j] = "none"
    /\ status' = [status EXCEPT ![j] = "queued"]
    /\ UNCHANGED <<retries, sending, ending>>

Send(j) ==
    /\ status[j] = "queued"
    /\ j \notin sending \cup ending
    /\ sending' = sending \cup {j}
    /\ UNCHANGED <<status, retries, ending>>

\* The request is over.
Over(j) ==
    /\ j \in sending
    /\ sending' = sending \ {j}
    /\ ending' = ending \cup {j}

\* It has an outcome ...
Settle(j, outcome) ==
    /\ Over(j)
    /\ status[j] = "queued"
    /\ status' = [status EXCEPT ![j] = outcome]
    /\ UNCHANGED retries

\* ... or a retry to come ...
Retry(j) ==
    /\ Over(j)
    /\ MaxRetries[j] = -1 \/ retries[j] < MaxRetries[j]
    /\ retries' = [retries EXCEPT ![j] = @ + 1]
    /\ UNCHANGED status

\* ... or was cancelled: the job is as it was before.
Cancel(j) == Over(j) /\ UNCHANGED <<status, retries>>

\* A panic while the attempt winds up: the job fails, whatever it had.
Panic(j) ==
    /\ j \in ending
    /\ status' = [status EXCEPT ![j] = "failed"]
    /\ UNCHANGED <<retries, sending, ending>>

\* The attempt has reported: from here on an outcome is final.
Close(j) ==
    /\ j \in ending
    /\ ending' = ending \ {j}
    /\ UNCHANGED <<status, retries, sending>>

\* A job that waits fails unsent: its deadline passed or its target is dead.
GiveUp(j) ==
    /\ status[j] = "queued"
    /\ j \notin sending \cup ending
    /\ status' = [status EXCEPT ![j] = "failed"]
    /\ UNCHANGED <<retries, sending, ending>>

Next ==
    \E j \in Jobs :
        \/ Accept(j) \/ Send(j) \/ Retry(j) \/ Cancel(j)
        \/ Panic(j) \/ Close(j) \/ GiveUp(j)
        \/ \E outcome \in {"completed", "failed"} : Settle(j, outcome)

Spec == Init /\ [][Next]_vars
=============================================================================
