---------------------------- MODULE FairAdmission ----------------------------
(***************************************************************************)
(* The arithmetic of a target's backlog budget: fair admission             *)
(* (internal/admission/fair.go), the floor a shrinking budget leaves       *)
(* (URLWorker.setMaxBacklog) and the throttling of users with undelivered  *)
(* webhooks (userLoadTracker.webhookBacklogDecision).                      *)
(*                                                                         *)
(* A decision depends on a random draw; an operator gives the set of       *)
(* answers some draw leads to.  Shares and probabilities are compared as   *)
(* fractions, multiplied out.                                              *)
(***************************************************************************)
EXTENDS Integers, FiniteSetsExt

CONSTANTS
    CeilingNum, CeilingDen,  \* FairCeiling, 5/4 in the code
    StartNum, StartDen       \* FairStart, 7/10 in the code

ASSUME FairAssumption ==
    /\ CeilingNum \in Nat /\ CeilingDen \in Nat \ {0} /\ CeilingDen <= CeilingNum
    /\ StartNum \in Nat /\ StartDen \in Nat \ {0} /\ StartNum < StartDen

Larger(x, y) == IF x >= y THEN x ELSE y
Smaller(x, y) == IF x <= y THEN x ELSE y

\* n jobs are within the ceiling for queues under their share.
UnderCeiling(n, budget, floor) == n * CeilingDen <= CeilingNum * Larger(budget, floor)

\* DecideFairWithFloor: may a request enter a queue that holds queuePending of
\* the target's totalPending jobs?  A budget of 0 is none.
DecideFairWithFloor(queuePending, totalPending, activeQueues, budget, floor) ==
    LET sharing == Larger(activeQueues, 1)
        queue == queuePending + 1
        total == totalPending + 1
        underShare == queue * sharing <= budget
        pressure == total * StartDen > StartNum * budget
    IN  IF budget <= 0 THEN {TRUE}
        ELSE IF total > budget
        THEN IF sharing > 1 /\ underShare /\ UnderCeiling(total, budget, floor)
             THEN {TRUE} ELSE {FALSE}
        ELSE IF sharing = 1 \/ underShare \/ ~pressure THEN {TRUE}
        ELSE IF total = budget /\ queue * sharing >= 2 * budget THEN {FALSE}
        ELSE {TRUE, FALSE}

\* setMaxBacklog's floor, when a target that holds held jobs of the old budget
\* advertises the new one.
ShrinkFloor(new, old, held, floor) ==
    IF new < old /\ held > new THEN held
    ELSE IF new > old
         THEN IF floor > 0 /\ held > new THEN Smaller(floor, held) ELSE 0
         ELSE floor

\* reserve forgets the floor once the backlog is back within the budget.
FloorAfter(total, budget, floor) == IF floor > 0 /\ total <= budget THEN 0 ELSE floor

\* webhookBacklogDecision: may work of a user be turned away, who is owed
\* backlog webhooks while other users are, or are not, active?
WebhookRejects(backlog, limit, othersActive) ==
    IF limit <= 0 \/ ~othersActive \/ backlog <= limit THEN {FALSE}
    ELSE IF backlog >= 2 * limit THEN {TRUE}
    ELSE {TRUE, FALSE}

\* What admission promises of the jobs it let in: no more than the budget, or
\* than the ceiling over what was held when the budget shrank.
WithinBudget(admitted, budget, floor) ==
    admitted <= budget \/ UnderCeiling(admitted, budget, floor)
=============================================================================
