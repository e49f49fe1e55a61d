----------------------------- MODULE SharedPace -----------------------------
(***************************************************************************)
(* The pace that a target's account queues share (dispatch/shared_pace.go): *)
(* before it dispatches, a queue's loop takes the next slot here or is told *)
(* to wait.  A queue reads the clock before it takes the lock, so the times *)
(* of two calls may reach reserve in the wrong order; the rate may differ   *)
(* from call to call.  With no rate reserve does nothing: no action.        *)
(*                                                                         *)
(* Time counts in any unit.  Some grant is marked, and the slots granted    *)
(* after it are counted: what holds of them holds after every grant.        *)
(***************************************************************************)
EXTENDS Integers

CONSTANTS
    Queues,    \* the account queues of a worker
    Fastest,   \* the shortest interval between slots, of the highest rate
    Slack      \* 100 ms: how late a waiting queue may ask again

VARIABLES
    now,       \* the clock
    last,      \* sharedPace.last, when the most recent slot started
    granted,   \* sharedPace.granted
    waiting,   \* the keys of sharedPace.waiting
    since,     \* waiter.since: when a waiting queue first asked
    asked,     \* waiter.asked: when it last asked
    mark,      \* NoMark, or the marked grant: its slot, its time, its interval
    slots      \* slots granted after the marked one

paceVars == <<now, last, granted, waiting, since, asked, mark, slots>>

NoMark == [marked |-> FALSE, slot |-> 0, at |-> 0, credit |-> 0]

Interval == {i \in Nat : Fastest <= i}

\* The queues still waiting: the ones that stopped asking are dropped.
Asking(at, interval) == {k \in waiting : at - asked[k] <= 2 * interval + Slack}

\* A slot is due, and no other queue has waited longer.
Free(at, interval) == ~granted \/ at >= last + interval
Turn(who, at, interval) ==
    \A k \in Asking(at, interval) \ {who} :
        who \in Asking(at, interval) /\ since[who] <= since[k]

\* The slot starts one interval after the last, or earlier than now by one
\* interval at most: a late timer loses nothing, idle time banks no burst.
Start(at, interval) ==
    IF granted /\ last + interval > at - interval THEN last + interval ELSE at - interval

\* reserve, refused: the queue keeps its place among the waiting.
Wait(who, at, interval) ==
    /\ ~Free(at, interval) \/ ~Turn(who, at, interval)
    /\ waiting' = Asking(at, interval) \cup {who}
    /\ since' = IF who \in Asking(at, interval) THEN since ELSE [since EXCEPT ![who] = at]
    /\ asked' = [asked EXCEPT ![who] = at]
    /\ UNCHANGED <<now, last, granted, mark, slots>>

\* reserve, granted.
Grant(who, at, interval) ==
    /\ Free(at, interval) /\ Turn(who, at, interval)
    /\ waiting' = Asking(at, interval) \ {who}
    /\ last' = Start(at, interval)
    /\ granted' = TRUE
    /\ \/ /\ mark' = [marked |-> TRUE, slot |-> last', at |-> at, credit |-> interval]
          /\ slots' = 0
       \/ /\ slots' = IF mark.marked THEN slots + 1 ELSE 0
          /\ UNCHANGED mark
    /\ UNCHANGED <<now, since, asked>>

Tick ==
    /\ \E t \in Nat : t > now /\ now' = t
    /\ UNCHANGED <<last, granted, waiting, since, asked, mark, slots>>

PaceInit ==
    /\ now \in Nat
    /\ last = 0
    /\ granted = FALSE
    /\ waiting = {}
    /\ since = [q \in Queues |-> 0]
    /\ asked = [q \in Queues |-> 0]
    /\ mark = NoMark
    /\ slots = 0

\* reserve, with the time its caller read some while ago.
ReservePace(who, at, interval) == Wait(who, at, interval) \/ Grant(who, at, interval)

PaceNext ==
    \/ \E who \in Queues, at \in 0..now, interval \in Interval : ReservePace(who, at, interval)
    \/ Tick

PaceSpec == PaceInit /\ [][PaceNext]_paceVars

-----------------------------------------------------------------------------
\* However many queues dispatch, and however late or out of order they ask, the
\* target sees no more slots after any grant than its highest rate allows in the
\* time that passed, and the one interval of credit that the grant could use.
CeilingHeld ==
    mark.marked => slots * Fastest <= now - mark.at + mark.credit
=============================================================================
