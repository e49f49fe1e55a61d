--------------------------- MODULE TargetWorkers ---------------------------
(***************************************************************************)
(* The workers of one target API.  Registry.workers holds at most one      *)
(* worker for the target; the worker holds one account queue per key.      *)
(* Submissions resolve the worker under the registry's lock, reserve a     *)
(* place on a queue under the worker's lock, and hand the job over under   *)
(* no lock at all.  Meanwhile queues go idle and retire, a worker stops    *)
(* with its last queue, the target changes the queueing mode, and Close    *)
(* stops everything.                                                       *)
(*                                                                         *)
(* A queue is identified by its worker and key; what happens inside one is *)
(* in AccountQueue.  One action is one critical section of Registry.mu or  *)
(* URLWorker.mu, or one step outside both.                                 *)
(***************************************************************************)
EXTENDS FairAdmission, FiniteSets

CONSTANTS
    Jobs,
    Keys,         \* account keys
    SharedKey,    \* SharedQueueKey: the one queue when the mode is off
    KeyOf,        \* JobQueueKey of each job
    MaxWorkers,   \* a bound on the workers something refers to at a time
    None,
    NodeDefault,  \* AQUIFER_ACCOUNT_QUEUE
    Asks,         \* jobs whose sender asks for a queue per account
    Deliveries,   \* the jobs that are webhook deliveries: they skip admission
    Users, UserOf,
    Owed,         \* webhooks owed to each user by other targets
    WebhookLimit, \* AQUIFER_MAX_PENDING_WEBHOOKS_PER_USER
    NodeBudget,   \* AQUIFER_MAX_PENDING_PER_UPSTREAM
    Budgets       \* values a target may send in X-Aqueduct-Max-Backlog

ASSUME KeyAssumption ==
    /\ IsFiniteSet(Jobs)
    /\ KeyOf \in [Jobs -> Keys]
    /\ SharedKey \in Keys
    /\ NodeDefault \in BOOLEAN
    /\ Asks \subseteq Jobs
    /\ Deliveries \subseteq Jobs
    /\ UserOf \in [Jobs -> Users]
    /\ Owed \in [Users -> Nat]
    /\ WebhookLimit \in Nat /\ NodeBudget \in Nat /\ Budgets \subseteq Nat
    /\ MaxWorkers \in Nat /\ None \notin Nat

VARIABLES
    current,      \* Registry.workers[target]
    closed,       \* the workers whose stop channel is closed, or not in use
    queues,       \* URLWorker.queues of each worker: the keys it holds
    idling,       \* queues whose loop returned and is about to call onIdle
    retired,      \* workers whose last queue retired, before Registry forgets
    pc,           \* where the submission of each job is
    at, on,       \* the worker and the queue key it resolved
    settings,     \* what each worker was told: see Settings
    remembered,   \* Registry.destinationAccountQueue[target]
    remembering,  \* [queue -> answer its loop is about to remember]
    load,         \* userLoadTracker.users: [user -> unfinished jobs, webhooks]
    counted,      \* jobs that users.add has counted
    outran,       \* jobs that ended before users.add counted them
    stop,         \* Registry.stop is closed
    closer,       \* where Registry.Close is
    toStop        \* the workers Close stops

stopVars == <<stop, closer, toStop>>
callVars == <<pc, at, on>>
modeVars == <<settings, remembered, remembering>>
loadVars == <<load, counted, outran>>
vars == <<current, closed, queues, idling, retired, callVars, modeVars, loadVars,
          stopVars>>

Modes == {"on", "off"}
Workers == 1..MaxWorkers
Queue == Workers \X Keys

\* optedIn: a sender asked for a queue per account; destination: the mode the
\* target chose; the backlog budget with its shrinkFloor, and whether the
\* budget was ever 0, which is none.
Settings ==
    [optedIn : BOOLEAN, destination : Modes \cup {None},
     maxBacklog : Nat, shrinkFloor : Nat, unlimited : BOOLEAN]

\* NewURLWorker, with the mode the registry remembers.
Fresh(mode) ==
    [optedIn |-> FALSE, destination |-> mode,
     maxBacklog |-> NodeBudget, shrinkFloor |-> 0, unlimited |-> NodeBudget = 0]

\* One type invariant.  Every resolved place is one of the worker's queues' keys.
TypeOK ==
    /\ current \in Workers \cup {None}
    /\ closed \in SUBSET Workers
    /\ queues \in [Workers -> SUBSET Keys]
    /\ idling \in SUBSET Queue
    /\ retired \in SUBSET Workers
    /\ pc \in [Jobs -> {"out", "resolve", "header", "reserve", "handoff", "stale", "held",
                        "done", "refused", "stored"}]
    /\ at \in [Jobs -> Workers \cup {None}]
    /\ on \in [Jobs -> Keys]
    /\ settings \in [Workers -> Settings]
    /\ remembered \in Modes \cup {None}
    /\ remembering \in [Queue -> Modes \cup {None}]
    /\ load \in [Users -> [jobs : Nat, webhooks : Nat]]
    /\ counted \in SUBSET Jobs
    /\ outran \in SUBSET Jobs
    /\ stop \in BOOLEAN
    /\ closer \in {"no", "wait", "stop", "done"}
    /\ toStop \in SUBSET Workers

-----------------------------------------------------------------------------
(* Submitting a job: Registry.enqueue. *)

\* Reserved on, or held by, queue q: what its backlog counts.
Backlog(q) == {j \in Jobs : pc[j] \in {"handoff", "held"} /\ <<at[j], on[j]>> = q}

\* Users other than u have unfinished work.
OthersActive(u) == \E v \in Users \ {u} : load[v] # [jobs |-> 0, webhooks |-> 0]

\* enqueue, up to the registry's lock: refused when closing, or when the user
\* has too many webhooks undelivered.
Submit(j) ==
    /\ pc[j] = "out"
    /\ LET u == UserOf[j] IN
       \E rejected \in IF j \in Deliveries THEN {FALSE}
                       ELSE WebhookRejects(load[u].webhooks, WebhookLimit, OthersActive(u)) :
          pc' = [pc EXCEPT ![j] = IF stop \/ rejected THEN "refused" ELSE "resolve"]
    /\ UNCHANGED <<current, closed, queues, idling, retired, at, on,
                   modeVars, loadVars, stopVars>>

\* The workers nothing refers to any more: their numbers are used again.
Unused ==
    {w \in closed : /\ w \notin {current} \cup retired \cup toStop
                    /\ queues[w] = {}
                    /\ \A j \in Jobs : at[j] # w}

\* resolveWorkerLocked: the current worker, or a new one that starts from the
\* mode the registry remembers.
Worker(w) ==
    IF current # None
    THEN w = current /\ UNCHANGED <<current, closed, settings>>
    ELSE /\ w \in Unused
         /\ \A v \in Unused : w <= v
         /\ current' = w
         /\ closed' = closed \ {w}
         /\ settings' = [settings EXCEPT ![w] = Fresh(remembered)]

\* A slip: a submission that finds the registry closing is never refused.
ResolveOpenOnly(j) ==
    /\ pc[j] = "resolve" /\ ~stop
    /\ \E w \in Workers :
          /\ Worker(w)
          /\ pc' = [pc EXCEPT ![j] = IF j \in Asks THEN "header" ELSE "reserve"]
          /\ at' = [at EXCEPT ![j] = w]
    /\ UNCHANGED <<queues, idling, retired, on, remembered,
                   remembering, loadVars, stopVars>>

\* Under Registry.mu: refuse when closing, else find the worker and register
\* with the WaitGroup that Close waits for.
Resolve(j) ==
    /\ pc[j] = "resolve"
    /\ IF stop
       THEN pc' = [pc EXCEPT ![j] = "refused"] /\ UNCHANGED <<current, closed, settings, at>>
       ELSE \E w \in Workers :
               /\ Worker(w)
               /\ pc' = [pc EXCEPT ![j] = IF j \in Asks THEN "header" ELSE "reserve"]
               /\ at' = [at EXCEPT ![j] = w]
    /\ UNCHANGED <<queues, idling, retired, on, remembered,
                   remembering, loadVars, stopVars>>

\* WorkerFor: a direct attempt looks at the worker and enqueues nothing.
Peek ==
    /\ \E w \in Workers : Worker(w)
    /\ UNCHANGED <<queues, idling, retired, callVars, remembered,
                   remembering, loadVars, stopVars>>

\* handleAccountQueueHeader: a sender can turn the mode on, never off.  What a
\* stopped worker is told is not read again, and left out.
OptIn(j) ==
    /\ pc[j] = "header"
    /\ settings' = [settings EXCEPT ![at[j]].optedIn = at[j] \notin closed]
    /\ pc' = [pc EXCEPT ![j] = "reserve"]
    /\ UNCHANGED <<current, closed, queues, idling, retired, at, on,
                   remembered, remembering, loadVars, stopVars>>

\* accountQueueMode: the target's answer, else the node's default or a sender's.
AccountQueueMode(w) ==
    LET s == settings[w] IN
    s.destination = "on" \/ (s.destination = None /\ (NodeDefault \/ s.optedIn))

QueueKey(w, j) == IF AccountQueueMode(w) THEN KeyOf[j] ELSE SharedKey

Pending(w, k) == Cardinality(Backlog(<<w, k>>))
OnWorker(w) == {j \in Jobs : pc[j] \in {"handoff", "held"} /\ at[j] = w}
TotalPending(w) == Cardinality(OnWorker(w))

\* reserve's question to fair admission: the queues with work, the job's own
\* included, share the budget, or the one shared queue has it all.
Answers(w, k, j, floor) ==
    LET total == TotalPending(w)
        active == Cardinality({l \in queues[w] : Pending(w, l) > 0} \cup {k})
    IN  IF j \in Deliveries THEN {TRUE}
        ELSE IF AccountQueueMode(w)
        THEN DecideFairWithFloor(Pending(w, k), total, active, settings[w].maxBacklog, floor)
        ELSE DecideFairWithFloor(total, total, 1, settings[w].maxBacklog, floor)

\* A slip: the floor is forgotten although the backlog is over the budget.
FloorForgotten(w, j) == 0

\* A delivery skips admission, and the floor stays.
FloorThen(w, j) ==
    IF j \in Deliveries THEN settings[w].shrinkFloor
    ELSE FloorAfter(TotalPending(w), settings[w].maxBacklog, settings[w].shrinkFloor)

\* URLWorker.reserve, under URLWorker.mu: nothing on a stopped worker, a
\* refusal when admission says so, else a place on the job's queue.
Reserve(j) ==
    /\ pc[j] = "reserve"
    /\ LET w == at[j]
           k == QueueKey(w, j) IN
       IF w \in closed
       THEN /\ pc' = [pc EXCEPT ![j] = "stale"]
            /\ UNCHANGED <<at, on, queues, settings>>
       ELSE /\ settings' = [settings EXCEPT ![w].shrinkFloor = FloorThen(w, j)]
            /\ \/ /\ FALSE \in Answers(w, k, j, FloorThen(w, j))
                  /\ pc' = [pc EXCEPT ![j] = "refused"]
                  /\ at' = [at EXCEPT ![j] = None]
                  /\ UNCHANGED <<on, queues>>
               \/ /\ TRUE \in Answers(w, k, j, FloorThen(w, j))
                  /\ pc' = [pc EXCEPT ![j] = "handoff"]
                  /\ UNCHANGED at
                  /\ on' = [on EXCEPT ![j] = k]
                  /\ queues' = [queues EXCEPT ![w] = @ \cup {k}]
    /\ UNCHANGED <<current, closed, idling, retired, remembered, remembering, loadVars,
                   stopVars>>

\* AccountQueue.handoff, under no lock.  Its other branch, a queue that was
\* stopped, is out of reach while NoJobStranded holds.
Handoff(j) ==
    /\ pc[j] = "handoff"
    /\ pc' = [pc EXCEPT ![j] = "held"]
    /\ UNCHANGED <<current, closed, queues, idling, retired, at, on, modeVars,
                   loadVars, stopVars>>

\* The field of a user's load that counts job j.
Field(j) == IF j \in Deliveries THEN "webhooks" ELSE "jobs"

LoadFor(j) == load[UserOf[j]][Field(j)]
LoadSet(j, n) == [load EXCEPT ![UserOf[j]][Field(j)] = n]

\* users.add, once the hand-over is done.  The job may have ended by then.
Count(j) ==
    /\ pc[j] \in {"held", "done"}
    /\ j \notin counted
    /\ counted' = counted \cup {j}
    /\ load' = LoadSet(j, LoadFor(j) + 1)
    /\ UNCHANGED <<current, closed, queues, idling, retired, callVars, modeVars,
                   outran, stopVars>>

\* The worker had stopped: forget it if it is still the current one, retry.
Stale(j) ==
    /\ pc[j] = "stale"
    /\ current' = IF current = at[j] THEN None ELSE current
    /\ pc' = [pc EXCEPT ![j] = "resolve"]
    /\ at' = [at EXCEPT ![j] = None]
    /\ UNCHANGED <<closed, queues, idling, retired, on, modeVars, loadVars, stopVars>>

-----------------------------------------------------------------------------
(* The loop of a queue, as far as the worker and the registry see it. *)

\* Queue q's loop runs: it has not returned and is not inside remember.
Looping(q) ==
    /\ q[2] \in queues[q[1]]
    /\ q \notin idling
    /\ remembering[q] = None

\* A slip: users.done is called on one more path, twice for a job.
LoadWithoutTwice(j) == LoadSet(j, Larger(LoadFor(j) - 2, 0))

\* users.done: a count does not go below zero.
LoadWithout(j) == LoadSet(j, Larger(LoadFor(j) - 1, 0))

\* A job ends.  The target's answer may carry a queueing mode: the worker
\* takes it under its lock (HandleDestinationAccountQueue) ...
Finish(j) ==
    /\ pc[j] = "held"
    /\ Looping(<<at[j], on[j]>>)
    /\ pc' = [pc EXCEPT ![j] = "done"]
    /\ at' = [at EXCEPT ![j] = None]
    /\ on' = [on EXCEPT ![j] = SharedKey]
    /\ load' = LoadWithout(j)
    /\ outran' = IF j \in counted THEN outran ELSE outran \cup {j}
    /\ \/ UNCHANGED <<settings, remembering>>
       \/ \E m \in Modes :
             /\ settings' = [settings EXCEPT ![at[j]].destination = m]
             /\ remembering' = IF settings[at[j]].destination = m THEN remembering
                               ELSE [remembering EXCEPT ![<<at[j], on[j]>>] = m]
    /\ UNCHANGED <<current, closed, queues, idling, retired,
                   remembered, counted, stopVars>>

\* ... and, after unlocking, the registry remembers it under its own.
Remember(q) ==
    /\ remembering[q] # None
    /\ remembered' = remembering[q]
    /\ remembering' = [remembering EXCEPT ![q] = None]
    /\ UNCHANGED <<current, closed, queues, idling, retired, callVars,
                   settings, loadVars, stopVars>>

\* Settings s with budget v, while the worker holds held jobs.
Rebudgeted(s, v, held) ==
    [s EXCEPT !.maxBacklog = v,
              !.shrinkFloor = ShrinkFloor(v, s.maxBacklog, held, @),
              !.unlimited = @ \/ v = 0]

\* setMaxBacklog, from an answer to a queued job or to a direct attempt.
Advertise(w) ==
    /\ w \in Workers \ closed
    /\ \E v \in Budgets \ {settings[w].maxBacklog} :
          settings' = [settings EXCEPT ![w] = Rebudgeted(@, v, TotalPending(w))]
    /\ UNCHANGED <<current, closed, queues, idling, retired, callVars, remembered,
                   remembering, loadVars, stopVars>>

\* The loop holds no job when its idle timer fires.  It does not see the jobs
\* that are reserved and not handed over yet.
Idle(q) ==
    /\ Looping(q)
    /\ \A j \in Backlog(q) : pc[j] = "handoff"
    /\ idling' = idling \cup {q}
    /\ UNCHANGED <<current, closed, queues, retired, callVars, modeVars,
                   loadVars, stopVars>>

NothingReservedBlind(q) == TRUE
NothingReserved(q) == Backlog(q) = {}

\* onIdle, under URLWorker.mu: the queue retires unless something was reserved
\* on it or the map holds it no more, and with the last queue the worker
\* stops, its settings of no more use.  Otherwise supervise runs the loop again.
OnIdle(q) ==
    /\ q \in idling
    /\ idling' = idling \ {q}
    /\ LET w == q[1] IN
       IF NothingReserved(q)
       THEN /\ queues' = [queues EXCEPT ![w] = @ \ {q[2]}]
            /\ IF queues[w] = {q[2]}
               THEN /\ closed' = closed \cup {w}
                    /\ retired' = retired \cup {w}
                    /\ settings' = [settings EXCEPT ![w] = Fresh(None)]
               ELSE UNCHANGED <<closed, retired, settings>>
       ELSE UNCHANGED <<queues, closed, retired, settings>>
    /\ UNCHANGED <<current, callVars, remembered, remembering, loadVars, stopVars>>

ForgetAny(w) ==
    /\ w \in retired
    /\ retired' = retired \ {w}
    /\ current' = None
    /\ UNCHANGED <<closed, queues, idling, callVars, modeVars, loadVars, stopVars>>

\* The registry's onIdle, under Registry.mu: only the worker that idled.
Forget(w) ==
    /\ w \in retired
    /\ retired' = retired \ {w}
    /\ current' = IF current = w THEN None ELSE current
    /\ UNCHANGED <<closed, queues, idling, callVars, modeVars, loadVars, stopVars>>

-----------------------------------------------------------------------------
(* Registry.Close. *)

\* Jobs between enqueuing.Add and enqueuing.Done.
Enqueuing ==
    {j \in Jobs : \/ pc[j] \in {"header", "reserve", "handoff"}
                  \/ pc[j] \in {"held", "done"} /\ j \notin counted}

CloseStop ==
    /\ closer = "no"
    /\ stop' = TRUE
    /\ closer' = "wait"
    /\ UNCHANGED <<current, closed, queues, idling, retired, callVars, modeVars,
                   toStop, loadVars>>

\* Every submission past the stopping check is over: the worker Close finds is
\* told to stop.
CloseWait ==
    /\ closer = "wait"
    /\ Enqueuing = {}
    /\ closer' = "stop"
    /\ toStop' = {current} \ {None}
    /\ closed' = closed \cup toStop'
    /\ UNCHANGED <<current, queues, idling, retired, callVars, modeVars,
                   loadVars, stop>>

\* AccountQueue.Stop for one queue of the worker: its loop returns, and the
\* jobs it holds stay queued in the store.
CloseQueue(q) ==
    /\ closer = "stop"
    /\ q[1] \in toStop
    /\ q[2] \in queues[q[1]]
    /\ remembering[q] = None
    /\ queues' = [queues EXCEPT ![q[1]] = @ \ {q[2]}]
    /\ idling' = idling \ {q}
    /\ pc' = [j \in Jobs |-> IF j \in Backlog(q) /\ pc[j] = "held" THEN "stored" ELSE pc[j]]
    /\ UNCHANGED <<current, closed, retired, at, on, modeVars, loadVars, stopVars>>

\* Every loop has returned: the store is closed.
CloseDone ==
    /\ closer = "stop"
    /\ \A w \in toStop : queues[w] = {}
    /\ closer' = "done"
    /\ UNCHANGED <<current, closed, queues, idling, retired, callVars,
                   modeVars, stop, toStop, loadVars>>

-----------------------------------------------------------------------------
Init ==
    /\ current = None
    /\ closed = Workers
    /\ queues = [w \in Workers |-> {}]
    /\ idling = {}
    /\ retired = {}
    /\ pc = [j \in Jobs |-> "out"]
    /\ at = [j \in Jobs |-> None]
    /\ on = [j \in Jobs |-> SharedKey]
    /\ settings = [w \in Workers |-> Fresh(None)]
    /\ remembered = None
    /\ remembering = [q \in Queue |-> None]
    /\ load = [u \in Users |-> [jobs |-> 0, webhooks |-> Owed[u]]]
    /\ counted = {}
    /\ outran = {}
    /\ stop = FALSE
    /\ closer = "no"
    /\ toStop = {}

Enqueue(j) ==
    Resolve(j) \/ OptIn(j) \/ Reserve(j) \/ Handoff(j) \/ Count(j) \/ Stale(j)

Loop(q) == Remember(q) \/ Idle(q) \/ OnIdle(q)

Close == CloseWait \/ (\E q \in Queue : CloseQueue(q)) \/ CloseDone

Next ==
    \/ \E j \in Jobs : Submit(j) \/ Enqueue(j) \/ Finish(j)
    \/ \E q \in Queue : Loop(q)
    \/ \E w \in Workers : Forget(w) \/ Advertise(w)
    \/ Peek
    \/ CloseStop \/ Close

Spec == Init /\ [][Next]_vars

\* Goroutines are scheduled and locks are granted.  Nothing makes a caller
\* submit, a target answer, or an operator close.
Fairness ==
    /\ \A j \in Jobs : WF_vars(Enqueue(j))
    /\ \A q \in Queue : WF_vars(Remember(q)) /\ WF_vars(OnIdle(q))
    /\ \A w \in Workers : WF_vars(Forget(w))
    /\ WF_vars(Close)

FairSpec == Spec /\ Fairness

-----------------------------------------------------------------------------
\* At most one worker of the target runs, and it is the one the registry
\* resolves: two would pace the target twice over.  Retirement, stale entries
\* and recreation race for that one map entry.
OneLiveWorker == TypeOK /\ \A w \in Workers \ closed : w = current

\* A job that is reserved or held is on a queue its worker still has, of a
\* worker that is not stopped, unless the registry closes: no job is handed to
\* a queue that retired between its reserve and its handoff.  And when Close
\* stops the worker, no submission is left between the stopping check and the
\* end of enqueueOnWorker, so nothing follows the store's own Close and no job
\* is handed to a loop that has returned.
NoJobStranded ==
    /\ \A j \in Jobs : pc[j] \in {"handoff", "held"} =>
          /\ on[j] \in queues[at[j]]
          /\ at[j] \in closed => closer = "stop"
    /\ closer \in {"stop", "done"} => Enqueuing = {}

\* The jobs on worker w that admission let in.
Admitted(w) == {j \in Jobs \ Deliveries : pc[j] \in {"handoff", "held"} /\ at[j] = w}

\* The jobs admission let in never exceed the budget by more than the ceiling
\* allows, over the budget or over what was held when it shrank, however the
\* target moves the budget while jobs come and go.  Deliveries skip admission;
\* a worker that had no budget at some time is exempt, since setMaxBacklog
\* takes the step from none to one for a raise.
AdmittedBounded ==
    \A w \in Workers \ closed :
        \/ settings[w].unlimited
        \/ WithinBudget(Cardinality(Admitted(w)), settings[w].maxBacklog,
                        settings[w].shrinkFloor)

\* The work of user u that other targets hold, that is counted and not over, and
\* that was over before it was counted.
OwedTo(u, f) == IF f = "webhooks" THEN Owed[u] ELSE 0
Unfinished(u, f) ==
    {j \in counted : UserOf[j] = u /\ Field(j) = f /\ pc[j] \in {"held", "stored"}}
Uncounted(u, f) ==
    {j \in outran \ counted : UserOf[j] = u /\ Field(j) = f}

\* A user's load never falls short of the accepted work for good: it is short
\* at most by the jobs that ended while their own count is still to come.  It is
\* exact for a user none of whose jobs ended before it was counted.
LoadExact ==
    \A u \in Users, f \in {"jobs", "webhooks"} :
        /\ load[u][f] >= OwedTo(u, f) + Cardinality(Unfinished(u, f))
                           - Cardinality(Uncounted(u, f))
        /\ (\A j \in outran : UserOf[j] # u) =>
              load[u][f] = OwedTo(u, f) + Cardinality(Unfinished(u, f))

\* Every call returns: enqueue, whose retry loop over stopped workers ends, and
\* Close, whatever it meets half-way: retirements, handoffs, answers.  Neither is
\* kept for ever by the other's half-finished work.  Each job is submitted once,
\* so that from some point on no call is under way.
CallsReturn ==
    <>[](/\ \A j \in Jobs : pc[j] \in {"out", "held", "done", "refused", "stored"}
         /\ Enqueuing = {}
         /\ closer \in {"no", "done"})

\* The registry remembers the mode the target last chose, so that the worker
\* it creates after a retirement starts in that mode.
RemembersLastChoice ==
    (\A q \in Queue : remembering[q] = None) =>
        \A w \in Workers \ closed : settings[w].destination = remembered
=============================================================================
