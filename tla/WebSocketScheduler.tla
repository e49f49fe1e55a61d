------------------------- MODULE WebSocketScheduler -------------------------
(***************************************************************************)
(* The connection queue of the WebSocket proxy (internal/websocket/queue.go)*)
(* together with its users: one handler per client (Manager.ServeHTTP and  *)
(* webSocketSession.connectUpstream), and Manager.Close.                   *)
(*                                                                         *)
(* A session has one Admission at a time, so a session also names the      *)
(* waiter of its admission.  Every action that takes Scheduler.mu is one   *)
(* step; a notify() that follows the unlock belongs to the step, since the *)
(* wake channel only ever holds one token and notify cannot block.         *)
(***************************************************************************)
EXTENDS Integers, Sequences, FiniteSets

CONSTANTS
  Sessions,      \* client connections
  MaxClients,    \* SchedulerConfig.MaxClients
  MaxUpstreams,  \* SchedulerConfig.MaxUpstreams
  MaxWaiting,    \* SchedulerConfig.MaxWaiting
  Advertised,    \* values a target may send in X-Aqueduct-WS-Max-Connections
  MaxTries       \* bound: connections one session opens after its first

ASSUME SchedulerAssumption ==
  /\ IsFiniteSet(Sessions)
  /\ MaxClients \in Nat \ {0}
  /\ MaxUpstreams \in Nat \ {0}
  /\ MaxWaiting \in Nat \ {0}
  /\ Advertised \subseteq Nat \ {0}
  /\ MaxTries \in Nat

VARIABLES
  \* Scheduler
  clients,        \* Scheduler.clients
  active,         \* Scheduler.activeUpstreams
  waiters,        \* Scheduler.waiters
  advertisedMax,  \* Scheduler.advertisedMax, 0 when the target sent none
  paced,          \* nextGrant is still ahead
  wake,           \* a token is in the wake channel
  loop,           \* where run() is
  \* websocketWaiter of each session
  position,       \* waiter.position
  update,         \* what waiter.positions holds, 0 when it is empty
  granted,        \* waiter.granted
  ready,          \* waiter.ready: "open", "granted", or "failed" (err is set)
  \* handlers and the manager
  st,             \* where the handler of a session is
  told,           \* lastPosition of Admission.Wait
  tries,          \* connections the session asked for again
  ctx,            \* sessions whose context is done
  manager         \* where Manager.Close is

scheduler == <<clients, active, waiters, advertisedMax, paced, wake, loop>>
waiter == <<position, update, granted, ready>>
handlers == <<st, told, tries, ctx, manager>>
vars == <<scheduler, waiter, handlers>>

HandlerStates ==
  {"out", "client", "queued", "announce", "wait", "holding", "relay", "failed",
   "backoff", "ending", "leaving", "gone"}

\* The states in which a handler has an admission it has not settled.
Waiting == {"queued", "announce", "wait"}

\* The states of a handler between registerSession and unregisterSession.
Registered == {"announce", "wait", "holding", "relay", "failed", "backoff", "ending"}

\* One type invariant: the counters are natural numbers, a waiter is queued
\* once and in a state its handler can see.
TypeOK ==
  /\ clients \in Nat
  /\ active \in Nat
  /\ waiters \in Seq(Sessions)
  /\ advertisedMax \in Advertised \cup {0}
  /\ paced \in BOOLEAN
  /\ wake \in BOOLEAN
  /\ loop \in {"grant", "idle", "timer", "done"}
  /\ position \in [Sessions -> Nat]
  /\ update \in [Sessions -> Nat]
  /\ granted \in [Sessions -> BOOLEAN]
  /\ ready \in [Sessions -> {"open", "granted", "failed"}]
  /\ st \in [Sessions -> HandlerStates]
  /\ told \in [Sessions -> Nat]
  /\ tries \in [Sessions -> 0 .. MaxTries]
  /\ ctx \subseteq Sessions
  /\ manager \in {"open", "draining", "canceled", "stopping", "waiting", "closed"}

Init ==
  /\ clients = 0
  /\ active = 0
  /\ waiters = <<>>
  /\ advertisedMax = 0
  /\ paced = FALSE
  /\ wake = FALSE
  /\ loop = "grant"
  /\ position = [s \in Sessions |-> 0]
  /\ update = [s \in Sessions |-> 0]
  /\ granted = [s \in Sessions |-> FALSE]
  /\ ready = [s \in Sessions |-> "open"]
  /\ st = [s \in Sessions |-> "out"]
  /\ told = [s \in Sessions |-> 0]
  /\ tries = [s \in Sessions |-> 0]
  /\ ctx = {}
  /\ manager = "open"

\* close(s.stop) has happened.
Stopped == manager \in {"stopping", "waiting", "closed"}

effectiveMax ==
  IF advertisedMax > 0 /\ advertisedMax < MaxUpstreams
  THEN advertisedMax
  ELSE MaxUpstreams

notify == wake' = TRUE

-----------------------------------------------------------------------------
(* The queue of waiters.                                                   *)

\* A slip: the channel is drained after the send instead of before it.
publishThenDrain(q, left) ==
  LET Place(s) == CHOOSE i \in DOMAIN q : q[i] = s
      Queued == {q[i] : i \in DOMAIN q}
  IN /\ position' = [s \in Sessions |-> IF s \in Queued THEN Place(s) ELSE 0]
     /\ update' = [s \in Sessions |->
                     IF (s \in Queued /\ position[s] # Place(s)) \/ s \in left
                     THEN 0 ELSE update[s]]

\* publishPositionsLocked for the queue q: who moved gets a fresh position, and
\* the one-slot channel holds the newest.  The position of a waiter out of the
\* queue is not read again, nor is the channel of one nobody waits on (left).
publishPositions(q, left) ==
  LET Place(s) == CHOOSE i \in DOMAIN q : q[i] = s
      Queued == {q[i] : i \in DOMAIN q}
  IN /\ position' = [s \in Sessions |-> IF s \in Queued THEN Place(s) ELSE 0]
     /\ update' = [s \in Sessions |->
                     IF s \in Queued /\ position[s] # Place(s) THEN Place(s)
                     ELSE IF s \in left THEN 0 ELSE update[s]]

\* append(waiters[:i], waiters[i+1:]...)
RemoveAt(q, i) == SubSeq(q, 1, i - 1) \o SubSeq(q, i + 1, Len(q))

\* removeWaiterLocked: a waiter is queued at most once.
removeWaiter(s) ==
  IF \E i \in DOMAIN waiters : waiters[i] = s
  THEN RemoveAt(waiters, CHOOSE i \in DOMAIN waiters : waiters[i] = s)
  ELSE waiters

\* A slip: the slot of a granted waiter is not given back.
CancelLeaks(s) ==
  /\ active' = active
  /\ waiters' = removeWaiter(s)
  /\ publishPositions(removeWaiter(s), {s})
  /\ granted' = [granted EXCEPT ![s] = FALSE]
  /\ ready' = [ready EXCEPT ![s] = "open"]
  /\ told' = [told EXCEPT ![s] = 0]
  /\ notify
  /\ UNCHANGED <<clients, advertisedMax, paced, loop>>

\* Admission.Cancel, and the ctx.Done case of Admission.Wait: give a granted
\* slot back, or leave the queue.  A cancelled waiter leaves the queue in the
\* same critical section, so grantReady meets none and the flag needs no
\* variable.  The handler drops the admission, and its fields with it.
Cancel(s) ==
  /\ active' = IF granted[s] THEN active - 1 ELSE active
  /\ waiters' = IF granted[s] THEN waiters ELSE removeWaiter(s)
  /\ publishPositions(IF granted[s] THEN waiters ELSE removeWaiter(s), {s})
  /\ granted' = [granted EXCEPT ![s] = FALSE]
  /\ ready' = [ready EXCEPT ![s] = "open"]
  /\ told' = [told EXCEPT ![s] = 0]
  /\ notify
  /\ UNCHANGED <<clients, advertisedMax, paced, loop>>

\* EnqueueUpstream, when it succeeds: a new waiter at the end.
Enqueue(s) ==
  /\ ~Stopped
  /\ Len(waiters) < MaxWaiting
  /\ waiters' = Append(waiters, s)
  /\ position' = [position EXCEPT ![s] = Len(waiters) + 1]
  /\ told' = [told EXCEPT ![s] = Len(waiters) + 1]
  /\ update' = [update EXCEPT ![s] = 0]
  /\ granted' = [granted EXCEPT ![s] = FALSE]
  /\ ready' = [ready EXCEPT ![s] = "open"]
  /\ notify
  /\ UNCHANGED <<clients, active, advertisedMax, paced, loop>>

\* EnqueueUpstream, when it returns an error.
Refuse ==
  /\ Stopped \/ Len(waiters) >= MaxWaiting
  /\ UNCHANGED <<scheduler, waiter, told>>

\* A slip: the loop is not woken.
ReleaseQuietly ==
  /\ active' = IF active > 0 THEN active - 1 ELSE active
  /\ UNCHANGED <<clients, waiters, advertisedMax, paced, wake, loop, waiter>>

\* The function releaseFunc returns, called by the handler that holds a slot.
Release ==
  /\ active' = IF active > 0 THEN active - 1 ELSE active
  /\ notify
  /\ UNCHANGED <<clients, waiters, advertisedMax, paced, loop, waiter>>

Go(s, state) == st' = [st EXCEPT ![s] = state]

-----------------------------------------------------------------------------
(* Manager.ServeHTTP.                                                      *)

AcquireClient(s) ==
  /\ st[s] = "out"
  /\ IF ~Stopped /\ clients < MaxClients
     THEN /\ clients' = clients + 1
          /\ Go(s, "client")
     ELSE /\ Go(s, "gone")
          /\ UNCHANGED clients
  /\ UNCHANGED <<active, waiters, advertisedMax, paced, wake, loop, waiter,
                 told, tries, ctx, manager>>

EnqueueUpstream(s) ==
  /\ st[s] = "client"
  /\ \/ Enqueue(s) /\ Go(s, "queued")
     \/ Refuse /\ Go(s, "leaving")
  /\ UNCHANGED <<tries, ctx, manager>>

\* Upgrade fails: the admission is cancelled.
UpgradeFails(s) ==
  /\ st[s] = "queued"
  /\ Cancel(s)
  /\ Go(s, "leaving")
  /\ UNCHANGED <<tries, ctx, manager>>

\* registerSession: a draining manager takes no session.
Register(s) ==
  /\ st[s] = "queued"
  /\ IF manager = "open"
     THEN /\ Go(s, "announce")
          /\ UNCHANGED <<scheduler, waiter, told>>
     ELSE /\ Cancel(s)
          /\ Go(s, "leaving")
  /\ UNCHANGED <<tries, ctx, manager>>

\* session.run returned, its context cancelled; unregisterSession is the first
\* deferred call of the handler.
Unregister(s) ==
  /\ st[s] = "ending"
  /\ ctx' = ctx \cup {s}
  /\ Go(s, "leaving")
  /\ UNCHANGED <<scheduler, waiter, told, tries, manager>>

\* ReleaseClient, the handler's last deferred call.
ReleaseClient(s) ==
  /\ st[s] = "leaving"
  /\ clients' = IF clients > 0 THEN clients - 1 ELSE clients
  /\ Go(s, "gone")
  /\ UNCHANGED <<active, waiters, advertisedMax, paced, wake, loop, waiter,
                 told, tries, ctx, manager>>

\* The client hangs up, or another goroutine of the session fails: session.run
\* cancels the session's context.
EndSession(s) ==
  /\ st[s] \in Registered
  /\ s \notin ctx
  /\ ctx' = ctx \cup {s}
  /\ UNCHANGED <<scheduler, waiter, st, told, tries, manager>>

-----------------------------------------------------------------------------
(* Admission.Wait, called by connectUpstream.                              *)

\* The first onPosition call.
Announce(s) ==
  /\ st[s] = "announce"
  /\ \/ /\ Go(s, "wait")
        /\ UNCHANGED <<scheduler, waiter, told>>
     \/ /\ Cancel(s)
        /\ Go(s, "ending")
  /\ UNCHANGED <<tries, ctx, manager>>

\* waiter.ready is closed: with a slot or with an error.  The handler drops the
\* admission.
WaitReady(s) ==
  /\ st[s] = "wait"
  /\ ready[s] # "open"
  /\ Go(s, IF ready[s] = "granted" THEN "holding" ELSE "ending")
  /\ granted' = [granted EXCEPT ![s] = FALSE]
  /\ ready' = [ready EXCEPT ![s] = "open"]
  /\ update' = [update EXCEPT ![s] = 0]
  /\ told' = [told EXCEPT ![s] = 0]
  /\ UNCHANGED <<scheduler, position, tries, ctx, manager>>

\* A new position; the client is told, and a failed write cancels.
WaitPosition(s) ==
  /\ st[s] = "wait"
  /\ update[s] # 0
  /\ \/ /\ told' = [told EXCEPT ![s] = update[s]]
        /\ update' = [update EXCEPT ![s] = 0]
        /\ UNCHANGED <<scheduler, position, granted, ready, st>>
     \/ /\ update[s] # told[s]
        /\ Cancel(s)
        /\ Go(s, "ending")
  /\ UNCHANGED <<tries, ctx, manager>>

WaitDone(s) ==
  /\ st[s] = "wait"
  /\ s \in ctx
  /\ Cancel(s)
  /\ Go(s, "ending")
  /\ UNCHANGED <<tries, ctx, manager>>

-----------------------------------------------------------------------------
(* connectUpstream after Wait.                                             *)

\* The dial fails: release, then (in "failed") ReportFailure.
DialFails(s) ==
  /\ st[s] = "holding"
  /\ Release
  /\ Go(s, "failed")
  /\ UNCHANGED <<told, tries, ctx, manager>>

\* ReportFailure slows the next grant down when someone waits.  The session
\* then backs off, or ends when its client is gone or the target speaks another
\* protocol.
ReportFailure(s) ==
  /\ st[s] = "failed"
  /\ paced' = (paced \/ waiters # <<>>)
  /\ notify
  /\ \E next \in {"backoff", "ending"} : Go(s, next)
  /\ UNCHANGED <<clients, active, waiters, advertisedMax, loop, waiter,
                 told, tries, ctx, manager>>

\* The dial succeeds: ReportSuccess, and the relay starts.
Connected(s) ==
  /\ st[s] = "holding"
  /\ s \notin ctx
  /\ notify
  /\ Go(s, "relay")
  /\ UNCHANGED <<clients, active, waiters, advertisedMax, paced, loop, waiter,
                 told, tries, ctx, manager>>

\* UpdateCapacity, from the headers of the target's answer or from an
\* aqueduct.capacity message.
UpdateCapacity(s) ==
  /\ st[s] \in {"holding", "relay"}
  /\ \E n \in Advertised : advertisedMax' = n
  /\ notify
  /\ UNCHANGED <<clients, active, waiters, paced, loop, waiter, handlers>>

\* A status line to the client fails before the relay, or the relay ends.
RelayEnds(s) ==
  /\ \/ st[s] = "holding" /\ Go(s, "ending")
     \/ st[s] = "relay" /\ Go(s, IF s \in ctx THEN "ending" ELSE "backoff")
     \/ st[s] = "relay" /\ Go(s, "ending")
  /\ Release
  /\ UNCHANGED <<told, tries, ctx, manager>>

\* The back-off is over and the session queues again, or its context ended.
Reconnect(s) ==
  /\ st[s] = "backoff"
  /\ \/ /\ tries[s] < MaxTries
        /\ tries' = [tries EXCEPT ![s] = @ + 1]
        /\ \/ Enqueue(s) /\ Go(s, "announce")
           \/ Refuse /\ Go(s, "ending")
     \/ /\ s \in ctx
        /\ Go(s, "ending")
        /\ UNCHANGED <<scheduler, waiter, told, tries>>
  /\ UNCHANGED <<ctx, manager>>

-----------------------------------------------------------------------------
(* Scheduler.run.                                                          *)

\* grantReady with nothing to grant: wait for the wake channel.
NothingToGrant ==
  /\ loop = "grant"
  /\ waiters = <<>> \/ active >= effectiveMax
  /\ loop' = "idle"
  /\ UNCHANGED <<clients, active, waiters, advertisedMax, paced, wake, waiter, handlers>>

\* grantReady before nextGrant: wait for the timer or the wake channel.
TooSoon ==
  /\ loop = "grant"
  /\ waiters # <<>> /\ active < effectiveMax
  /\ paced
  /\ loop' = "timer"
  /\ UNCHANGED <<clients, active, waiters, advertisedMax, paced, wake, waiter, handlers>>

\* grantReady grants the head of the queue one slot.
Grant ==
  /\ loop = "grant"
  /\ waiters # <<>> /\ active < effectiveMax
  /\ ~paced
  /\ waiters' = Tail(waiters)
  /\ publishPositions(Tail(waiters), {})
  /\ granted' = [granted EXCEPT ![Head(waiters)] = TRUE]
  /\ ready' = [ready EXCEPT ![Head(waiters)] = "granted"]
  /\ active' = active + 1
  /\ paced' = TRUE
  /\ loop' = IF Tail(waiters) = <<>> THEN "idle" ELSE "grant"
  /\ UNCHANGED <<clients, advertisedMax, wake, handlers>>

\* The loop takes the token of the wake channel.
Wake ==
  /\ loop \in {"idle", "timer"}
  /\ wake
  /\ wake' = FALSE
  /\ loop' = "grant"
  /\ UNCHANGED <<clients, active, waiters, advertisedMax, paced, waiter, handlers>>

\* The timer fires; ReportFailure may have moved nextGrant on since it was set.
Timer ==
  /\ loop = "timer"
  /\ loop' = "grant"
  /\ UNCHANGED <<clients, active, waiters, advertisedMax, paced, wake, waiter, handlers>>

\* nextGrant passes.
PaceElapses ==
  /\ paced
  /\ paced' = FALSE
  /\ UNCHANGED <<clients, active, waiters, advertisedMax, wake, loop, waiter, handlers>>

\* The loop sees stop: failWaiters, and run returns.
Stop ==
  /\ loop \in {"idle", "timer"}
  /\ Stopped
  /\ ready' = [s \in Sessions |->
                 IF \E i \in DOMAIN waiters : waiters[i] = s THEN "failed" ELSE ready[s]]
  /\ waiters' = <<>>
  /\ loop' = "done"
  /\ UNCHANGED <<clients, active, advertisedMax, paced, wake,
                 position, update, granted, handlers>>

-----------------------------------------------------------------------------
(* Manager.Close.                                                          *)

Step(from, to) == manager = from /\ manager' = to

\* BeginDrain(0) marks the manager draining.
BeginDrain ==
  /\ Step("open", "draining")
  /\ UNCHANGED <<scheduler, waiter, st, told, tries, ctx>>

\* A slip: session contexts are not children of m.ctx.
CancelNothing ==
  /\ Step("draining", "canceled")
  /\ UNCHANGED <<scheduler, waiter, st, told, tries, ctx>>

\* m.cancel() ends the context of every session; one registered before is a
\* child of m.ctx, and so is one that is made later.
CancelAll ==
  /\ Step("draining", "canceled")
  /\ ctx' = Sessions
  /\ UNCHANGED <<scheduler, waiter, st, told, tries>>

\* Scheduler.Close closes stop and waits for run to return.
CloseStop ==
  /\ Step("canceled", "stopping")
  /\ notify
  /\ UNCHANGED <<clients, active, waiters, advertisedMax, paced, loop, waiter,
                 st, told, tries, ctx>>

CloseWaits ==
  /\ Step("stopping", "waiting")
  /\ loop = "done"
  /\ UNCHANGED <<scheduler, waiter, st, told, tries, ctx>>

\* wg.Wait returns and the transcript store is closed.
CloseStore ==
  /\ Step("waiting", "closed")
  /\ \A s \in Sessions : st[s] \notin Registered
  /\ UNCHANGED <<scheduler, waiter, st, told, tries, ctx>>

-----------------------------------------------------------------------------
Loop == NothingToGrant \/ TooSoon \/ Grant \/ Wake \/ Timer \/ Stop

Close == BeginDrain \/ CancelAll \/ CloseStop \/ CloseWaits \/ CloseStore

Handler(s) ==
  \/ AcquireClient(s) \/ EnqueueUpstream(s) \/ UpgradeFails(s) \/ Register(s)
  \/ Unregister(s) \/ ReleaseClient(s) \/ EndSession(s)
  \/ Announce(s) \/ WaitReady(s) \/ WaitPosition(s) \/ WaitDone(s)
  \/ DialFails(s) \/ ReportFailure(s) \/ Connected(s) \/ UpdateCapacity(s)
  \/ RelayEnds(s) \/ Reconnect(s)

Next ==
  \/ Loop
  \/ PaceElapses
  \/ Close
  \/ \E s \in Sessions : Handler(s)

Spec == Init /\ [][Next]_vars

\* The goroutine of the loop runs, time passes, and a handler that has a
\* next step of its own takes it.  Nothing makes a target end a connection, a
\* client hang up, or an operator close the manager: those steps are fair only
\* once Close was called.
OwnSteps(s) ==
  \/ Register(s) \/ Unregister(s) \/ ReleaseClient(s)
  \/ Announce(s) \/ WaitReady(s) \/ WaitDone(s) \/ ReportFailure(s)
  \/ (s \in ctx /\ (DialFails(s) \/ RelayEnds(s) \/ Reconnect(s)))

Fairness ==
  /\ WF_vars(NothingToGrant \/ TooSoon \/ Grant \/ Wake \/ Timer)
  /\ SF_vars(Stop)
  /\ WF_vars(PaceElapses)
  /\ WF_vars(CancelAll \/ CloseStop \/ CloseWaits \/ CloseStore)
  /\ \A s \in Sessions : WF_vars(OwnSteps(s))

FairSpec == Spec /\ Fairness

-----------------------------------------------------------------------------
(* Properties.                                                             *)

\* The sessions that have a slot of the target: granted and not yet picked up
\* by Wait, or picked up and not yet released.
Holders ==
  {s \in Sessions : \/ st[s] \in {"holding", "relay"}
                     \/ (granted[s] /\ st[s] \in Waiting)}

\* activeUpstreams counts exactly the slots in use, also when a context ends or
\* an upgrade fails while the loop is granting: no slot leaks, none is given
\* back twice.
ActiveExact == active = Cardinality(Holders)

\* A waiter that was neither granted, failed nor cancelled is in the queue once,
\* and nobody else is: grantReady, removeWaiterLocked and failWaiters lose no one.
WaiterQueued ==
  /\ \A i, j \in DOMAIN waiters : waiters[i] = waiters[j] => i = j
  /\ \A s \in Sessions :
       (\E i \in DOMAIN waiters : waiters[i] = s) <=>
       (st[s] \in Waiting /\ ready[s] = "open")

\* What Wait told the client last, or will tell it next, is its place in the
\* queue: publishPositionsLocked leaves no stale position in the channel.
PositionKnown ==
  \A i \in DOMAIN waiters :
    LET s == waiters[i]
    IN i = IF update[s] # 0 THEN update[s] ELSE told[s]

\* The line is exact: who waits is in it once, nobody else is, and every client
\* in it was told its place or is about to be.  Grants, cancellations, failed
\* upgrades and Close all rewrite the queue and the one-slot channels.
LineExact == TypeOK /\ WaiterQueued /\ PositionKnown

\* No wake-up is lost: the head of the queue does not wait forever while a slot
\* is free.
SlotUsed ==
  \A s \in Sessions :
    []<>~(waiters # <<>> /\ Head(waiters) = s /\ active < effectiveMax)

\* Manager.Close returns: run fails the waiters, and every session ends.  Once
\* it has closed the transcript store no session is left to use it.
CloseEnds ==
  /\ manager = "draining" ~> manager = "closed"
  /\ [](manager = "closed" => \A s \in Sessions : st[s] \notin Registered)
=============================================================================
