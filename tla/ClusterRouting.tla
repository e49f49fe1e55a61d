--------------------------- MODULE ClusterRouting ---------------------------
(***************************************************************************)
(* Which node of a cluster runs a user's jobs: internal/cluster (router.go *)
(* and its Valkey state store) with the request forwarding of              *)
(* internal/core/server.go.                                                *)
(*                                                                         *)
(* Every node keeps a cached view of the members, the scopes (routing      *)
(* keys) it has work for, and a periodic sync.  Valkey holds, per scope,   *)
(* the node it is assigned to and, per node, a heartbeat record and the    *)
(* set of scopes assigned to it.  A submission arrives at any node, which  *)
(* asks Valkey for the owner, handles the submission itself or forwards    *)
(* it, and fails over when the owner cannot be reached.                    *)
(***************************************************************************)
EXTENDS Integers, Sequences, FiniteSets

CONSTANTS
    Nodes,          \* the cluster's members
    Scopes,         \* routing keys
    Jobs,           \* jobs, named by their idempotent key
    Subs,           \* submissions; several may carry the same job
    Loads,          \* the loads [Subs -> Jobs] considered: which job a submission carries
    KeyOf,          \* KeyOf[j]: clusterRoutingKey of j's request
    UserOf,         \* UserOf[j]: j's user, the key the registry tracks j under;
                    \* None: one of the Others
    Rank,           \* Rank[k]: the nodes in rendezvous order for scope k
    ScopeOrder,     \* the scopes in string order (rebalance sorts them)
    Capacity,       \* Capacity[n]: active users n takes
    Others,         \* Others[n]: further users n has work for throughout
    Drainable,      \* nodes that may be asked to drain
    Budget,         \* bound: submissions, failed store calls, expiries, forwards that
                    \* fail, callers that leave, refusals and drains, all together
    None

ASSUME ClusterAssumption ==
    /\ Loads \subseteq [Subs -> Jobs]
    /\ KeyOf \in [Jobs -> Scopes]
    /\ UserOf \in [Jobs -> Scopes \cup {None}]
    /\ Drainable \subseteq Nodes
    /\ None \notin Nodes \cup Scopes
    /\ IsFiniteSet(Subs) /\ IsFiniteSet(Jobs)

VARIABLES
    inst,       \* inst[n]: n's heartbeat record in Valkey, None once expired
    listed,     \* the set of instance ids in Valkey
    asg,        \* asg[k]: the node k is assigned to, or None
    zset,       \* zset[n]: the scopes counted as assigned to n
    late,       \* late: the <<scope, node>> of a Release its caller gave up on
    mode,       \* mode[n]: see Modes
    view,       \* view[n]: Router.members of n but for n itself, each with its state
    pruned,     \* pruned[n]: the members n skips (prunedUntil)
    out,        \* out[n][k]: localScopes[k].outstanding
    age,        \* age[n][k]: how long since k was seen at n; Gone: no entry
    sync,       \* sync[n]: where syncState is, with what it carries along
    JobOf,      \* JobOf[s]: the job submission s carries
    sub,        \* sub[s]: the sender's side of a submission
    hand,       \* hand[s][n]: s's handler at node n
    held,       \* held[n]: jobs accepted at n and not finished
    seen,       \* seen[n]: jobs n's store knows
    spent,      \* what has been spent of the Budget
    gone,       \* observing: submissions whose caller left while they were out
    took,       \* observing: took[s]: nodes that accepted s
    uncounted,  \* observing: assigned scopes dropped from their node's count
    excused     \* observing: scopes that may be worked on at two nodes

storeVars == <<inst, listed, asg, zset, uncounted, late>>
routerVars == <<mode, view, pruned, out, age, sync>>
requestVars == <<JobOf, sub, hand, held, seen, gone, took>>
vars == <<storeVars, routerVars, requestVars, spent, excused>>

\* "flagged": BeginDrain has set the flag the handlers read, SetState has not
\* run yet.
Modes == {"active", "flagged", "draining", "closed"}

\* The age of a scope at a node: seen within the rebalance grace, within
\* idleTTL, or not within idleTTL.
Fresh == 0
Rested == 1
Idle == 2
Gone == 3

\* A heartbeat record.  Nobody looks at the users of a draining node.
Record(state, users) == [state |-> state, users |-> IF state = "active" THEN users ELSE 0]
AtRest == [pc |-> "rest"]
Local(n) == [pc |-> "local", at |-> n]
Ended == [pc |-> "answered"]

IsActive(rec) == rec # None /\ rec.state = "active"
nodeState(n) == IF mode[n] = "draining" THEN "draining" ELSE "active"
isDraining(n) == mode[n] # "active"
Key(s) == KeyOf[JobOf[s]]

(***************************************************************************)
(* Store calls.  A call may fail having been applied or not: the router's  *)
(* deadline is short and Valkey may still carry out what was asked, a      *)
(* Release also when the scope has long been assigned again.               *)
(***************************************************************************)
Outcomes == {"ok"} \cup (IF spent < Budget THEN {"lost", "unseen"} ELSE {})
Applied(o) == o # "lost"
Failed(o) == o # "ok"
Charge(o) == spent' = IF Failed(o) THEN spent + 1 ELSE spent

Sticky(k) == asg[k] # None /\ IsActive(inst[asg[k]])

\* What the assignment script takes a candidate's load to be.
Used(m) == LET assigned == Others[m] + Cardinality(zset[m])
           IN  IF inst[m].users > assigned THEN inst[m].users ELSE assigned

\* The script's choice among the candidates, in rank order: the first one
\* under its capacity, or else the first with the least load per capacity.
Choice(ranked) ==
    LET live == SelectSeq(ranked, LAMBDA m : IsActive(inst[m]))
        free == SelectSeq(live, LAMBDA m : Used(m) < Capacity[m])
        least(i) == \A h \in 1 .. Len(live) :
                       LET a == Used(live[i]) * Capacity[live[h]]
                           z == Used(live[h]) * Capacity[live[i]]
                       IN  IF h < i THEN a < z ELSE a <= z
    IN  IF free # <<>> THEN free[1]
        ELSE IF live # <<>> THEN live[CHOOSE i \in 1 .. Len(live) : least(i)]
        ELSE None

Picked(k, ranked) == IF Sticky(k) THEN asg[k] ELSE Choice(ranked)

Assign(k, ranked) ==
    LET p == Picked(k, ranked) IN
    /\ asg' = [asg EXCEPT ![k] = p]
    /\ zset' = [m \in Nodes |-> IF m = p THEN zset[m] \cup {k}
                                ELSE IF m = asg[k] THEN zset[m] \ {k}
                                ELSE zset[m]]
    /\ uncounted' = uncounted \ {k}
    /\ UNCHANGED <<inst, listed, late>>

ReleaseKeepsCount(k, n) ==
    /\ asg' = IF asg[k] = n THEN [asg EXCEPT ![k] = None] ELSE asg
    /\ UNCHANGED <<inst, listed, zset, uncounted>>

\* Release gives the scope up only when it is still assigned to n.
Release(k, n) ==
    /\ IF asg[k] = n
         THEN /\ asg' = [asg EXCEPT ![k] = None]
              /\ zset' = [zset EXCEPT ![n] = @ \ {k}]
              /\ uncounted' = uncounted \ {k}
         ELSE UNCHANGED <<asg, zset, uncounted>>
    /\ UNCHANGED <<inst, listed>>

Heartbeat(n, record) ==
    /\ inst' = [inst EXCEPT ![n] = record]
    /\ listed' = listed \cup {n}

\* Renew extends, and counts, the scopes among ks still assigned to n.
Renew(n, ks) ==
    LET mine == {k \in ks : asg[k] = n} IN
    /\ zset' = [zset EXCEPT ![n] = @ \cup mine]
    /\ uncounted' = uncounted \ mine

\* Drop instances and their counts.  The assignments to them stay, until a
\* request or their expiry removes them.
Drop(ns) ==
    /\ listed' = listed \ ns
    /\ zset' = [m \in Nodes |-> IF m \in ns THEN {} ELSE zset[m]]
    /\ uncounted' = uncounted \cup {k \in Scopes : asg[k] \in ns}
    /\ asg' = asg

RemoveInstance(n) == Drop({n}) /\ inst' = [inst EXCEPT ![n] = None]

Call(o, effect) == IF Applied(o) THEN effect ELSE UNCHANGED storeVars

\* Release with the router's deadline: what it gives up on is carried out later,
\* or never.
CallRelease(o, k, n) ==
    IF Failed(o)
    THEN /\ late' = late \cup {<<k, n>>}
         /\ UNCHANGED <<inst, listed, asg, zset, uncounted>>
    ELSE Release(k, n) /\ UNCHANGED late

(***************************************************************************)
(* Work, and when two nodes may work on one scope.                         *)
(***************************************************************************)
Counted == {"tracked", "decided"}

\* n handles s on its own behalf: ResolveOwner has touched the scope here.
IsLocal(s, n) == sub[s].pc = "local" /\ sub[s].at = n

\* n holds work of scope k, or is being sent some.
WorkAt(n, k) == \/ \E j \in held[n] : KeyOf[j] = k
                \/ \E s \in Subs : /\ Key(s) = k
                                   /\ hand[s][n] \in {"flight", "handle"} \cup Counted

\* Work of k at n that n's localScopes cannot show: a submission forwarded to
\* it that it has not tracked yet, or a job of the shared scope, which the
\* registry tracks under its user and not under the key it was routed by.
Untracked(n, k) == \/ \E j \in held[n] : KeyOf[j] = k /\ UserOf[j] # k
                   \/ \E s \in Subs : /\ Key(s) = k
                                      /\ hand[s][n] \in {"flight", "handle"}
                                      /\ ~IsLocal(s, n)

\* The scopes newly excused, kept while somebody works on them.
Excuse(more) == excused' = {k \in excused \cup more : \E n \in Nodes : WorkAt(n, k)'}

\* k is taken by somebody else, or by its expiry, from the node it is assigned
\* to, which works on it.
Torn(k) == IF /\ asg[k] # None
              /\ asg'[k] # asg[k]
              /\ WorkAt(asg[k], k)
           THEN {k} ELSE {}

(***************************************************************************)
(* Routing a submission.                                                   *)
(***************************************************************************)
rankedOwners(n, k, excluded) ==
    SelectSeq(Rank[k], LAMBDA m : /\ m \notin excluded
                                  /\ m \notin pruned[n]
                                  /\ IF m = n THEN nodeState(n) = "active"
                                                ELSE view[n][m] = "active")

Touch(n, k) == age' = [age EXCEPT ![n][k] = Fresh]

TrackLocalJob(n, k) ==
    IF k = None THEN UNCHANGED <<out, age>>
    ELSE /\ Touch(n, k)
         /\ out' = [out EXCEPT ![n][k] = @ + 1]

CompleteLocalJob(n, k) ==
    IF k = None \/ age[n][k] = Gone THEN UNCHANGED <<out, age>>
    ELSE /\ Touch(n, k)
         /\ out' = [out EXCEPT ![n][k] = IF @ > 0 THEN @ - 1 ELSE 0]

\* forwardClusterRequest up to its loop: without any known owner the node
\* handles the submission itself.
Submit(s, n) ==
    LET known == Len(rankedOwners(n, Key(s), {})) IN
    /\ sub[s].pc = "new"
    /\ mode[n] # "closed"
    /\ spent < Budget
    /\ spent' = spent + 1
    /\ sub' = [sub EXCEPT ![s] = IF known = 0 THEN Local(n)
                                 ELSE [pc |-> "route", at |-> n, to |-> None,
                                       tried |-> {}, left |-> known + 1]]
    /\ hand' = IF known = 0 THEN [hand EXCEPT ![s][n] = "handle"] ELSE hand
    /\ UNCHANGED <<JobOf, storeVars, routerVars, held, seen, gone, took>>
    /\ Excuse(IF known = 0 THEN {Key(s)} ELSE {})

\* The owner a node goes by: the store's answer, or its own first choice when
\* the store fails or has nobody to name.
ResolveOwner(k, ranked, o) ==
    IF Failed(o) \/ Picked(k, ranked) = None THEN ranked[1] ELSE Picked(k, ranked)

\* One turn of the loop: ResolveOwner, then the owner is the node itself or
\* the submission is forwarded.  A forward on behalf of a caller that has left
\* fails at once, since it inherits the caller's context.
Resolve(s) ==
    LET n == sub[s].at
        k == Key(s)
        ranked == rankedOwners(n, k, sub[s].tried)
    IN
    /\ sub[s].pc = "route"
    /\ sub[s].left > 0
    /\ ranked # <<>>
    /\ UNCHANGED <<JobOf, mode, view, pruned, out, sync, held, seen, gone, took>>
    /\ \E o \in Outcomes :
         LET owner == ResolveOwner(k, ranked, o)
             keep == owner = n /\ ~isDraining(n)
         IN
         /\ Charge(o)
         /\ Call(o, Assign(k, ranked))
         /\ IF owner = n THEN Touch(n, k) ELSE UNCHANGED age
         /\ sub' = IF keep THEN [sub EXCEPT ![s] = Local(n)]
                   ELSE [sub EXCEPT ![s] =
                           [pc |-> IF owner = n \/ s \in gone THEN "mark" ELSE "wait",
                            at |-> n, to |-> owner, tried |-> sub[s].tried \cup {owner},
                            left |-> sub[s].left - 1]]
         /\ hand' = IF keep THEN [hand EXCEPT ![s][n] = "handle"]
                    ELSE IF owner = n \/ s \in gone THEN hand
                    ELSE [hand EXCEPT ![s][owner] = "flight"]
         /\ Excuse((IF Failed(o) \/ Picked(k, ranked) = None THEN {k} ELSE {})
                     \cup (IF Sticky(k) THEN {} ELSE Torn(k)))

\* The loop ends without an owner: 502.
Unrouted(s) ==
    /\ sub[s].pc = "route"
    /\ sub[s].left = 0 \/ rankedOwners(sub[s].at, Key(s), sub[s].tried) = <<>>
    /\ sub' = [sub EXCEPT ![s] = Ended]
    /\ UNCHANGED <<JobOf, storeVars, routerVars, hand, held, seen, gone, took, spent>>
    /\ Excuse({})

\* The owner could not take the submission: skip it for a while and give the
\* scope up on its behalf.
MarkUnavailable(s) ==
    LET n == sub[s].at
        m == sub[s].to
        k == Key(s)
    IN
    /\ sub[s].pc = "mark"
    /\ pruned' = IF m = n THEN pruned ELSE [pruned EXCEPT ![n] = @ \cup {m}]
    /\ \E o \in Outcomes : /\ Charge(o)
                           /\ CallRelease(o, k, m)
    /\ sub' = [sub EXCEPT ![s].pc = "route"]
    /\ UNCHANGED <<JobOf, mode, view, out, age, sync, hand, held, seen, gone, took>>
    /\ Excuse(Torn(k))

\* The forward fails before the owner has the whole request.
NotDelivered(s) ==
    LET m == sub[s].to IN
    /\ sub[s].pc = "wait"
    /\ hand[s][m] = "flight"
    /\ mode[m] = "closed" \/ spent < Budget
    /\ spent' = IF mode[m] = "closed" THEN spent ELSE spent + 1
    /\ sub' = [sub EXCEPT ![s].pc = "mark"]
    /\ hand' = [hand EXCEPT ![s][m] = "none"]
    /\ UNCHANGED <<JobOf, storeVars, routerVars, held, seen, gone, took>>
    /\ Excuse({})

ForwardTimeoutFailsOver(s) ==
    /\ sub[s].pc = "wait"
    /\ spent < Budget
    /\ hand[s][sub[s].to] \in {"flight", "handle"} \cup Counted
    /\ spent' = spent + 1
    /\ sub' = [sub EXCEPT ![s].pc = "mark"]
    /\ UNCHANGED <<JobOf, storeVars, routerVars, hand, held, seen, gone, took>>
    /\ Excuse({})

\* The owner has the request and does not answer in time: 504, no failover.
ForwardTimeout(s) ==
    /\ sub[s].pc = "wait"
    /\ spent < Budget
    /\ hand[s][sub[s].to] \in {"flight", "handle"} \cup Counted
    /\ spent' = spent + 1
    /\ sub' = [sub EXCEPT ![s] = Ended]
    /\ UNCHANGED <<JobOf, storeVars, routerVars, hand, held, seen, gone, took>>
    /\ Excuse({})

\* The caller goes away while its submission is at the owner.  The error the
\* sender then sees is its own context's, which it takes for a failed owner.
CallerLeaves(s) ==
    /\ sub[s].pc = "wait"
    /\ spent < Budget
    /\ hand[s][sub[s].to] \in {"flight", "handle"} \cup Counted
    /\ spent' = spent + 1
    /\ gone' = gone \cup {s}
    /\ sub' = [sub EXCEPT ![s].pc = "mark"]
    /\ UNCHANGED <<JobOf, storeVars, routerVars, hand, held, seen, took>>
    /\ Excuse({})

\* The owner's answer: a draining owner is passed over, anything else is
\* relayed to the caller.
Relay(s) ==
    LET m == sub[s].to IN
    /\ sub[s].pc = "wait"
    /\ hand[s][m] \in {"ok", "drain"}
    /\ sub' = IF hand[s][m] = "drain" THEN [sub EXCEPT ![s].pc = "mark"]
                                      ELSE [sub EXCEPT ![s] = Ended]
    /\ hand' = [hand EXCEPT ![s][m] = "none"]
    /\ UNCHANGED <<JobOf, storeVars, routerVars, held, seen, gone, took, spent>>
    /\ Excuse({})

(***************************************************************************)
(* Handling a submission at the node it was routed to.                     *)
(***************************************************************************)

\* The sender has answered its caller with 504: the deadline it sent along has
\* passed.
ForwardExpired(s) == sub[s].pc = "answered" /\ s \notin gone

\* A forwarded request is refused once its sender's deadline has passed;
\* otherwise the node takes it without asking who the owner is.
Arrive(s, n) ==
    /\ hand[s][n] = "flight"
    /\ mode[n] # "closed"
    /\ hand' = [hand EXCEPT ![s][n] = IF ForwardExpired(s) THEN "none" ELSE "handle"]
    /\ UNCHANGED <<JobOf, storeVars, routerVars, sub, held, seen, gone, took, spent>>
    /\ Excuse({})

\* A request nobody waits for any more may also never arrive.
Vanish(s, n) ==
    /\ hand[s][n] = "flight"
    /\ sub[s].pc # "wait"
    /\ hand' = [hand EXCEPT ![s][n] = "none"]
    /\ UNCHANGED <<JobOf, storeVars, routerVars, sub, held, seen, gone, took, spent>>
    /\ Excuse({})

\* trackLocalClusterRequest.
Track(s, n) ==
    /\ hand[s][n] = "handle"
    /\ TrackLocalJob(n, Key(s))
    /\ hand' = [hand EXCEPT ![s][n] = "tracked"]
    /\ UNCHANGED <<JobOf, storeVars, mode, view, pruned, sync, sub, held, seen, gone, took, spent>>
    /\ Excuse({})

ReturnByUser(s, n, answer) ==
    /\ sub' = IF IsLocal(s, n) THEN [sub EXCEPT ![s] = Ended] ELSE sub
    /\ hand' = [hand EXCEPT ![s][n] = IF sub[s].pc = "wait" /\ sub[s].to = n
                                        THEN answer ELSE "none"]
    /\ CompleteLocalJob(n, UserOf[JobOf[s]])

\* The handler returns, and finishClusterRequest with it: to the node's own
\* caller, to the sender that waits for it, or to nobody any more.
Return(s, n, answer) ==
    LET awaited == sub[s].pc = "wait" /\ sub[s].to = n
    IN
    /\ sub' = IF IsLocal(s, n) THEN [sub EXCEPT ![s] = Ended] ELSE sub
    /\ hand' = [hand EXCEPT ![s][n] = IF awaited THEN answer ELSE "none"]
    /\ CompleteLocalJob(n, Key(s))

\* The job is refused by a draining node, or found to be known, or accepted
\* and handed to the registry, which tracks it under its user.
Admit(s, n) ==
    LET j == JobOf[s] IN
    /\ hand[s][n] = "tracked"
    /\ IF isDraining(n)
         THEN /\ Return(s, n, "drain")
              /\ UNCHANGED <<held, seen, took>>
         ELSE /\ sub' = sub
              /\ hand' = [hand EXCEPT ![s][n] = "decided"]
              /\ took' = [took EXCEPT ![s] = @ \cup {n}]
              /\ seen' = [seen EXCEPT ![n] = @ \cup {j}]
              /\ IF j \in seen[n]
                   THEN UNCHANGED <<out, age, held>>
                   ELSE /\ TrackLocalJob(n, UserOf[j])
                        /\ held' = [held EXCEPT ![n] = @ \cup {j}]
    /\ UNCHANGED <<JobOf, storeVars, mode, view, pruned, sync, gone, spent>>
    /\ Excuse({})

\* Admission control refuses the job: the registry counts it and takes its count
\* back.  The refusal is relayed like any other answer.
Reject(s, n) ==
    /\ hand[s][n] = "tracked"
    /\ ~isDraining(n)
    /\ JobOf[s] \notin seen[n]
    /\ spent < Budget
    /\ spent' = spent + 1
    /\ hand' = [hand EXCEPT ![s][n] = "decided"]
    /\ IF UserOf[JobOf[s]] = None THEN age' = age ELSE Touch(n, UserOf[JobOf[s]])
    /\ UNCHANGED <<JobOf, storeVars, mode, view, pruned, out, sync, sub, held, seen, gone, took>>
    /\ Excuse({})

Finish(s, n) ==
    /\ hand[s][n] = "decided"
    /\ Return(s, n, "ok")
    /\ UNCHANGED <<JobOf, storeVars, mode, view, pruned, sync, held, seen, gone, took, spent>>
    /\ Excuse({})

\* The account queue is done with the job: the registry's onJobDone.
JobDone(n, j) ==
    /\ j \in held[n]
    /\ held' = [held EXCEPT ![n] = @ \ {j}]
    /\ CompleteLocalJob(n, UserOf[j])
    /\ UNCHANGED <<JobOf, storeVars, mode, view, pruned, sync, sub, hand, seen, gone, took, spent>>
    /\ Excuse({})

(***************************************************************************)
(* The periodic sync: heartbeat, renew, release what is idle, refresh the  *)
(* members, rebalance.                                                     *)
(***************************************************************************)
activeScopeCount(n) ==
    Others[n] + Cardinality({k \in Scopes : age[n][k] # Gone /\ (out[n][k] > 0 \/ age[n][k] # Idle)})

IsIdle(n, k) == age[n][k] = Idle /\ out[n][k] = 0

HandOffWithoutGrace(n, k) == age[n][k] \in {Fresh, Rested} /\ out[n][k] = 0

handOffCandidate(n, k) == age[n][k] = Rested /\ out[n][k] = 0

Forget(n, k) == age' = [age EXCEPT ![n][k] = Gone]

\* Giving up a scope of one's own accord excuses work it cannot see.
GivenUp(n, k) == IF asg[k] = n /\ asg'[k] # n /\ Untracked(n, k) THEN {k} ELSE {}

\* Release a scope that is idle, under its lock; on an error forget it all the
\* same.  syncState lists the idle scopes first and looks at each again here.
ReleaseIdle(n, k) ==
    /\ mode[n] # "closed"
    /\ IsIdle(n, k)
    /\ \E o \in Outcomes : Charge(o) /\ CallRelease(o, k, n)
    /\ Forget(n, k)
    /\ UNCHANGED <<mode, view, pruned, out, sync, requestVars>>
    /\ Excuse(GivenUp(n, k))

\* rebalance's loop ends with its list or when enough has been handed off.
GoOn(plan) == IF plan.idle = <<>> \/ plan.excess <= 0 THEN AtRest ELSE plan

\* rebalance's measure of the cluster: the members counted, their users, the
\* scopes that may be handed off and how many are too many.  Nobody else reads
\* the users in the node's view of the members, so the plan carries them.
Plan(n, members) ==
    LET counted == {m \in Nodes : IsActive(members[m]) /\ m \notin pruned[n]}
        total == Cardinality(UNION {{m} \X (1 .. members[m].users) : m \in counted})
        active == Cardinality(counted)
        mine == activeScopeCount(n)
        fairCeil == (total + active - 1) \div active
    IN  IF \/ nodeState(n) = "draining"
           \/ active < 2
           \/ total = 0
           \/ 2 * mine * active <= 3 * total        \* rebalanceRatio is 1.5
        THEN AtRest
        ELSE GoOn([pc |-> "hand", total |-> total, active |-> active,
                   excess |-> mine - fairCeil,
                   idle |-> SelectSeq(ScopeOrder, LAMBDA k : handOffCandidate(n, k)),
                   load |-> [m \in Nodes |-> IF members[m] = None THEN 0
                                             ELSE members[m].users]])

\* One pass of syncState around the releases: the heartbeat, the renewal of
\* the scopes kept, and Members, whose answer replaces the view.  Ids without a
\* record are dropped in a further exchange with Valkey.  Each of the three
\* calls may fail by itself; a failed Members ends the pass.
SyncState(n) ==
    LET renewed == {k \in Scopes : age[n][k] # Gone /\ ~IsIdle(n, k)}
        record == Record(nodeState(n), activeScopeCount(n))
        members == [m \in Nodes |-> IF m \in listed' /\ m # n THEN inst'[m] ELSE None]
        stale == {m \in listed' : inst'[m] = None}
    IN
    /\ mode[n] # "closed"
    /\ sync[n].pc = "rest"
    /\ \E lost \in SUBSET {"beat", "renew", "read"} :
         /\ spent + Cardinality(lost) <= Budget
         /\ spent' = spent + Cardinality(lost)
         /\ IF "beat" \in lost THEN UNCHANGED <<inst, listed>> ELSE Heartbeat(n, record)
         /\ IF "renew" \in lost THEN UNCHANGED <<zset, uncounted>> ELSE Renew(n, renewed)
         /\ IF "read" \in lost
              THEN UNCHANGED <<view, sync>>
              ELSE /\ view' = [view EXCEPT ![n] =
                                 [m \in Nodes |-> IF members[m] = None THEN None
                                                  ELSE members[m].state]]
                   /\ sync' = [sync EXCEPT ![n] =
                                 IF stale = {} THEN Plan(n, [members EXCEPT ![n] = record])
                                 ELSE [pc |-> "clean", stale |-> stale, members |-> members]]
    /\ UNCHANGED <<asg, late, mode, pruned, out, age, requestVars>>
    /\ Excuse({})

\* Drop the stale ids with their counts; a node whose heartbeat came in
\* between is dropped as well.
SyncClean(n) ==
    LET stale == sync[n].stale
        record == Record(nodeState(n), activeScopeCount(n))
    IN
    /\ sync[n].pc = "clean"
    /\ Drop(stale)
    /\ sync' = [sync EXCEPT ![n] = Plan(n, [sync[n].members EXCEPT ![n] = record])]
    /\ UNCHANGED <<inst, late, mode, view, pruned, out, age, requestVars, spent>>
    /\ Excuse({})

\* One scope of rebalance's list: hand it to its preferred node when that is
\* another one with room below the fair share, if it is still a candidate.
HandOff(n) ==
    LET p == sync[n]
        k == p.idle[1]
        ranked == rankedOwners(n, k, {})
        load == p.load[ranked[1]]
        passed == [p EXCEPT !.idle = Tail(@)]
        released == [passed EXCEPT !.load[ranked[1]] = @ + 1, !.excess = @ - 1]
    IN
    /\ p.pc = "hand"
    /\ UNCHANGED <<mode, view, pruned, out, requestVars>>
    /\ IF \/ ranked = <<>>
          \/ ranked[1] = n
          \/ load * p.active >= p.total
          \/ load >= Capacity[ranked[1]]
          \/ ~handOffCandidate(n, k)
         THEN /\ sync' = [sync EXCEPT ![n] = GoOn(passed)]
              /\ UNCHANGED <<storeVars, age, spent>>
              /\ Excuse({})
         ELSE \E o \in Outcomes :
              /\ Charge(o)
              /\ CallRelease(o, k, n)
              /\ IF Failed(o) THEN /\ sync' = [sync EXCEPT ![n] = AtRest]
                                   /\ UNCHANGED age
                 ELSE /\ sync' = [sync EXCEPT ![n] = GoOn(released)]
                      /\ Forget(n, k)
              /\ Excuse(GivenUp(n, k))

(***************************************************************************)
(* Draining, shutdown, time.                                               *)
(***************************************************************************)
BeginDrain(n) ==
    /\ n \in Drainable
    /\ mode[n] = "active"
    /\ spent < Budget
    /\ spent' = spent + 1
    /\ mode' = [mode EXCEPT ![n] = "flagged"]
    /\ UNCHANGED <<storeVars, view, pruned, out, age, sync, requestVars>>
    /\ Excuse({})

\* SetState: the node's own entry and its heartbeat say so at once.
SetState(n) ==
    /\ mode[n] = "flagged"
    /\ mode' = [mode EXCEPT ![n] = "draining"]
    /\ \E o \in Outcomes :
         /\ Charge(o)
         /\ Call(o, /\ Heartbeat(n, Record("draining", activeScopeCount(n)))
                    /\ UNCHANGED <<asg, zset, uncounted, late>>)
    /\ UNCHANGED <<view, pruned, out, age, sync, requestVars>>
    /\ Excuse({})

\* Close and the end of the process, once the drained node has nothing left:
\* its instance is removed.
Close(n) ==
    /\ mode[n] = "draining"
    /\ sync[n].pc = "rest"
    /\ held[n] = {}
    /\ \A s \in Subs : /\ hand[s][n] \in {"none", "flight", "ok", "drain"}
                       /\ sub[s].pc \notin {"new", "answered"} => sub[s].at # n
    /\ mode' = [mode EXCEPT ![n] = "closed"]
    /\ RemoveInstance(n)
    /\ view' = [view EXCEPT ![n] = [m \in Nodes |-> None]]
    /\ pruned' = [pruned EXCEPT ![n] = {}]
    /\ age' = [age EXCEPT ![n] = [k \in Scopes |-> Gone]]
    /\ UNCHANGED <<late, out, sync, requestVars, spent>>
    /\ Excuse({})

\* The timing the grace is chosen for: a handler gets from its routing to its
\* Track in less than one heartbeat.
Settled(n, k) == \A s \in Subs : Key(s) = k => hand[s][n] # "handle"

Grow(n, k) ==
    /\ age[n][k] \in {Fresh, Rested}
    /\ out[n][k] = 0
    /\ Settled(n, k)
    /\ age' = [age EXCEPT ![n][k] = @ + 1]
    /\ UNCHANGED <<storeVars, mode, view, pruned, out, sync, requestVars, spent>>
    /\ Excuse({})

Unprune(n, m) ==
    /\ m \in pruned[n]
    /\ pruned' = [pruned EXCEPT ![n] = @ \ {m}]
    /\ UNCHANGED <<storeVars, mode, view, out, age, sync, requestVars, spent>>
    /\ Excuse({})

\* A node stalls for longer than instanceTTL and its record expires.
InstanceExpires(n) ==
    /\ inst[n] # None
    /\ spent < Budget
    /\ spent' = spent + 1
    /\ inst' = [inst EXCEPT ![n] = None]
    /\ UNCHANGED <<listed, asg, zset, uncounted, late, routerVars, requestVars>>
    /\ Excuse({})

\* An assignment its node does not renew expires, from both places at once;
\* one the node does renew only when the node stalls for that long.
AssignmentExpires(k) ==
    LET n == asg[k] IN
    /\ n # None
    /\ spent' = IF mode[n] = "closed" \/ age[n][k] = Gone THEN spent ELSE spent + 1
    /\ spent' <= Budget
    /\ asg' = [asg EXCEPT ![k] = None]
    /\ zset' = [zset EXCEPT ![n] = @ \ {k}]
    /\ uncounted' = uncounted \ {k}
    /\ UNCHANGED <<inst, listed, late, routerVars, requestVars>>
    /\ Excuse(Torn(k))

\* Valkey carries out a Release after the router's deadline.
LateRelease(k, n) ==
    /\ <<k, n>> \in late
    /\ late' = late \ {<<k, n>>}
    /\ Release(k, n)
    /\ UNCHANGED <<routerVars, requestVars, spent>>
    /\ Excuse(Torn(k))

(***************************************************************************)
(* The specification.                                                      *)
(***************************************************************************)
\* The nodes have started and know each other; nothing has been submitted.
Init ==
    /\ inst = [n \in Nodes |-> Record("active", Others[n])]
    /\ listed = Nodes
    /\ asg = [k \in Scopes |-> None]
    /\ zset = [n \in Nodes |-> {}]
    /\ late = {}
    /\ mode = [n \in Nodes |-> "active"]
    /\ view = [n \in Nodes |-> [m \in Nodes |-> IF m = n THEN None ELSE "active"]]
    /\ pruned = [n \in Nodes |-> {}]
    /\ out = [n \in Nodes |-> [k \in Scopes |-> 0]]
    /\ age = [n \in Nodes |-> [k \in Scopes |-> Gone]]
    /\ sync = [n \in Nodes |-> AtRest]
    /\ JobOf \in Loads
    /\ sub = [s \in Subs |-> [pc |-> "new"]]
    /\ hand = [s \in Subs |-> [n \in Nodes |-> "none"]]
    /\ held = [n \in Nodes |-> {}]
    /\ seen = [n \in Nodes |-> {}]
    /\ spent = 0
    /\ gone = {}
    /\ took = [s \in Subs |-> {}]
    /\ uncounted = {}
    /\ excused = {}

Sender(s) ==
    Resolve(s) \/ Unrouted(s) \/ MarkUnavailable(s) \/ Relay(s)

Handler(s, n) == Arrive(s, n) \/ Track(s, n) \/ Admit(s, n) \/ Reject(s, n) \/ Finish(s, n)

Sync(n) ==
    \/ SyncState(n) \/ SyncClean(n) \/ HandOff(n)
    \/ \E k \in Scopes : ReleaseIdle(n, k)

Next ==
    \/ \E s \in Subs : \/ Sender(s)
                       \/ NotDelivered(s) \/ ForwardTimeout(s) \/ CallerLeaves(s)
                       \/ \E n \in Nodes : Submit(s, n) \/ Handler(s, n) \/ Vanish(s, n)
    \/ \E n \in Nodes : \/ Sync(n)
                        \/ BeginDrain(n) \/ SetState(n) \/ Close(n)
                        \/ InstanceExpires(n)
                        \/ \E j \in Jobs : JobDone(n, j)
                        \/ \E k \in Scopes : Grow(n, k)
                        \/ \E m \in Nodes : Unprune(n, m)
    \/ \E k \in Scopes : AssignmentExpires(k) \/ \E n \in Nodes : LateRelease(k, n)

Spec == Init /\ [][Next]_vars

(***************************************************************************)
(* Properties.                                                             *)
(***************************************************************************)

\* Two nodes never hold work of one scope at the same time, unless the scope
\* was taken from a node that had work for it by one of the events the code
\* accepts (the store failed or had no live candidate, the node knew none, the
\* owner drained, expired or was marked unavailable, a Release came into effect
\* after its caller's deadline) or was handed off while the owner had work that
\* localScopes does not count.
OneOwnerWorks ==
    \A k \in Scopes \ excused : \A n, m \in Nodes :
        WorkAt(n, k) /\ WorkAt(m, k) => n = m

\* A submission is accepted by at most one node, however often it fails over,
\* unless its caller left while the owner had it.
AcceptedOnce ==
    \A s \in Subs \ gone : \A n, m \in took[s] : n = m

\* A node's outstanding count of a scope is exactly the handlers and the
\* unfinished jobs it tracked, and a scope with any is in localScopes: nothing
\* is counted down twice, and a count is never forgotten with its scope.
OutstandingExact ==
    \A n \in Nodes, k \in Scopes :
        /\ out[n][k] = Cardinality({s \in Subs : Key(s) = k /\ hand[s][n] \in Counted})
                         + Cardinality({j \in held[n] : UserOf[j] = k})
        /\ age[n][k] = Gone => out[n][k] = 0

\* Valkey's two records of an assignment agree: a node is charged for a scope
\* only while the scope is assigned to it, and for every such scope but the
\* ones whose count went with an instance taken for dead.
AssignmentCounted ==
    \A n \in Nodes : /\ \A k \in zset[n] : asg[k] = n
                     /\ \A k \in Scopes \ uncounted : asg[k] = n => k \in zset[n]
=============================================================================
