------------------------ MODULE ClusterRoutingProofs ------------------------
(***************************************************************************)
(* For any cluster, any scopes, any jobs and any number of faults: the two *)
(* records Valkey keeps of an assignment agree; a submission is accepted   *)
(* by at most one node unless its caller left; the outstanding counts of   *)
(* localScopes are exact; and only the node a scope is assigned to works   *)
(* on it, unless one of the events the code accepts has excused the scope. *)
(***************************************************************************)
EXTENDS ClusterRouting, FiniteSetTheorems, TLAPS

\* The leaves are first-order and set reasoning except where they say SMT.
USE ZenonT(40)

\* What the argument needs to know of the types.  No step depends on whom the
\* assignment script picks, only on both records being written together.
StoreTypes ==
    /\ asg = [k \in Scopes |-> asg[k]]
    /\ zset \in [Nodes -> SUBSET Scopes]

StoreInv == StoreTypes /\ AssignmentCounted

\* The keys of the submissions are scopes.
KeyInv == JobOf \in [Subs -> Jobs]

\* A step that leaves both records alone keeps them in agreement.
LEMMA UntouchedKeeps ==
    ASSUME StoreInv, UNCHANGED <<asg, zset, uncounted>>
    PROVE  StoreInv'
BY DEF StoreInv, StoreTypes, AssignmentCounted

\* The assignment script (valkey.go, assignClusterScopeScript) writes both.
LEMMA AssignKeeps ==
    ASSUME StoreInv, NEW k \in Scopes, NEW ranked, Assign(k, ranked)
    PROVE  StoreInv'
<1> DEFINE p == Picked(k, ranked)
<1>1. /\ asg' = [asg EXCEPT ![k] = p]
      /\ zset' = [m \in Nodes |-> IF m = p THEN zset[m] \cup {k}
                                  ELSE IF m = asg[k] THEN zset[m] \ {k}
                                  ELSE zset[m]]
      /\ uncounted' = uncounted \ {k}
  BY DEF Assign
<1> HIDE DEF p
<1>2. StoreTypes'
  BY <1>1 DEF StoreInv, StoreTypes
<1>3. ASSUME NEW n \in Nodes, NEW h \in zset'[n] PROVE asg'[h] = n
  BY <1>1, <1>3 DEF StoreInv, StoreTypes, AssignmentCounted
<1>4. ASSUME NEW n \in Nodes, NEW h \in Scopes \ uncounted', asg'[h] = n
      PROVE  h \in zset'[n]
  BY <1>1, <1>4 DEF StoreInv, StoreTypes, AssignmentCounted
<1> QED
  BY <1>2, <1>3, <1>4 DEF StoreInv, AssignmentCounted

\* Taking a scope from the node it is assigned to removes it from both.
LEMMA RemovalKeeps ==
    ASSUME StoreInv, NEW k, NEW n, asg[k] = n,
           asg' = [asg EXCEPT ![k] = None],
           zset' = [zset EXCEPT ![n] = @ \ {k}],
           uncounted' = uncounted \ {k}
    PROVE  StoreInv'
<1>1. StoreTypes'
  BY DEF StoreInv, StoreTypes
<1>2. ASSUME NEW m \in Nodes, NEW h \in zset'[m] PROVE asg'[h] = m
  BY <1>2 DEF StoreInv, StoreTypes, AssignmentCounted
<1>3. ASSUME NEW m \in Nodes, NEW h \in Scopes \ uncounted', asg'[h] = m
      PROVE  h \in zset'[m]
  BY <1>3, ClusterAssumption DEF StoreInv, StoreTypes, AssignmentCounted
<1> QED
  BY <1>1, <1>2, <1>3 DEF StoreInv, AssignmentCounted

\* Release (releaseClusterScopeScript), whoever asks for it.
LEMMA ReleaseKeeps ==
    ASSUME StoreInv, NEW k, NEW n, Release(k, n)
    PROVE  StoreInv'
<1>1. CASE asg[k] = n
  BY <1>1, RemovalKeeps DEF Release
<1>2. CASE asg[k] # n
  BY <1>2, UntouchedKeeps DEF Release
<1> QED
  BY <1>1, <1>2

\* Drop (Members' clean-up, RemoveInstance) leaves the assignments, which become
\* uncounted.
LEMMA DropKeeps ==
    ASSUME StoreInv, NEW ns, Drop(ns)
    PROVE  StoreInv'
<1>1. StoreTypes'
  BY DEF Drop, StoreInv, StoreTypes
<1>2. AssignmentCounted'
  BY DEF Drop, StoreInv, StoreTypes, AssignmentCounted
<1> QED
  BY <1>1, <1>2 DEF StoreInv

\* Renew (renewClusterScopeLua) counts again what is still assigned to the node.
LEMMA RenewKeeps ==
    ASSUME StoreInv, NEW n \in Nodes, NEW ks \in SUBSET Scopes, Renew(n, ks), asg' = asg
    PROVE  StoreInv'
<1>1. StoreTypes'
  BY DEF Renew, StoreInv, StoreTypes
<1>2. AssignmentCounted'
  BY SMT DEF Renew, StoreInv, StoreTypes, AssignmentCounted
<1> QED
  BY <1>1, <1>2 DEF StoreInv

\* Store calls that were refused or not carried out leave the store alone.
LEMMA StoreUntouched ==
    ASSUME StoreInv, UNCHANGED storeVars
    PROVE  StoreInv'
BY UntouchedKeeps DEF storeVars

\* Every step of the system keeps the two records in agreement, and leaves the
\* submissions what they carry.
LEMMA StepKeeps ==
    ASSUME StoreInv, KeyInv, [Next]_vars
    PROVE  StoreInv' /\ KeyInv'
<1>1. CASE UNCHANGED vars
  BY <1>1, StoreUntouched DEF vars, requestVars, KeyInv
<1>2. ASSUME NEW s \in Subs, Sender(s) PROVE StoreInv' /\ KeyInv'
  <2>0. Key(s) \in Scopes
    BY ClusterAssumption DEF Key, KeyInv
  <2>1. CASE Resolve(s)
    <3> DEFINE ranked == rankedOwners(sub[s].at, Key(s), sub[s].tried)
    <3>1. JobOf' = JobOf
      BY <2>1 DEF Resolve
    <3>2. Assign(Key(s), ranked) \/ UNCHANGED storeVars
      BY <2>1 DEF Resolve, Call
    <3> HIDE DEF ranked
    <3>3. StoreInv'
      BY <3>2, <2>0, AssignKeeps, StoreUntouched
    <3> QED
      BY <3>1, <3>3 DEF KeyInv
  <2>2. CASE MarkUnavailable(s)
    <3>1. JobOf' = JobOf
      BY <2>2 DEF MarkUnavailable
    <3>2. Release(Key(s), sub[s].to) \/ UNCHANGED <<asg, zset, uncounted>>
      BY <2>2 DEF MarkUnavailable, CallRelease
    <3>3. StoreInv'
      BY <3>2, <2>0, ReleaseKeeps, UntouchedKeeps
    <3> QED
      BY <3>1, <3>3 DEF KeyInv
  <2>3. CASE Unrouted(s) \/ Relay(s)
    BY <2>3, StoreUntouched DEF Unrouted, Relay, KeyInv
  <2> QED
    BY <1>2, <2>1, <2>2, <2>3 DEF Sender
<1>3. ASSUME NEW s \in Subs, NotDelivered(s) \/ ForwardTimeout(s) \/ CallerLeaves(s)
      PROVE  StoreInv' /\ KeyInv'
  BY <1>3, StoreUntouched DEF NotDelivered, ForwardTimeout, CallerLeaves, KeyInv
<1>4. ASSUME NEW s \in Subs, NEW n \in Nodes,
             Submit(s, n) \/ Handler(s, n) \/ Vanish(s, n)
      PROVE  StoreInv' /\ KeyInv'
  <2>1. UNCHANGED storeVars /\ JobOf' = JobOf
    BY <1>4 DEF Submit, Handler, Vanish, Arrive, Track, Admit, Reject, Finish
  <2> QED
    BY <2>1, StoreUntouched DEF KeyInv
<1>5. ASSUME NEW n \in Nodes, Sync(n) PROVE StoreInv' /\ KeyInv'
  <2>1. JobOf' = JobOf
    BY <1>5 DEF Sync, SyncState, SyncClean, HandOff, ReleaseIdle, requestVars
  <2>2. CASE SyncState(n)
    <3> DEFINE renewed == {k \in Scopes : age[n][k] # Gone /\ ~IsIdle(n, k)}
    <3>1. asg' = asg /\ (Renew(n, renewed) \/ UNCHANGED <<zset, uncounted>>)
      BY <2>2 DEF SyncState
    <3>2. renewed \in SUBSET Scopes
      OBVIOUS
    <3> HIDE DEF renewed
    <3> QED
      BY <2>1, <3>1, <3>2, RenewKeeps, UntouchedKeeps DEF KeyInv
  <2>3. CASE SyncClean(n)
    BY <2>1, <2>3, DropKeeps DEF SyncClean, KeyInv
  <2>4. CASE HandOff(n)
    <3>1. Release(sync[n].idle[1], n) \/ UNCHANGED <<asg, zset, uncounted>>
      BY <2>4 DEF HandOff, CallRelease, storeVars
    <3> QED
      BY <2>1, <3>1, ReleaseKeeps, UntouchedKeeps DEF KeyInv
  <2>5. ASSUME NEW k \in Scopes, ReleaseIdle(n, k) PROVE StoreInv' /\ KeyInv'
    <3>1. Release(k, n) \/ UNCHANGED <<asg, zset, uncounted>>
      BY <2>5 DEF ReleaseIdle, CallRelease
    <3> QED
      BY <2>1, <3>1, ReleaseKeeps, UntouchedKeeps DEF KeyInv
  <2> QED
    BY <1>5, <2>2, <2>3, <2>4, <2>5 DEF Sync
<1>6. ASSUME NEW n \in Nodes, BeginDrain(n) \/ SetState(n) \/ InstanceExpires(n)
      PROVE  StoreInv' /\ KeyInv'
  <2>1. UNCHANGED <<asg, zset, uncounted>> /\ JobOf' = JobOf
    BY <1>6 DEF BeginDrain, SetState, InstanceExpires, Call, storeVars, requestVars
  <2> QED
    BY <2>1, UntouchedKeeps DEF KeyInv
<1>7. ASSUME NEW n \in Nodes, Close(n) PROVE StoreInv' /\ KeyInv'
  <2>1. Drop({n}) /\ JobOf' = JobOf
    BY <1>7 DEF Close, RemoveInstance, requestVars
  <2> QED
    BY <2>1, DropKeeps DEF KeyInv
<1>8. ASSUME NEW n \in Nodes,
             \/ \E j \in Jobs : JobDone(n, j)
             \/ \E k \in Scopes : Grow(n, k)
             \/ \E m \in Nodes : Unprune(n, m)
      PROVE  StoreInv' /\ KeyInv'
  <2>1. UNCHANGED storeVars /\ JobOf' = JobOf
    BY <1>8 DEF JobDone, Grow, Unprune, requestVars
  <2> QED
    BY <2>1, StoreUntouched DEF KeyInv
<1>9. ASSUME NEW k \in Scopes, AssignmentExpires(k) PROVE StoreInv' /\ KeyInv'
  <2>1. JobOf' = JobOf
    BY <1>9 DEF AssignmentExpires, requestVars
  <2> QED
    BY <1>9, <2>1, RemovalKeeps DEF AssignmentExpires, KeyInv
<1>10. ASSUME NEW k \in Scopes, NEW n \in Nodes, LateRelease(k, n) PROVE StoreInv' /\ KeyInv'
  BY <1>10, ReleaseKeeps DEF LateRelease, requestVars, KeyInv
<1> QED
  BY <1>1, <1>2, <1>3, <1>4, <1>5, <1>6, <1>7, <1>8, <1>9, <1>10 DEF Next

\* Nothing is assigned yet.
LEMMA StoreStart == Init => StoreInv /\ KeyInv
  BY SMT, ClusterAssumption DEF Init, StoreInv, StoreTypes, AssignmentCounted, KeyInv

\* Whatever the cluster, the scopes and the faults: a node is charged in Valkey
\* for a scope only while the scope is assigned to it, and for every one of
\* those but the ones whose count was wiped with an instance taken for dead.
THEOREM AssignmentsAgree == Spec => []AssignmentCounted
<1>1. StoreInv /\ KeyInv /\ [Next]_vars => (StoreInv /\ KeyInv)'
  BY StepKeeps
<1>2. StoreInv => AssignmentCounted
  BY DEF StoreInv
<1> QED
  BY <1>1, <1>2, StoreStart, PTL DEF Spec

-----------------------------------------------------------------------------
(* Submissions: where the handlers of one submission can be. *)

HandStates == {"none", "flight", "handle", "tracked", "decided", "ok", "drain"}
Routing == {"route", "wait", "mark"}

\* The record of a submission that is routed has all of its fields.
SubRecord(s) ==
    /\ sub[s].pc \in Routing \cup {"new", "local", "answered"}
    /\ sub[s].pc \in Routing =>
          sub[s] = [pc |-> sub[s].pc, at |-> sub[s].at, to |-> sub[s].to,
                    tried |-> sub[s].tried, left |-> sub[s].left]

\* What the nodes keep; the registry holds only jobs the node's store knows.
NodeTypes ==
    /\ JobOf \in [Subs -> Jobs]
    /\ held \in [Nodes -> SUBSET Jobs]
    /\ seen \in [Nodes -> SUBSET Jobs]
    /\ took \in [Subs -> SUBSET Nodes]
    /\ gone \in SUBSET Subs
    /\ out \in [Nodes -> [Scopes -> Nat]]
    /\ age \in [Nodes -> [Scopes -> {Fresh, Rested, Idle, Gone}]]
    /\ \A n \in Nodes : held[n] \subseteq seen[n]

RequestTypes ==
    /\ NodeTypes
    /\ hand \in [Subs -> [Nodes -> HandStates]]
    /\ sub = [s \in Subs |-> sub[s]]
    /\ \A s \in Subs : SubRecord(s)

\* The nodes a submission is at.  It is at none while its sender looks for an
\* owner, and at one from then on, unless its caller has left; it is never back
\* at the node that forwards it.
AtOneNode(s) ==
    /\ sub[s].pc \in {"new", "wait"} => s \notin gone
    /\ sub[s].pc \in {"route", "mark"} => \A n \in Nodes : n = sub[s].at => hand[s][n] = "none"
    /\ sub[s].pc = "wait" =>
          sub[s].to # sub[s].at /\ \A n \in Nodes : n # sub[s].to => hand[s][n] = "none"
    /\ sub[s].pc = "local" =>
          \A n \in Nodes : n = sub[s].at => hand[s][n] \in {"handle", "tracked", "decided"}
    /\ s \notin gone =>
          /\ \A n, m \in Nodes : n # m /\ hand[s][n] # "none" => hand[s][m] = "none"
          /\ sub[s].pc \in {"new", "route", "mark"} =>
                took[s] = {} /\ \A n \in Nodes : hand[s][n] = "none"

\* A submission that is not admitted yet, or was turned away, has been accepted
\* by nobody.
AcceptedLate(s) ==
    s \notin gone =>
        /\ (\E n \in Nodes : hand[s][n] \in {"flight", "handle", "tracked", "drain"}) => took[s] = {}
        /\ \A n, m \in took[s] : n = m

RequestInv == RequestTypes /\ \A s \in Subs : AtOneNode(s) /\ AcceptedLate(s)

\* A submission that is routed goes from one step of its sender to another.
LEMMA SenderStep ==
    ASSUME RequestTypes, NEW s \in Subs, sub[s].pc \in Routing, NEW p \in Routing,
           sub' = [sub EXCEPT ![s].pc = p]
    PROVE  /\ sub' = [x \in Subs |-> sub'[x]]
           /\ sub'[s] = [pc |-> p, at |-> sub[s].at, to |-> sub[s].to,
                         tried |-> sub[s].tried, left |-> sub[s].left]
           /\ \A x \in Subs \ {s} : sub'[x] = sub[x]
<1> DEFINE r == [pc |-> sub[s].pc, at |-> sub[s].at, to |-> sub[s].to,
                 tried |-> sub[s].tried, left |-> sub[s].left]
<1>1. sub[s] = r /\ sub = [x \in Subs |-> sub[x]]
  BY Zenon DEF RequestTypes, SubRecord
<1>2. sub' = [sub EXCEPT ![s] = [sub[s] EXCEPT !.pc = p]]
  OBVIOUS
<1>3. [r EXCEPT !.pc = p] = [pc |-> p, at |-> sub[s].at, to |-> sub[s].to,
                             tried |-> sub[s].tried, left |-> sub[s].left]
  BY SMT
<1>4. [sub[s] EXCEPT !.pc = p] = [r EXCEPT !.pc = p]
  BY <1>1, Zenon
<1> HIDE DEF r
<1> QED
  BY <1>1, <1>2, <1>3, <1>4

\* Any other change of one submission's record.
LEMMA SubSet ==
    ASSUME RequestTypes, NEW s \in Subs, NEW r, sub' = [sub EXCEPT ![s] = r]
    PROVE  /\ sub' = [x \in Subs |-> sub'[x]]
           /\ sub'[s] = r
           /\ \A x \in Subs \ {s} : sub'[x] = sub[x]
  BY DEF RequestTypes

\* One handler's place changes.
LEMMA HandSet ==
    ASSUME RequestTypes, NEW s \in Subs, NEW n, NEW h \in HandStates,
           hand' = [hand EXCEPT ![s][n] = h]
    PROVE  /\ hand' \in [Subs -> [Nodes -> HandStates]]
           /\ \A m \in Nodes : hand'[s][m] = IF m = n THEN h ELSE hand[s][m]
           /\ \A x \in Subs \ {s} : hand'[x] = hand[x]
  BY DEF RequestTypes

\* What a step on one submission has to keep, once the others are left alone.
LEMMA OthersKeep ==
    ASSUME RequestInv, NEW s \in Subs,
           sub' = [x \in Subs |-> sub'[x]], hand' \in [Subs -> [Nodes -> HandStates]], NodeTypes',
           SubRecord(s)', AtOneNode(s)', AcceptedLate(s)',
           \A x \in Subs \ {s} : /\ sub'[x] = sub[x] /\ hand'[x] = hand[x] /\ took'[x] = took[x]
                                 /\ x \in gone' <=> x \in gone
    PROVE  RequestInv'
<1>1. ASSUME NEW x \in Subs \ {s} PROVE AtOneNode(x)'
  BY SMT, <1>1 DEF RequestInv, AtOneNode
<1>2. ASSUME NEW x \in Subs \ {s} PROVE AcceptedLate(x)'
  BY <1>2 DEF RequestInv, AcceptedLate
<1>3. ASSUME NEW x \in Subs \ {s} PROVE SubRecord(x)'
  BY <1>3 DEF RequestInv, RequestTypes, SubRecord
<1>4. \A x \in Subs : SubRecord(x)' /\ AtOneNode(x)' /\ AcceptedLate(x)'
  BY <1>1, <1>2, <1>3
<1> QED
  BY <1>4 DEF RequestInv, RequestTypes

\* The counters keep their types.
LEMMA TrackType ==
    ASSUME RequestTypes, NEW n \in Nodes, NEW k \in Scopes \cup {None}, TrackLocalJob(n, k)
    PROVE  /\ out' \in [Nodes -> [Scopes -> Nat]]
           /\ age' \in [Nodes -> [Scopes -> {Fresh, Rested, Idle, Gone}]]
<1>1. CASE k = None
  BY <1>1 DEF TrackLocalJob, RequestTypes, NodeTypes
<1>2. CASE k # None
  <2>1. k \in Scopes /\ out' = [out EXCEPT ![n][k] = @ + 1]
    BY <1>2 DEF TrackLocalJob
  <2>2. age' = [age EXCEPT ![n][k] = Fresh]
    BY <1>2 DEF TrackLocalJob, Touch
  <2>3. out' \in [Nodes -> [Scopes -> Nat]]
    BY SMT, <2>1 DEF RequestTypes, NodeTypes
  <2>4. age' \in [Nodes -> [Scopes -> {Fresh, Rested, Idle, Gone}]]
    BY <2>1, <2>2 DEF RequestTypes, NodeTypes
  <2> QED
    BY <2>3, <2>4
<1> QED
  BY <1>1, <1>2

\* So do they when work ends.
LEMMA CompleteType ==
    ASSUME RequestTypes, NEW n \in Nodes, NEW k \in Scopes \cup {None}, CompleteLocalJob(n, k)
    PROVE  /\ out' \in [Nodes -> [Scopes -> Nat]]
           /\ age' \in [Nodes -> [Scopes -> {Fresh, Rested, Idle, Gone}]]
<1>1. CASE k = None \/ age[n][k] = Gone
  BY <1>1 DEF CompleteLocalJob, RequestTypes, NodeTypes
<1>2. CASE ~(k = None \/ age[n][k] = Gone)
  <2>1. k \in Scopes /\ out' = [out EXCEPT ![n][k] = IF @ > 0 THEN @ - 1 ELSE 0]
    BY <1>2 DEF CompleteLocalJob
  <2>2. age' = [age EXCEPT ![n][k] = Fresh]
    BY <1>2 DEF CompleteLocalJob, Touch
  <2>3. out' \in [Nodes -> [Scopes -> Nat]]
    BY SMT, <2>1 DEF RequestTypes, NodeTypes
  <2>4. age' \in [Nodes -> [Scopes -> {Fresh, Rested, Idle, Gone}]]
    BY <2>1, <2>2 DEF RequestTypes, NodeTypes
  <2> QED
    BY <2>3, <2>4
<1> QED
  BY <1>1, <1>2

\* The steps of a sender on its submission keep what is known of it.
LEMMA SenderKeeps ==
    ASSUME RequestInv, NEW s \in Subs,
           \/ Sender(s) \/ NotDelivered(s) \/ ForwardTimeout(s) \/ CallerLeaves(s)
           \/ \E n \in Nodes : Submit(s, n)
    PROVE  RequestInv'
<1>r. RequestTypes
  BY DEF RequestInv
<1>t. /\ RequestTypes /\ NodeTypes /\ SubRecord(s) /\ AtOneNode(s) /\ AcceptedLate(s)
      /\ hand \in [Subs -> [Nodes -> HandStates]] /\ sub = [x \in Subs |-> sub[x]]
  BY DEF RequestInv, RequestTypes
<1>1. ASSUME NEW n \in Nodes, Submit(s, n) PROVE RequestInv'
  <2>1. NodeTypes' /\ took' = took /\ gone' = gone
    BY <1>t, <1>1 DEF Submit, routerVars, NodeTypes
  <2>2. CASE Len(rankedOwners(n, Key(s), {})) = 0
    <3>1. sub' = [sub EXCEPT ![s] = Local(n)] /\ hand' = [hand EXCEPT ![s][n] = "handle"]
      BY <1>1, <2>2 DEF Submit
    <3>2. /\ sub' = [x \in Subs |-> sub'[x]] /\ sub'[s] = Local(n)
          /\ \A x \in Subs \ {s} : sub'[x] = sub[x]
      BY <1>t, <3>1, SubSet
    <3>3. /\ hand' \in [Subs -> [Nodes -> HandStates]]
          /\ \A m \in Nodes : hand'[s][m] = IF m = n THEN "handle" ELSE hand[s][m]
          /\ \A x \in Subs \ {s} : hand'[x] = hand[x]
      BY <1>r, <3>1, HandSet DEF HandStates
    <3>4. sub[s].pc = "new"
      BY <1>1 DEF Submit
    <3>5. SubRecord(s)'
      BY SMT, <3>2 DEF SubRecord, Local, Routing
    <3>6. AtOneNode(s)' /\ AcceptedLate(s)'
      BY SMT, <1>t, <2>1, <3>2, <3>3, <3>4 DEF AtOneNode, AcceptedLate, Local
    <3> QED
      BY <2>1, <3>2, <3>3, <3>5, <3>6, OthersKeep
  <2>3. CASE Len(rankedOwners(n, Key(s), {})) # 0
    <3> DEFINE r == [pc |-> "route", at |-> n, to |-> None,
                     tried |-> {}, left |-> Len(rankedOwners(n, Key(s), {})) + 1]
    <3>1. sub' = [sub EXCEPT ![s] = r] /\ hand' = hand /\ sub[s].pc = "new"
      BY <1>1, <2>3 DEF Submit
    <3>2. /\ sub' = [x \in Subs |-> sub'[x]] /\ sub'[s] = r
          /\ \A x \in Subs \ {s} : sub'[x] = sub[x]
      BY <1>t, <3>1, SubSet
    <3>5. SubRecord(s)'
      BY SMT, <3>2 DEF SubRecord, Routing
    <3>6. AtOneNode(s)' /\ AcceptedLate(s)'
      BY <1>t, <2>1, <3>1, <3>2 DEF AtOneNode, AcceptedLate
    <3> QED
      BY <1>t, <2>1, <3>1, <3>2, <3>5, <3>6, OthersKeep
  <2> QED
    BY <2>2, <2>3
<1>2. CASE Resolve(s)
  <2> DEFINE n == sub[s].at
             ranked == rankedOwners(n, Key(s), sub[s].tried)
  <2>1. /\ sub[s].pc = "route"
        /\ UNCHANGED <<JobOf, out, held, seen, gone, took>>
        /\ age' = age \/ Touch(n, Key(s))
    BY <1>2 DEF Resolve
  <2>2. PICK o \in Outcomes :
             LET owner == ResolveOwner(Key(s), ranked, o)
                 keep == owner = n /\ ~isDraining(n)
             IN  /\ sub' = IF keep THEN [sub EXCEPT ![s] = Local(n)]
                           ELSE [sub EXCEPT ![s] =
                                   [pc |-> IF owner = n \/ s \in gone THEN "mark" ELSE "wait",
                                    at |-> n, to |-> owner, tried |-> sub[s].tried \cup {owner},
                                    left |-> sub[s].left - 1]]
                 /\ hand' = IF keep THEN [hand EXCEPT ![s][n] = "handle"]
                            ELSE IF owner = n \/ s \in gone THEN hand
                            ELSE [hand EXCEPT ![s][owner] = "flight"]
    BY <1>2 DEF Resolve
  <2> DEFINE owner == ResolveOwner(Key(s), ranked, o)
  <2>3. NodeTypes'
    <3> HIDE DEF n
    <3>1. age' \in [Nodes -> [Scopes -> {Fresh, Rested, Idle, Gone}]]
      <4>1. CASE age' = age
        BY <1>t, <4>1 DEF NodeTypes
      <4>2. CASE age' = [age EXCEPT ![n][Key(s)] = Fresh]
        BY <1>t, <4>2 DEF NodeTypes
      <4> QED
        BY <2>1, <4>1, <4>2 DEF Touch
    <3> QED
      BY <1>t, <2>1, <3>1 DEF NodeTypes
  <2> HIDE DEF ranked
  <2>4. CASE owner = n /\ ~isDraining(n)
    <3>1. sub' = [sub EXCEPT ![s] = Local(n)] /\ hand' = [hand EXCEPT ![s][n] = "handle"]
      BY <2>2, <2>4
    <3>2. /\ sub' = [x \in Subs |-> sub'[x]] /\ sub'[s] = Local(n)
          /\ \A x \in Subs \ {s} : sub'[x] = sub[x]
      BY <1>t, <3>1, SubSet
    <3>3. /\ hand' \in [Subs -> [Nodes -> HandStates]]
          /\ \A m \in Nodes : hand'[s][m] = IF m = n THEN "handle" ELSE hand[s][m]
          /\ \A x \in Subs \ {s} : hand'[x] = hand[x]
      BY <1>r, <3>1, HandSet DEF HandStates
    <3>5. SubRecord(s)'
      BY SMT, <3>2 DEF SubRecord, Local, Routing
    <3>6. AtOneNode(s)' /\ AcceptedLate(s)'
      BY SMT, <1>t, <2>1, <3>2, <3>3 DEF AtOneNode, AcceptedLate, Local
    <3> QED
      BY <2>1, <2>3, <3>2, <3>3, <3>5, <3>6, OthersKeep
  <2>5. CASE ~(owner = n /\ ~isDraining(n)) /\ (owner = n \/ s \in gone)
    <3> DEFINE r == [pc |-> "mark", at |-> n, to |-> owner, tried |-> sub[s].tried \cup {owner},
                     left |-> sub[s].left - 1]
    <3>1. sub' = [sub EXCEPT ![s] = r] /\ hand' = hand
      BY <2>2, <2>5
    <3> HIDE DEF owner
    <3>2. /\ sub' = [x \in Subs |-> sub'[x]] /\ sub'[s] = r
          /\ \A x \in Subs \ {s} : sub'[x] = sub[x]
      BY <1>t, <3>1, SubSet
    <3>5. SubRecord(s)'
      BY SMT, <3>2 DEF SubRecord, Routing
    <3>6. AtOneNode(s)' /\ AcceptedLate(s)'
      BY <1>t, <2>1, <3>1, <3>2 DEF AtOneNode, AcceptedLate
    <3> QED
      BY <1>t, <2>1, <2>3, <3>1, <3>2, <3>5, <3>6, OthersKeep
  <2>6. CASE owner # n /\ s \notin gone
    <3> DEFINE r == [pc |-> "wait", at |-> n, to |-> owner, tried |-> sub[s].tried \cup {owner},
                     left |-> sub[s].left - 1]
    <3>1. sub' = [sub EXCEPT ![s] = r] /\ hand' = [hand EXCEPT ![s][owner] = "flight"]
      BY <2>2, <2>6
    <3>0. owner # n
      BY <2>6
    <3> HIDE DEF owner
    <3>2. /\ sub' = [x \in Subs |-> sub'[x]] /\ sub'[s] = r
          /\ \A x \in Subs \ {s} : sub'[x] = sub[x]
      BY <1>t, <3>1, SubSet
    <3>3. /\ hand' \in [Subs -> [Nodes -> HandStates]]
          /\ \A m \in Nodes : hand'[s][m] = IF m = owner THEN "flight" ELSE hand[s][m]
          /\ \A x \in Subs \ {s} : hand'[x] = hand[x]
      BY <1>r, <3>1, HandSet DEF HandStates
    <3>5. SubRecord(s)'
      BY SMT, <3>2 DEF SubRecord, Routing
    <3>6. AtOneNode(s)' /\ AcceptedLate(s)'
      BY SMT, <1>t, <2>1, <2>6, <3>0, <3>2, <3>3 DEF AtOneNode, AcceptedLate
    <3> QED
      BY <2>1, <2>3, <3>2, <3>3, <3>5, <3>6, OthersKeep
  <2> QED
    BY <2>4, <2>5, <2>6
<1>3. CASE Unrouted(s) \/ ForwardTimeout(s)
  <2>1. /\ NodeTypes' /\ hand' = hand /\ took' = took /\ gone' = gone
        /\ sub' = [sub EXCEPT ![s] = Ended]
    BY <1>t, <1>3 DEF Unrouted, ForwardTimeout, routerVars, NodeTypes
  <2>2. /\ sub' = [x \in Subs |-> sub'[x]] /\ sub'[s] = Ended
        /\ \A x \in Subs \ {s} : sub'[x] = sub[x]
    BY <1>t, <2>1, SubSet
  <2>3. SubRecord(s)' /\ AtOneNode(s)' /\ AcceptedLate(s)'
    BY <1>t, <2>1, <2>2 DEF SubRecord, AtOneNode, AcceptedLate, Ended, Routing
  <2> QED
    BY <1>t, <2>1, <2>2, <2>3, OthersKeep
<1>4. CASE MarkUnavailable(s)
  <2>1. /\ NodeTypes' /\ hand' = hand /\ took' = took /\ gone' = gone
        /\ sub' = [sub EXCEPT ![s].pc = "route"] /\ sub[s].pc = "mark"
    BY <1>t, <1>4 DEF MarkUnavailable, NodeTypes
  <2>2. /\ sub' = [x \in Subs |-> sub'[x]]
        /\ sub'[s] = [pc |-> "route", at |-> sub[s].at, to |-> sub[s].to,
                      tried |-> sub[s].tried, left |-> sub[s].left]
        /\ \A x \in Subs \ {s} : sub'[x] = sub[x]
    BY <1>t, <2>1, SenderStep DEF Routing
  <2>3. SubRecord(s)' /\ AtOneNode(s)' /\ AcceptedLate(s)'
    BY <1>t, <2>1, <2>2 DEF SubRecord, AtOneNode, AcceptedLate, Routing
  <2> QED
    BY <1>t, <2>1, <2>2, <2>3, OthersKeep
<1>5. CASE CallerLeaves(s)
  <2>1. /\ NodeTypes' /\ hand' = hand /\ took' = took /\ gone' = gone \cup {s}
        /\ sub' = [sub EXCEPT ![s].pc = "mark"] /\ sub[s].pc = "wait"
    BY <1>t, <1>5 DEF CallerLeaves, routerVars, NodeTypes
  <2>2. /\ sub' = [x \in Subs |-> sub'[x]]
        /\ sub'[s] = [pc |-> "mark", at |-> sub[s].at, to |-> sub[s].to,
                      tried |-> sub[s].tried, left |-> sub[s].left]
        /\ \A x \in Subs \ {s} : sub'[x] = sub[x]
    BY <1>t, <2>1, SenderStep DEF Routing
  <2>3. SubRecord(s)' /\ AtOneNode(s)' /\ AcceptedLate(s)'
    BY <1>t, <2>1, <2>2 DEF SubRecord, AtOneNode, AcceptedLate, Routing
  <2> QED
    BY <1>t, <2>1, <2>2, <2>3, OthersKeep
<1>6. CASE NotDelivered(s) \/ (Relay(s) /\ hand[s][sub[s].to] = "drain")
  <2>1. /\ NodeTypes' /\ took' = took /\ gone' = gone
        /\ hand' = [hand EXCEPT ![s][sub[s].to] = "none"]
        /\ sub' = [sub EXCEPT ![s].pc = "mark"] /\ sub[s].pc = "wait"
        /\ hand[s][sub[s].to] \in {"flight", "drain"}
    BY <1>t, <1>6 DEF NotDelivered, Relay, routerVars, NodeTypes
  <2>2. /\ sub' = [x \in Subs |-> sub'[x]]
        /\ sub'[s] = [pc |-> "mark", at |-> sub[s].at, to |-> sub[s].to,
                      tried |-> sub[s].tried, left |-> sub[s].left]
        /\ \A x \in Subs \ {s} : sub'[x] = sub[x]
    BY <1>t, <2>1, SenderStep DEF Routing
  <2>3. /\ hand' \in [Subs -> [Nodes -> HandStates]]
        /\ \A m \in Nodes : hand'[s][m] = IF m = sub[s].to THEN "none" ELSE hand[s][m]
        /\ \A x \in Subs \ {s} : hand'[x] = hand[x]
    BY <1>r, <2>1, HandSet DEF HandStates
  <2>4. SubRecord(s)'
    BY SMT, <2>2 DEF SubRecord, Routing
  <2>5. AtOneNode(s)' /\ AcceptedLate(s)'
    BY SMT, <1>t, <2>1, <2>2, <2>3 DEF AtOneNode, AcceptedLate
  <2> QED
    BY <2>1, <2>2, <2>3, <2>4, <2>5, OthersKeep
<1>7. CASE Relay(s) /\ hand[s][sub[s].to] # "drain"
  <2>1. /\ NodeTypes' /\ took' = took /\ gone' = gone
        /\ hand' = [hand EXCEPT ![s][sub[s].to] = "none"]
        /\ sub' = [sub EXCEPT ![s] = Ended]
    BY <1>t, <1>7 DEF Relay, routerVars, NodeTypes
  <2>2. /\ sub' = [x \in Subs |-> sub'[x]] /\ sub'[s] = Ended
        /\ \A x \in Subs \ {s} : sub'[x] = sub[x]
    BY <1>t, <2>1, SubSet
  <2>3. /\ hand' \in [Subs -> [Nodes -> HandStates]]
        /\ \A m \in Nodes : hand'[s][m] = IF m = sub[s].to THEN "none" ELSE hand[s][m]
        /\ \A x \in Subs \ {s} : hand'[x] = hand[x]
    BY <1>r, <2>1, HandSet DEF HandStates
  <2>4. SubRecord(s)'
    BY SMT, <2>2 DEF SubRecord, Ended, Routing
  <2>5. AtOneNode(s)'
    BY SMT, <1>t, <2>1, <2>2, <2>3 DEF AtOneNode, Ended
  <2>6. AcceptedLate(s)'
    BY <1>t, <2>1, <2>2, <2>3 DEF AcceptedLate, Ended
  <2> QED
    BY <2>1, <2>2, <2>3, <2>4, <2>5, <2>6, OthersKeep
<1> QED
  BY <1>1, <1>2, <1>3, <1>4, <1>5, <1>6, <1>7 DEF Sender

\* The handler returns to the node's own caller, to the sender that waits for
\* it, or to nobody.
LEMMA ReturnKeeps ==
    ASSUME RequestInv, NEW s \in Subs, NEW n \in Nodes, NEW answer \in {"ok", "drain"},
           hand[s][n] \in Counted, answer = "drain" => hand[s][n] = "tracked",
           Return(s, n, answer), UNCHANGED <<JobOf, held, seen, gone, took>>
    PROVE  RequestInv'
<1>r. RequestTypes
  BY DEF RequestInv
<1>t. /\ RequestTypes /\ NodeTypes /\ SubRecord(s) /\ AtOneNode(s) /\ AcceptedLate(s)
      /\ hand \in [Subs -> [Nodes -> HandStates]] /\ sub = [x \in Subs |-> sub[x]]
  BY DEF RequestInv, RequestTypes
<1>1. NodeTypes'
  <2>1. Key(s) \in Scopes
    BY <1>t, ClusterAssumption DEF Key, NodeTypes
  <2>2. /\ out' \in [Nodes -> [Scopes -> Nat]]
        /\ age' \in [Nodes -> [Scopes -> {Fresh, Rested, Idle, Gone}]]
    BY <1>t, <2>1, CompleteType DEF Return
  <2> QED
    BY <1>t, <2>2 DEF NodeTypes
<1> DEFINE h == IF sub[s].pc = "wait" /\ sub[s].to = n THEN answer ELSE "none"
<1>2. hand' = [hand EXCEPT ![s][n] = h] /\ h \in HandStates
  BY DEF Return, HandStates
<1>3. /\ hand' \in [Subs -> [Nodes -> HandStates]]
      /\ \A m \in Nodes : hand'[s][m] = IF m = n THEN h ELSE hand[s][m]
      /\ \A x \in Subs \ {s} : hand'[x] = hand[x]
  <2> HIDE DEF h
  <2> QED
    BY <1>r, <1>2, HandSet
<1>4. CASE IsLocal(s, n)
  <2>1. sub' = [sub EXCEPT ![s] = Ended]
    BY <1>4 DEF Return
  <2>2. /\ sub' = [x \in Subs |-> sub'[x]] /\ sub'[s] = Ended
        /\ \A x \in Subs \ {s} : sub'[x] = sub[x]
    BY <1>t, <2>1, SubSet
  <2>3. SubRecord(s)'
    BY SMT, <2>2 DEF SubRecord, Ended, Routing
  <2>4. AtOneNode(s)'
    BY SMT, <1>t, <1>3, <1>4, <2>2 DEF AtOneNode, IsLocal, Ended
  <2>5. AcceptedLate(s)'
    BY <1>t, <1>3, <1>4, <2>2 DEF AtOneNode, AcceptedLate, IsLocal, Ended
  <2> QED
    BY <1>1, <1>3, <2>2, <2>3, <2>4, <2>5, OthersKeep
<1>5. CASE ~IsLocal(s, n)
  <2>1. sub' = sub
    BY <1>5 DEF Return
  <2>2. SubRecord(s)'
    BY <1>t, <2>1 DEF SubRecord
  <2>3. AtOneNode(s)'
    BY SMT, <1>t, <1>3, <1>5, <2>1 DEF AtOneNode, IsLocal, Counted
  <2>4. AcceptedLate(s)'
    BY <1>t, <1>3, <1>5, <2>1 DEF AcceptedLate, AtOneNode, IsLocal, Counted
  <2> QED
    BY <1>t, <1>1, <1>3, <2>1, <2>2, <2>3, <2>4, OthersKeep
<1> QED
  BY <1>4, <1>5

\* So do the steps of the handlers.
LEMMA HandlerKeeps ==
    ASSUME RequestInv, NEW s \in Subs, NEW n \in Nodes, Handler(s, n) \/ Vanish(s, n)
    PROVE  RequestInv'
<1>r. RequestTypes
  BY DEF RequestInv
<1>t. /\ RequestTypes /\ NodeTypes /\ SubRecord(s) /\ AtOneNode(s) /\ AcceptedLate(s)
      /\ hand \in [Subs -> [Nodes -> HandStates]] /\ sub = [x \in Subs |-> sub[x]]
  BY DEF RequestInv, RequestTypes
<1>k. Key(s) \in Scopes /\ JobOf[s] \in Jobs /\ UserOf[JobOf[s]] \in Scopes \cup {None}
  BY <1>t, ClusterAssumption DEF Key, NodeTypes
<1>1. CASE Arrive(s, n) \/ Vanish(s, n)
  <2>1. /\ NodeTypes' /\ took' = took /\ gone' = gone /\ sub' = sub /\ hand[s][n] = "flight"
        /\ \/ hand' = [hand EXCEPT ![s][n] = "none"] /\ sub[s].pc # "wait"
           \/ hand' = [hand EXCEPT ![s][n] = "handle"]
    BY <1>t, <1>1 DEF Arrive, Vanish, routerVars, NodeTypes, ForwardExpired
  <2>2. PICK h \in {"none", "handle"} : /\ hand' = [hand EXCEPT ![s][n] = h]
                                        /\ h = "none" => sub[s].pc # "wait"
    BY <2>1
  <2>3. /\ hand' \in [Subs -> [Nodes -> HandStates]]
        /\ \A m \in Nodes : hand'[s][m] = IF m = n THEN h ELSE hand[s][m]
        /\ \A x \in Subs \ {s} : hand'[x] = hand[x]
    <3>1. h \in HandStates
      BY DEF HandStates
    <3> QED
      BY <1>r, <2>2, <3>1, HandSet
  <2>4. SubRecord(s)'
    BY <1>t, <2>1 DEF SubRecord
  <2>5. AtOneNode(s)'
    BY SMT, <1>t, <2>1, <2>2, <2>3 DEF AtOneNode
  <2>6. AcceptedLate(s)'
    BY <1>t, <2>1, <2>2, <2>3 DEF AcceptedLate
  <2> QED
    BY <1>t, <2>1, <2>3, <2>4, <2>5, <2>6, OthersKeep
<1>2. CASE Track(s, n)
  <2>1. /\ UNCHANGED <<JobOf, took, gone, sub, held, seen>>
        /\ TrackLocalJob(n, Key(s))
        /\ hand[s][n] = "handle" /\ hand' = [hand EXCEPT ![s][n] = "tracked"]
    BY <1>2 DEF Track
  <2>2. NodeTypes'
    <3>1. /\ out' \in [Nodes -> [Scopes -> Nat]]
          /\ age' \in [Nodes -> [Scopes -> {Fresh, Rested, Idle, Gone}]]
      BY <1>t, <1>k, <2>1, TrackType
    <3> QED
      BY <1>t, <2>1, <3>1 DEF NodeTypes
  <2>3. /\ hand' \in [Subs -> [Nodes -> HandStates]]
        /\ \A m \in Nodes : hand'[s][m] = IF m = n THEN "tracked" ELSE hand[s][m]
        /\ \A x \in Subs \ {s} : hand'[x] = hand[x]
    BY <1>r, <2>1, HandSet DEF HandStates
  <2>4. SubRecord(s)'
    BY <1>t, <2>1 DEF SubRecord
  <2>5. AtOneNode(s)'
    BY SMT, <1>t, <2>1, <2>3 DEF AtOneNode
  <2>6. AcceptedLate(s)'
    BY <1>t, <2>1, <2>3 DEF AcceptedLate
  <2> QED
    BY <1>t, <2>1, <2>2, <2>3, <2>4, <2>5, <2>6, OthersKeep
<1>3. CASE Admit(s, n) /\ isDraining(n)
  BY <1>3, ReturnKeeps DEF Admit, Counted
<1>4. CASE Admit(s, n) /\ ~isDraining(n)
  <2>1. /\ UNCHANGED <<JobOf, gone, sub>>
        /\ hand[s][n] = "tracked" /\ hand' = [hand EXCEPT ![s][n] = "decided"]
        /\ took' = [took EXCEPT ![s] = @ \cup {n}]
        /\ seen' = [seen EXCEPT ![n] = @ \cup {JobOf[s]}]
        /\ \/ UNCHANGED <<out, age, held>>
           \/ /\ TrackLocalJob(n, UserOf[JobOf[s]])
              /\ held' = [held EXCEPT ![n] = @ \cup {JobOf[s]}]
    BY <1>4 DEF Admit
  <2>2. /\ out' \in [Nodes -> [Scopes -> Nat]]
        /\ age' \in [Nodes -> [Scopes -> {Fresh, Rested, Idle, Gone}]]
    <3>1. CASE UNCHANGED <<out, age, held>>
      BY <1>t, <3>1 DEF NodeTypes
    <3>2. CASE TrackLocalJob(n, UserOf[JobOf[s]])
      BY <1>t, <1>k, <3>2, TrackType
    <3> QED
      BY <2>1, <3>1, <3>2
  <2>3. /\ seen' \in [Nodes -> SUBSET Jobs] /\ held' \in [Nodes -> SUBSET Jobs]
        /\ \A m \in Nodes : held'[m] \subseteq seen'[m]
    <3>1. /\ seen' \in [Nodes -> SUBSET Jobs]
          /\ \A m \in Nodes : seen'[m] = IF m = n THEN seen[m] \cup {JobOf[s]} ELSE seen[m]
      BY <1>t, <1>k, <2>1 DEF NodeTypes
    <3>2. CASE held' = held
      BY <1>t, <3>1, <3>2 DEF NodeTypes
    <3>3. CASE held' = [held EXCEPT ![n] = @ \cup {JobOf[s]}]
      <4>1. /\ held' \in [Nodes -> SUBSET Jobs]
            /\ \A m \in Nodes : held'[m] = IF m = n THEN held[m] \cup {JobOf[s]} ELSE held[m]
        BY <1>t, <1>k, <3>3 DEF NodeTypes
      <4> QED
        BY <1>t, <3>1, <4>1 DEF NodeTypes
    <3> QED
      BY <2>1, <3>2, <3>3
  <2>4. /\ took' \in [Subs -> SUBSET Nodes] /\ took'[s] = took[s] \cup {n}
        /\ \A x \in Subs \ {s} : took'[x] = took[x]
    BY <1>t, <2>1 DEF NodeTypes
  <2>5. NodeTypes'
    BY <1>t, <2>1, <2>2, <2>3, <2>4 DEF NodeTypes
  <2>6. /\ hand' \in [Subs -> [Nodes -> HandStates]]
        /\ \A m \in Nodes : hand'[s][m] = IF m = n THEN "decided" ELSE hand[s][m]
        /\ \A x \in Subs \ {s} : hand'[x] = hand[x]
    BY <1>r, <2>1, HandSet DEF HandStates
  <2>7. SubRecord(s)'
    BY <1>t, <2>1 DEF SubRecord
  <2>8. AtOneNode(s)'
    BY SMT, <1>t, <2>1, <2>4, <2>6 DEF AtOneNode
  <2>9. AcceptedLate(s)'
    <3> SUFFICES ASSUME s \notin gone' PROVE AcceptedLate(s)'
      BY DEF AcceptedLate
    <3>1. took[s] = {}
      BY <1>t, <2>1 DEF AcceptedLate
    <3>2. \A m \in Nodes : m # n => hand'[s][m] = "none"
      BY <1>t, <2>1, <2>6 DEF AtOneNode
    <3>3. \A m \in Nodes : hand'[s][m] \notin {"flight", "handle", "tracked", "drain"}
      BY <2>6, <3>2
    <3> QED
      BY <2>4, <3>1, <3>3 DEF AcceptedLate
  <2> QED
    BY <1>t, <2>1, <2>4, <2>5, <2>6, <2>7, <2>8, <2>9, OthersKeep
<1>5. CASE Finish(s, n)
  BY <1>5, ReturnKeeps DEF Finish, Counted
<1>6. CASE Reject(s, n)
  <2>1. /\ UNCHANGED <<JobOf, took, gone, sub, held, seen, out>>
        /\ age' = age \/ age' = [age EXCEPT ![n][UserOf[JobOf[s]]] = Fresh]
        /\ hand[s][n] = "tracked" /\ hand' = [hand EXCEPT ![s][n] = "decided"]
    BY <1>6 DEF Reject, Touch
  <2>2. NodeTypes'
    <3>1. age' \in [Nodes -> [Scopes -> {Fresh, Rested, Idle, Gone}]]
      <4> DEFINE u == UserOf[JobOf[s]]
      <4>1. CASE age' = age
        BY <1>t, <4>1 DEF NodeTypes
      <4>2. CASE age' = [age EXCEPT ![n][u] = Fresh]
        <5> HIDE DEF u
        <5> QED
          BY <1>t, <4>2 DEF NodeTypes
      <4> QED
        BY <2>1, <4>1, <4>2
    <3> QED
      BY <1>t, <2>1, <3>1 DEF NodeTypes
  <2>3. /\ hand' \in [Subs -> [Nodes -> HandStates]]
        /\ \A m \in Nodes : hand'[s][m] = IF m = n THEN "decided" ELSE hand[s][m]
        /\ \A x \in Subs \ {s} : hand'[x] = hand[x]
    BY <1>r, <2>1, HandSet DEF HandStates
  <2>4. SubRecord(s)'
    BY <1>t, <2>1 DEF SubRecord
  <2>5. AtOneNode(s)'
    BY SMT, <1>t, <2>1, <2>3 DEF AtOneNode
  <2>6. AcceptedLate(s)'
    BY <1>t, <2>1, <2>3 DEF AcceptedLate
  <2> QED
    BY <1>t, <2>1, <2>2, <2>3, <2>4, <2>5, <2>6, OthersKeep
<1> QED
  BY <1>1, <1>2, <1>3, <1>4, <1>5, <1>6 DEF Handler

\* The steps that concern no submission: what the nodes forget or count down.
LEMMA AsideKeeps ==
    ASSUME RequestInv, UNCHANGED <<sub, hand, took, gone>>, NodeTypes'
    PROVE  RequestInv'
<1>1. ASSUME NEW s \in Subs PROVE SubRecord(s)' /\ AtOneNode(s)' /\ AcceptedLate(s)'
  BY SMT, <1>1 DEF RequestInv, RequestTypes, SubRecord, AtOneNode, AcceptedLate
<1> QED
  BY <1>1 DEF RequestInv, RequestTypes

\* Every step keeps what is known of the submissions.
LEMMA RequestStep ==
    ASSUME RequestInv, [Next]_vars
    PROVE  RequestInv'
<1>t. NodeTypes
  BY DEF RequestInv, RequestTypes
<1>1. CASE UNCHANGED vars
  <2>1. UNCHANGED <<JobOf, sub, hand, held, seen, took, gone, out, age>>
    BY <1>1 DEF vars, requestVars, routerVars
  <2>2. NodeTypes'
    BY <1>t, <2>1 DEF NodeTypes
  <2> QED
    BY <2>1, <2>2, AsideKeeps
<1>2. ASSUME NEW n \in Nodes,
             \/ SyncState(n) \/ SyncClean(n) \/ BeginDrain(n) \/ SetState(n)
             \/ InstanceExpires(n) \/ (\E m \in Nodes : Unprune(n, m))
             \/ \E k \in Scopes : AssignmentExpires(k)
      PROVE  RequestInv'
  <2>1. UNCHANGED <<JobOf, sub, hand, held, seen, took, gone, out, age>>
    BY <1>2 DEF SyncState, SyncClean, BeginDrain, SetState, InstanceExpires, Unprune,
                AssignmentExpires, requestVars, routerVars
  <2>2. NodeTypes'
    BY <1>t, <2>1 DEF NodeTypes
  <2> QED
    BY <2>1, <2>2, AsideKeeps
<1>3. ASSUME NEW k \in Scopes, AssignmentExpires(k) \/ \E n \in Nodes : LateRelease(k, n)
      PROVE  RequestInv'
  <2>1. UNCHANGED <<JobOf, sub, hand, held, seen, took, gone, out, age>>
    BY <1>3 DEF AssignmentExpires, LateRelease, requestVars, routerVars
  <2>2. NodeTypes'
    BY <1>t, <2>1 DEF NodeTypes
  <2> QED
    BY <2>1, <2>2, AsideKeeps
<1>4. ASSUME NEW n \in Nodes,
             \/ HandOff(n) \/ Close(n)
             \/ \E k \in Scopes : ReleaseIdle(n, k) \/ Grow(n, k)
      PROVE  RequestInv'
  <2>1. /\ UNCHANGED <<JobOf, sub, hand, held, seen, took, gone, out>>
        /\ \/ age' = age
           \/ \E k : age' = [age EXCEPT ![n][k] = Gone]
           \/ \E k : age[n][k] \in {Fresh, Rested} /\ age' = [age EXCEPT ![n][k] = @ + 1]
           \/ age' = [age EXCEPT ![n] = [k \in Scopes |-> Gone]]
    <3>1. CASE HandOff(n)
      BY <3>1 DEF HandOff, Forget, requestVars
    <3>2. CASE Close(n)
      BY <3>2 DEF Close, requestVars
    <3>3. ASSUME NEW k \in Scopes, ReleaseIdle(n, k)
          PROVE  /\ UNCHANGED <<JobOf, sub, hand, held, seen, took, gone, out>>
                 /\ age' = [age EXCEPT ![n][k] = Gone]
      BY <3>3 DEF ReleaseIdle, Forget, requestVars
    <3>4. ASSUME NEW k \in Scopes, Grow(n, k)
          PROVE  /\ UNCHANGED <<JobOf, sub, hand, held, seen, took, gone, out>>
                 /\ age[n][k] \in {Fresh, Rested} /\ age' = [age EXCEPT ![n][k] = @ + 1]
      BY <3>4 DEF Grow, requestVars
    <3> QED
      BY SMT, <1>4, <3>1, <3>2, <3>3, <3>4
  <2>2. age' \in [Nodes -> [Scopes -> {Fresh, Rested, Idle, Gone}]]
    <3>1. CASE age' = age
      BY <1>t, <3>1 DEF NodeTypes
    <3>2. ASSUME NEW k, age' = [age EXCEPT ![n][k] = Gone]
          PROVE  age' \in [Nodes -> [Scopes -> {Fresh, Rested, Idle, Gone}]]
      BY <1>t, <3>2 DEF NodeTypes
    <3>3. ASSUME NEW k, age[n][k] \in {Fresh, Rested}, age' = [age EXCEPT ![n][k] = @ + 1]
          PROVE  age' \in [Nodes -> [Scopes -> {Fresh, Rested, Idle, Gone}]]
      <4> DEFINE a == age[n][k] + 1
      <4>1. a \in {Rested, Idle} /\ age' = [age EXCEPT ![n][k] = a]
        BY SMT, <3>3 DEF Fresh, Rested, Idle
      <4> HIDE DEF a
      <4> QED
        BY <1>t, <4>1 DEF NodeTypes
    <3>4. CASE age' = [age EXCEPT ![n] = [k \in Scopes |-> Gone]]
      BY <1>t, <3>4 DEF NodeTypes
    <3> QED
      BY SMT, <2>1, <3>1, <3>2, <3>3, <3>4
  <2>3. NodeTypes'
    BY <1>t, <2>1, <2>2 DEF NodeTypes
  <2> QED
    BY <2>1, <2>3, AsideKeeps
<1>5. ASSUME NEW n \in Nodes, NEW j \in Jobs, JobDone(n, j) PROVE RequestInv'
  <2>1. /\ UNCHANGED <<JobOf, sub, hand, seen, took, gone>>
        /\ held' = [held EXCEPT ![n] = @ \ {j}]
        /\ CompleteLocalJob(n, UserOf[j])
    BY <1>5 DEF JobDone
  <2>2. UserOf[j] \in Scopes \cup {None}
    BY ClusterAssumption
  <2>3. /\ out' \in [Nodes -> [Scopes -> Nat]]
        /\ age' \in [Nodes -> [Scopes -> {Fresh, Rested, Idle, Gone}]]
    BY <2>1, <2>2, CompleteType DEF RequestInv
  <2>4. NodeTypes'
    BY <1>t, <2>1, <2>3 DEF NodeTypes
  <2> QED
    BY <2>1, <2>4, AsideKeeps
<1> QED
  BY <1>1, <1>2, <1>3, <1>4, <1>5, SenderKeeps, HandlerKeeps DEF Next, Sync

\* Nothing has been submitted.
LEMMA RequestStart == Init => RequestInv
<1> SUFFICES ASSUME Init PROVE RequestInv
  OBVIOUS
<1>1. JobOf \in [Subs -> Jobs]
  BY ClusterAssumption DEF Init
<1>2. NodeTypes
  BY <1>1 DEF Init, NodeTypes
<1>3. hand \in [Subs -> [Nodes -> HandStates]] /\ sub = [s \in Subs |-> sub[s]]
  BY DEF Init, HandStates
<1>4. ASSUME NEW s \in Subs PROVE SubRecord(s) /\ AtOneNode(s) /\ AcceptedLate(s)
  BY <1>4 DEF Init, SubRecord, AtOneNode, AcceptedLate, Routing
<1> QED
  BY <1>2, <1>3, <1>4 DEF RequestInv, RequestTypes

\* Whatever the cluster, the scopes and the faults: a submission is accepted by
\* at most one node, however often its sender fails over, unless its caller left
\* while the owner had it.
THEOREM AcceptedCorrect == Spec => []AcceptedOnce
<1>1. RequestInv => AcceptedOnce
  BY DEF RequestInv, AcceptedLate, AcceptedOnce
<1> QED
  BY <1>1, RequestStart, RequestStep, PTL DEF Spec

-----------------------------------------------------------------------------
(* The outstanding counts of localScopes. *)

Handlers(n, k) == {s \in Subs : Key(s) = k /\ hand[s][n] \in Counted}
Registered(n, k) == {j \in held[n] : UserOf[j] = k}
Tally(n, k) == Cardinality(Handlers(n, k)) + Cardinality(Registered(n, k))

\* The counts are finite.
LEMMA TallyType ==
    ASSUME RequestTypes, NEW n \in Nodes, NEW k
    PROVE  /\ IsFiniteSet(Handlers(n, k)) /\ IsFiniteSet(Registered(n, k))
           /\ Cardinality(Handlers(n, k)) \in Nat /\ Cardinality(Registered(n, k)) \in Nat
           /\ Tally(n, k) \in Nat
<1>1. Handlers(n, k) \subseteq Subs /\ Registered(n, k) \subseteq Jobs
  BY DEF Handlers, Registered, RequestTypes, NodeTypes
<1>2. IsFiniteSet(Handlers(n, k)) /\ IsFiniteSet(Registered(n, k))
  BY <1>1, FS_Subset, ClusterAssumption
<1>3. Cardinality(Handlers(n, k)) \in Nat /\ Cardinality(Registered(n, k)) \in Nat
  BY <1>2, FS_CardinalityType
<1> QED
  BY SMT, <1>2, <1>3 DEF Tally

\* A step that leaves a node's handlers and its registry alone.
LEMMA TallySame ==
    ASSUME NEW n \in Nodes, NEW k, JobOf' = JobOf, held'[n] = held[n],
           \A x \in Subs : hand'[x][n] \in Counted <=> hand[x][n] \in Counted
    PROVE  Tally(n, k)' = Tally(n, k)
<1>1. Handlers(n, k)' = Handlers(n, k)
  BY DEF Handlers, Key
<1>2. Registered(n, k)' = Registered(n, k)
  BY DEF Registered
<1> QED
  BY <1>1, <1>2 DEF Tally

\* A handler is tracked, or returns: the count of its scope at its node changes
\* by one, and no other.
LEMMA TallyHandler ==
    ASSUME RequestTypes, NEW s \in Subs, NEW n \in Nodes, NEW k \in Scopes, k = Key(s),
           JobOf' = JobOf, held' = held,
           (hand[s][n] \in Counted) # (hand'[s][n] \in Counted),
           \A x \in Subs, m \in Nodes : x # s \/ m # n => hand'[x][m] = hand[x][m]
    PROVE  /\ Tally(n, k)' = IF hand[s][n] \in Counted THEN Tally(n, k) - 1 ELSE Tally(n, k) + 1
           /\ hand[s][n] \in Counted => Tally(n, k) > 0
           /\ \A m \in Nodes, h \in Scopes : m # n \/ h # k => Tally(m, h)' = Tally(m, h)
<1>1. ASSUME NEW m \in Nodes, NEW h \in Scopes, m # n \/ h # k PROVE Tally(m, h)' = Tally(m, h)
  <2>1. Handlers(m, h)' = Handlers(m, h)
    BY <1>1 DEF Handlers, Key
  <2>2. Registered(m, h)' = Registered(m, h)
    BY DEF Registered
  <2> QED
    BY <2>1, <2>2 DEF Tally
<1>2. Registered(n, k)' = Registered(n, k)
  BY DEF Registered
<1>3. /\ IsFiniteSet(Handlers(n, k))
      /\ Cardinality(Handlers(n, k)) \in Nat /\ Cardinality(Registered(n, k)) \in Nat
  BY TallyType
<1>4. CASE hand[s][n] \in Counted
  <2>1. Handlers(n, k)' = Handlers(n, k) \ {s} /\ s \in Handlers(n, k)
    BY <1>4 DEF Handlers, Key
  <2>2. /\ Cardinality(Handlers(n, k) \ {s}) = Cardinality(Handlers(n, k)) - 1
        /\ IsFiniteSet(Handlers(n, k) \ {s})
    BY <1>3, <2>1, FS_RemoveElement
  <2>3. Cardinality(Handlers(n, k) \ {s}) \in Nat
    BY <2>2, FS_CardinalityType
  <2>4. Tally(n, k)' = Cardinality(Handlers(n, k) \ {s}) + Cardinality(Registered(n, k))
    BY <1>2, <2>1 DEF Tally
  <2> QED
    BY SMT, <1>1, <1>3, <1>4, <2>2, <2>3, <2>4 DEF Tally
<1>5. CASE hand[s][n] \notin Counted
  <2>1. Handlers(n, k)' = Handlers(n, k) \cup {s} /\ s \notin Handlers(n, k)
    BY SMT, <1>5 DEF Handlers, Key
  <2>2. Cardinality(Handlers(n, k) \cup {s}) = Cardinality(Handlers(n, k)) + 1
    BY <1>3, <2>1, FS_AddElement
  <2>3. Tally(n, k)' = Cardinality(Handlers(n, k) \cup {s}) + Cardinality(Registered(n, k))
    BY <1>2, <2>1 DEF Tally
  <2> QED
    BY SMT, <1>1, <1>3, <1>5, <2>2, <2>3 DEF Tally
<1> QED
  BY <1>4, <1>5

\* The same for a job that enters or leaves the registry, counted for its user.
LEMMA TallyJob ==
    ASSUME RequestTypes, NEW j \in Jobs, NEW n \in Nodes, JobOf' = JobOf,
           NEW new \in SUBSET Jobs, held' = [held EXCEPT ![n] = new],
           \/ j \notin held[n] /\ new = held[n] \cup {j}
           \/ j \in held[n] /\ new = held[n] \ {j},
           \A x \in Subs, m \in Nodes : hand'[x][m] \in Counted <=> hand[x][m] \in Counted
    PROVE  /\ Tally(n, UserOf[j])' = IF j \in held[n] THEN Tally(n, UserOf[j]) - 1
                                                      ELSE Tally(n, UserOf[j]) + 1
           /\ j \in held[n] => Tally(n, UserOf[j]) > 0
           /\ \A m \in Nodes, k \in Scopes : m # n \/ k # UserOf[j] => Tally(m, k)' = Tally(m, k)
<1>0. held'[n] = new /\ \A m \in Nodes \ {n} : held'[m] = held[m]
  BY DEF RequestTypes, NodeTypes
<1>h. ASSUME NEW m \in Nodes, NEW k PROVE Handlers(m, k)' = Handlers(m, k)
  BY DEF Handlers, Key
<1>1. ASSUME NEW m \in Nodes, NEW k \in Scopes, m # n \/ k # UserOf[j] PROVE Tally(m, k)' = Tally(m, k)
  <2>1. Registered(m, k)' = Registered(m, k)
    BY <1>0, <1>1 DEF Registered
  <2> QED
    BY <1>h, <2>1 DEF Tally
<1> DEFINE k == UserOf[j]
<1>3. /\ IsFiniteSet(Registered(n, k))
      /\ Cardinality(Handlers(n, k)) \in Nat /\ Cardinality(Registered(n, k)) \in Nat
  BY TallyType
<1>4. CASE j \in held[n] /\ new = held[n] \ {j}
  <2>1. Registered(n, k)' = Registered(n, k) \ {j} /\ j \in Registered(n, k)
    BY <1>0, <1>4 DEF Registered
  <2>2. /\ Cardinality(Registered(n, k) \ {j}) = Cardinality(Registered(n, k)) - 1
        /\ IsFiniteSet(Registered(n, k) \ {j})
    BY <1>3, <2>1, FS_RemoveElement
  <2>3. Cardinality(Registered(n, k) \ {j}) \in Nat
    BY <2>2, FS_CardinalityType
  <2>4. Tally(n, k)' = Cardinality(Handlers(n, k)) + Cardinality(Registered(n, k) \ {j})
    BY <1>h, <2>1 DEF Tally
  <2> QED
    BY SMT, <1>1, <1>3, <1>4, <2>2, <2>3, <2>4 DEF Tally
<1>5. CASE j \notin held[n] /\ new = held[n] \cup {j}
  <2>1. Registered(n, k)' = Registered(n, k) \cup {j} /\ j \notin Registered(n, k)
    BY <1>0, <1>5 DEF Registered
  <2>2. Cardinality(Registered(n, k) \cup {j}) = Cardinality(Registered(n, k)) + 1
    BY <1>3, <2>1, FS_AddElement
  <2>3. Tally(n, k)' = Cardinality(Handlers(n, k)) + Cardinality(Registered(n, k) \cup {j})
    BY <1>h, <2>1 DEF Tally
  <2> QED
    BY SMT, <1>1, <1>3, <1>5, <2>2, <2>3 DEF Tally
<1> QED
  BY <1>4, <1>5

\* OutstandingExact, in terms of the tally.
LEMMA ExactTally ==
    OutstandingExact <=> \A n \in Nodes, k \in Scopes : /\ out[n][k] = Tally(n, k)
                                                        /\ age[n][k] = Gone => out[n][k] = 0
  BY DEF OutstandingExact, Tally, Handlers, Registered

\* TrackLocalJob counts what is added, and brings the scope back if need be.
LEMMA CountUp ==
    ASSUME RequestTypes, OutstandingExact, NEW n \in Nodes, NEW k \in Scopes \cup {None},
           TrackLocalJob(n, k), k \in Scopes => Tally(n, k)' = Tally(n, k) + 1,
           \A m \in Nodes, h \in Scopes : m # n \/ h # k => Tally(m, h)' = Tally(m, h)
    PROVE  OutstandingExact'
<1>1. SUFFICES ASSUME NEW m \in Nodes, NEW h \in Scopes
               PROVE  out'[m][h] = Tally(m, h)' /\ (age'[m][h] = Gone => out'[m][h] = 0)
  BY DEF OutstandingExact, Tally, Handlers, Registered
<1>2. out[m][h] = Tally(m, h) /\ (age[m][h] = Gone => out[m][h] = 0)
  BY ExactTally
<1>3. CASE k = None
  BY <1>2, <1>3, ClusterAssumption DEF TrackLocalJob
<1>4. CASE k # None
  <2>1. k \in Scopes /\ out' = [out EXCEPT ![n][k] = @ + 1] /\ age' = [age EXCEPT ![n][k] = Fresh]
    BY <1>4 DEF TrackLocalJob, Touch
  <2>2. out'[m][h] = IF m = n /\ h = k THEN out[m][h] + 1 ELSE out[m][h]
    BY <2>1 DEF RequestTypes, NodeTypes
  <2>3. age'[m][h] = IF m = n /\ h = k THEN Fresh ELSE age[m][h]
    BY <2>1 DEF RequestTypes, NodeTypes
  <2> QED
    BY SMT, <1>2, <2>1, <2>2, <2>3 DEF Fresh, Gone
<1> QED
  BY <1>3, <1>4

\* CompleteLocalJob counts down what ends, which is in the scope's count: the
\* scope is there, and the count is not at zero.
LEMMA CountDown ==
    ASSUME RequestTypes, OutstandingExact, NEW n \in Nodes, NEW k \in Scopes \cup {None},
           CompleteLocalJob(n, k), k \in Scopes => Tally(n, k)' = Tally(n, k) - 1,
           k \in Scopes => Tally(n, k) > 0,
           \A m \in Nodes, h \in Scopes : m # n \/ h # k => Tally(m, h)' = Tally(m, h)
    PROVE  OutstandingExact'
<1>1. SUFFICES ASSUME NEW m \in Nodes, NEW h \in Scopes
               PROVE  out'[m][h] = Tally(m, h)' /\ (age'[m][h] = Gone => out'[m][h] = 0)
  BY DEF OutstandingExact, Tally, Handlers, Registered
<1>2. out[m][h] = Tally(m, h) /\ (age[m][h] = Gone => out[m][h] = 0)
  BY ExactTally
<1>3. CASE k = None
  BY <1>2, <1>3, ClusterAssumption DEF CompleteLocalJob
<1>4. CASE k # None
  <2>0. k \in Scopes /\ out[n][k] \in Nat /\ out[n][k] = Tally(n, k) /\ out[n][k] > 0 /\ age[n][k] # Gone
    BY SMT, <1>4, ExactTally DEF RequestTypes, NodeTypes
  <2>1. out' = [out EXCEPT ![n][k] = out[n][k] - 1] /\ age' = [age EXCEPT ![n][k] = Fresh]
    BY <1>4, <2>0 DEF CompleteLocalJob, Touch
  <2>2. out'[m][h] = IF m = n /\ h = k THEN out[m][h] - 1 ELSE out[m][h]
    BY <2>0, <2>1 DEF RequestTypes, NodeTypes
  <2>3. age'[m][h] = IF m = n /\ h = k THEN Fresh ELSE age[m][h]
    BY <2>0, <2>1 DEF RequestTypes, NodeTypes
  <2> QED
    BY SMT, <1>2, <2>0, <2>2, <2>3 DEF Fresh, Gone
<1> QED
  BY <1>3, <1>4

\* A step that counts nothing forgets a scope only while nothing is out.
LEMMA CountSame ==
    ASSUME OutstandingExact, out' = out,
           \A n \in Nodes, k \in Scopes : Tally(n, k)' = Tally(n, k),
           \A n \in Nodes, k \in Scopes : age'[n][k] = Gone => age[n][k] = Gone \/ out[n][k] = 0
    PROVE  OutstandingExact'
<1>1. SUFFICES ASSUME NEW m \in Nodes, NEW h \in Scopes
               PROVE  out'[m][h] = Tally(m, h)' /\ (age'[m][h] = Gone => out'[m][h] = 0)
  BY DEF OutstandingExact, Tally, Handlers, Registered
<1> QED
  BY ExactTally

\* The steps of a sender start or end no handler that is counted: they put a
\* submission only where it is not.
LEMMA SenderCountsNone ==
    ASSUME RequestInv, NEW s \in Subs,
           \/ Sender(s) \/ NotDelivered(s) \/ ForwardTimeout(s) \/ CallerLeaves(s)
           \/ \E n \in Nodes : Submit(s, n)
    PROVE  /\ UNCHANGED <<JobOf, held, out>>
           /\ age' = age \/ \E n : age' = [age EXCEPT ![n][Key(s)] = Fresh]
           /\ \A x \in Subs, m \in Nodes : hand'[x][m] \in Counted <=> hand[x][m] \in Counted
<1>r. RequestTypes
  BY DEF RequestInv
<1>t. RequestTypes /\ AtOneNode(s)
  BY DEF RequestInv, RequestTypes
<1>0. ASSUME NEW m, NEW h \in {"none", "handle", "flight"}, m \in Nodes => hand[s][m] \notin Counted,
             hand' = [hand EXCEPT ![s][m] = h]
      PROVE  \A x \in Subs, l \in Nodes : hand'[x][l] \in Counted <=> hand[x][l] \in Counted
  <2>1. /\ \A l \in Nodes : hand'[s][l] = IF l = m THEN h ELSE hand[s][l]
        /\ \A x \in Subs \ {s} : hand'[x] = hand[x]
    <3>1. h \in HandStates
      BY DEF HandStates
    <3> QED
      BY <1>r, <1>0, <3>1, HandSet
  <2> QED
    BY <1>0, <2>1 DEF Counted
<1>1. ASSUME NEW n \in Nodes, Submit(s, n)
      PROVE  /\ UNCHANGED <<JobOf, held, out, age>>
             /\ \A x \in Subs, m \in Nodes : hand'[x][m] \in Counted <=> hand[x][m] \in Counted
  <2>1. /\ UNCHANGED <<JobOf, held, out, age>> /\ sub[s].pc = "new"
        /\ hand' = hand \/ hand' = [hand EXCEPT ![s][n] = "handle"]
    BY <1>1 DEF Submit, routerVars
  <2>2. hand[s][n] \notin Counted
    BY <1>t, <2>1 DEF AtOneNode, Counted
  <2> QED
    BY <1>0, <2>1, <2>2
<1>2. CASE Resolve(s)
  <2>1. /\ UNCHANGED <<JobOf, held, out>> /\ sub[s].pc = "route"
        /\ age' = age \/ age' = [age EXCEPT ![sub[s].at][Key(s)] = Fresh]
        /\ \/ hand' = hand
           \/ hand' = [hand EXCEPT ![s][sub[s].at] = "handle"]
           \/ s \notin gone /\ \E m : hand' = [hand EXCEPT ![s][m] = "flight"]
    BY <1>2 DEF Resolve, Touch
  <2>2. sub[s].at \in Nodes => hand[s][sub[s].at] \notin Counted
    BY <1>t, <2>1 DEF AtOneNode, Counted
  <2>3. s \notin gone => \A m \in Nodes : hand[s][m] \notin Counted
    BY <1>t, <2>1 DEF AtOneNode, Counted
  <2>4. \A x \in Subs, m \in Nodes : hand'[x][m] \in Counted <=> hand[x][m] \in Counted
    BY <1>0, <2>1, <2>2, <2>3
  <2> QED
    BY <2>1, <2>4
<1>3. CASE Unrouted(s) \/ ForwardTimeout(s) \/ MarkUnavailable(s) \/ CallerLeaves(s)
  BY <1>3 DEF Unrouted, ForwardTimeout, MarkUnavailable, CallerLeaves, routerVars
<1>4. CASE NotDelivered(s) \/ Relay(s)
  <2>1. /\ UNCHANGED <<JobOf, held, out, age>>
        /\ hand[s][sub[s].to] \notin Counted /\ hand' = [hand EXCEPT ![s][sub[s].to] = "none"]
    BY <1>4 DEF NotDelivered, Relay, routerVars, Counted
  <2> QED
    BY <1>0, <2>1
<1> QED
  BY <1>1, <1>2, <1>3, <1>4 DEF Sender

\* A handler returns and is counted down.
LEMMA ReturnCounts ==
    ASSUME RequestInv, OutstandingExact, NEW s \in Subs, NEW n \in Nodes,
           NEW answer \in {"ok", "drain"}, hand[s][n] \in Counted,
           Return(s, n, answer), UNCHANGED <<JobOf, held>>
    PROVE  OutstandingExact'
<1>r. RequestTypes
  BY DEF RequestInv
<1>t. RequestTypes /\ NodeTypes
  BY DEF RequestInv, RequestTypes
<1>k. PICK k \in Scopes : k = Key(s)
  BY <1>t, ClusterAssumption DEF Key, NodeTypes
<1> DEFINE h == IF sub[s].pc = "wait" /\ sub[s].to = n THEN answer ELSE "none"
<1>1. hand' = [hand EXCEPT ![s][n] = h] /\ h \in HandStates /\ h \notin Counted
  BY DEF Return, HandStates, Counted
<1> HIDE DEF h
<1>2. /\ hand'[s][n] \notin Counted
      /\ \A x \in Subs, m \in Nodes : x # s \/ m # n => hand'[x][m] = hand[x][m]
  <2>1. /\ \A m \in Nodes : hand'[s][m] = IF m = n THEN h ELSE hand[s][m]
        /\ \A x \in Subs \ {s} : hand'[x] = hand[x]
    BY <1>r, <1>1, HandSet
  <2> QED
    BY <1>1, <2>1
<1>3. /\ Tally(n, k)' = Tally(n, k) - 1 /\ Tally(n, k) > 0
      /\ \A m \in Nodes, l \in Scopes : m # n \/ l # k => Tally(m, l)' = Tally(m, l)
  BY <1>t, <1>k, <1>2, TallyHandler
<1>4. CompleteLocalJob(n, k)
  BY <1>k DEF Return
<1> QED
  BY SMT, <1>t, <1>3, <1>4, CountDown

\* Every step keeps the counts exact.
LEMMA CountStep ==
    ASSUME RequestInv, OutstandingExact, [Next]_vars
    PROVE  OutstandingExact'
<1>r. RequestTypes
  BY DEF RequestInv
<1>t. RequestTypes /\ NodeTypes
  BY DEF RequestInv, RequestTypes
<1>0. ASSUME UNCHANGED <<JobOf, held, hand, out>>,
             \A n \in Nodes, k \in Scopes : age'[n][k] = Gone => age[n][k] = Gone \/ out[n][k] = 0
      PROVE  OutstandingExact'
  BY <1>0, TallySame, CountSame
<1>1. CASE UNCHANGED vars
  BY <1>0, <1>1 DEF vars, requestVars, routerVars
<1>2. ASSUME NEW s \in Subs,
             \/ Sender(s) \/ NotDelivered(s) \/ ForwardTimeout(s) \/ CallerLeaves(s)
             \/ \E n \in Nodes : Submit(s, n)
      PROVE  OutstandingExact'
  <2>1. /\ UNCHANGED <<JobOf, held, out>>
        /\ age' = age \/ \E n : age' = [age EXCEPT ![n][Key(s)] = Fresh]
        /\ \A x \in Subs, m \in Nodes : hand'[x][m] \in Counted <=> hand[x][m] \in Counted
    BY <1>2, SenderCountsNone
  <2>2. \A n \in Nodes, k \in Scopes : Tally(n, k)' = Tally(n, k)
    BY <2>1, TallySame
  <2>3. \A n \in Nodes, k \in Scopes : age'[n][k] = Gone => age[n][k] = Gone
    BY SMTT(30), <1>t, <2>1 DEF NodeTypes, Fresh, Gone
  <2> QED
    BY <2>1, <2>2, <2>3, CountSame
<1>3. ASSUME NEW s \in Subs, NEW n \in Nodes, Arrive(s, n) \/ Vanish(s, n)
      PROVE  OutstandingExact'
  <2>1. /\ UNCHANGED <<JobOf, held, out, age>> /\ hand[s][n] = "flight"
        /\ \E h \in {"none", "handle"} : hand' = [hand EXCEPT ![s][n] = h]
    BY <1>3 DEF Arrive, Vanish, routerVars
  <2>h. PICK h \in {"none", "handle"} : hand' = [hand EXCEPT ![s][n] = h]
    BY <2>1
  <2>i. /\ \A m \in Nodes : hand'[s][m] = IF m = n THEN h ELSE hand[s][m]
        /\ \A x \in Subs \ {s} : hand'[x] = hand[x]
    <3>1. h \in HandStates
      BY DEF HandStates
    <3> QED
      BY <1>r, <2>h, <3>1, HandSet
  <2>2. \A x \in Subs, m \in Nodes : hand'[x][m] \in Counted <=> hand[x][m] \in Counted
    BY <2>1, <2>h, <2>i DEF Counted
  <2>3. \A m \in Nodes, k \in Scopes : Tally(m, k)' = Tally(m, k)
    BY <2>1, <2>2, TallySame
  <2> QED
    BY <2>1, <2>3, CountSame
<1>4. ASSUME NEW s \in Subs, NEW n \in Nodes, Track(s, n) PROVE OutstandingExact'
  <2>0. PICK k \in Scopes : k = Key(s)
    BY <1>t, ClusterAssumption DEF Key, NodeTypes
  <2>1. /\ UNCHANGED <<JobOf, held>> /\ hand[s][n] = "handle"
        /\ TrackLocalJob(n, k) /\ hand' = [hand EXCEPT ![s][n] = "tracked"]
    BY <1>4, <2>0 DEF Track
  <2>h. /\ \A m \in Nodes : hand'[s][m] = IF m = n THEN "tracked" ELSE hand[s][m]
        /\ \A x \in Subs \ {s} : hand'[x] = hand[x]
    <3>1. "tracked" \in HandStates
      BY DEF HandStates
    <3>2. hand' = [hand EXCEPT ![s][n] = "tracked"]
      BY <2>1
    <3> QED
      BY <1>r, <3>1, <3>2, HandSet
  <2>2. /\ hand'[s][n] \in Counted /\ hand[s][n] \notin Counted
        /\ \A x \in Subs, m \in Nodes : x # s \/ m # n => hand'[x][m] = hand[x][m]
    BY <2>1, <2>h DEF Counted
  <2>3. /\ Tally(n, k)' = Tally(n, k) + 1
        /\ \A m \in Nodes, h \in Scopes : m # n \/ h # k => Tally(m, h)' = Tally(m, h)
    BY <1>t, <2>0, <2>1, <2>2, TallyHandler
  <2> QED
    BY SMT, <1>t, <2>1, <2>3, CountUp
<1>5. ASSUME NEW s \in Subs, NEW n \in Nodes,
             (Admit(s, n) /\ isDraining(n)) \/ Finish(s, n)
      PROVE  OutstandingExact'
  <2>1. /\ hand[s][n] \in Counted /\ UNCHANGED <<JobOf, held>>
        /\ Return(s, n, "ok") \/ Return(s, n, "drain")
    BY <1>5 DEF Admit, Finish, Counted
  <2> QED
    BY <2>1, ReturnCounts
<1>6. ASSUME NEW s \in Subs, NEW n \in Nodes, Admit(s, n), ~isDraining(n)
      PROVE  OutstandingExact'
  <2>0. PICK j \in Jobs : j = JobOf[s] /\ UserOf[j] \in Scopes \cup {None}
    BY <1>t, ClusterAssumption DEF NodeTypes
  <2>1. /\ JobOf' = JobOf /\ hand[s][n] = "tracked" /\ hand' = [hand EXCEPT ![s][n] = "decided"]
        /\ IF j \in seen[n] THEN UNCHANGED <<out, age, held>>
           ELSE TrackLocalJob(n, UserOf[j]) /\ held' = [held EXCEPT ![n] = @ \cup {j}]
    BY <1>6, <2>0 DEF Admit
  <2>h. /\ \A m \in Nodes : hand'[s][m] = IF m = n THEN "decided" ELSE hand[s][m]
        /\ \A x \in Subs \ {s} : hand'[x] = hand[x]
    <3>1. "decided" \in HandStates
      BY DEF HandStates
    <3>2. hand' = [hand EXCEPT ![s][n] = "decided"]
      BY <2>1
    <3> QED
      BY <1>r, <3>1, <3>2, HandSet
  <2>2. \A x \in Subs, m \in Nodes : hand'[x][m] \in Counted <=> hand[x][m] \in Counted
    BY <2>1, <2>h DEF Counted
  <2>3. CASE j \in seen[n]
    <3>1. \A m \in Nodes, k \in Scopes : Tally(m, k)' = Tally(m, k)
      BY <2>1, <2>2, <2>3, TallySame
    <3> QED
      BY <2>1, <2>3, <3>1, CountSame
  <2>4. CASE j \notin seen[n]
    <3>1. /\ j \notin held[n] /\ held[n] \cup {j} \in SUBSET Jobs /\ JobOf' = JobOf
          /\ held' = [held EXCEPT ![n] = held[n] \cup {j}] /\ TrackLocalJob(n, UserOf[j])
      BY <1>t, <2>0, <2>1, <2>4 DEF NodeTypes
    <3>2. /\ Tally(n, UserOf[j])' = Tally(n, UserOf[j]) + 1
          /\ \A m \in Nodes, k \in Scopes : m # n \/ k # UserOf[j] => Tally(m, k)' = Tally(m, k)
      BY <1>t, <2>2, <3>1, TallyJob
    <3> QED
      BY <1>t, <2>0, <3>1, <3>2, CountUp
  <2> QED
    BY <2>3, <2>4
<1>7. ASSUME NEW n \in Nodes, NEW j \in Jobs, JobDone(n, j) PROVE OutstandingExact'
  <2>0. UserOf[j] \in Scopes \cup {None}
    BY ClusterAssumption
  <2>1. /\ JobOf' = JobOf /\ hand' = hand /\ CompleteLocalJob(n, UserOf[j])
        /\ j \in held[n] /\ held' = [held EXCEPT ![n] = held[n] \ {j}] /\ held[n] \ {j} \in SUBSET Jobs
    BY <1>t, <1>7 DEF JobDone, NodeTypes
  <2>2. /\ Tally(n, UserOf[j])' = Tally(n, UserOf[j]) - 1 /\ Tally(n, UserOf[j]) > 0
        /\ \A m \in Nodes, k \in Scopes : m # n \/ k # UserOf[j] => Tally(m, k)' = Tally(m, k)
    BY <1>t, <2>1, TallyJob
  <2> QED
    BY <1>t, <2>0, <2>1, <2>2, CountDown
<1>8. ASSUME NEW n \in Nodes,
             \/ SyncState(n) \/ SyncClean(n) \/ BeginDrain(n) \/ SetState(n)
             \/ InstanceExpires(n) \/ (\E m \in Nodes : Unprune(n, m))
      PROVE  OutstandingExact'
  <2>1. UNCHANGED <<JobOf, held, hand, out, age>>
    BY <1>8 DEF SyncState, SyncClean, BeginDrain, SetState, InstanceExpires, Unprune,
                requestVars, routerVars
  <2> QED
    BY <1>0, <2>1
<1>9. ASSUME NEW k \in Scopes, AssignmentExpires(k) \/ \E n \in Nodes : LateRelease(k, n)
      PROVE  OutstandingExact'
  BY <1>0, <1>9 DEF AssignmentExpires, LateRelease, requestVars, routerVars
<1>10. ASSUME NEW n \in Nodes, HandOff(n) PROVE OutstandingExact'
  <2>1. /\ UNCHANGED <<JobOf, held, hand, out>>
        /\ \/ age' = age
           \/ \E k : out[n][k] = 0 /\ age' = [age EXCEPT ![n][k] = Gone]
    BY <1>10 DEF HandOff, Forget, requestVars, handOffCandidate
  <2>2. \A m \in Nodes, h \in Scopes : age'[m][h] = Gone => age[m][h] = Gone \/ out[m][h] = 0
    BY SMT, <1>t, <2>1 DEF NodeTypes
  <2> QED
    BY <1>0, <2>1, <2>2
<1>11. ASSUME NEW n \in Nodes, NEW k \in Scopes, ReleaseIdle(n, k) \/ Grow(n, k)
       PROVE  OutstandingExact'
  <2>1. /\ UNCHANGED <<JobOf, held, hand, out>> /\ out[n][k] = 0
        /\ \E a : age' = [age EXCEPT ![n][k] = a]
    BY <1>11 DEF ReleaseIdle, Grow, Forget, requestVars, IsIdle
  <2>2. \A m \in Nodes, h \in Scopes : age'[m][h] = Gone => age[m][h] = Gone \/ out[m][h] = 0
    BY SMT, <1>t, <2>1 DEF NodeTypes
  <2> QED
    BY <1>0, <2>1, <2>2
<1>12. ASSUME NEW n \in Nodes, Close(n) PROVE OutstandingExact'
  <2>1. /\ UNCHANGED <<JobOf, held, hand, out>> /\ held[n] = {}
        /\ \A s \in Subs : hand[s][n] \notin Counted
        /\ age' = [age EXCEPT ![n] = [k \in Scopes |-> Gone]]
    BY <1>12 DEF Close, requestVars, Counted
  <2>2. ASSUME NEW k \in Scopes PROVE out[n][k] = 0
    <3>1. Handlers(n, k) = {} /\ Registered(n, k) = {}
      BY <2>1 DEF Handlers, Registered
    <3>2. Tally(n, k) = 0
      BY SMT, <3>1, FS_EmptySet DEF Tally
    <3> QED
      BY <3>2, ExactTally
  <2>3. \A m \in Nodes, h \in Scopes : age'[m][h] = Gone => age[m][h] = Gone \/ out[m][h] = 0
    BY <1>t, <2>1, <2>2 DEF NodeTypes
  <2> QED
    BY <1>0, <2>1, <2>3
<1>13. ASSUME NEW s \in Subs, NEW n \in Nodes, Reject(s, n) PROVE OutstandingExact'
  <2>1. /\ UNCHANGED <<JobOf, held, out>> /\ hand[s][n] = "tracked"
        /\ hand' = [hand EXCEPT ![s][n] = "decided"]
        /\ age' = age \/ \E k : age' = [age EXCEPT ![n][k] = Fresh]
    BY <1>13 DEF Reject, Touch
  <2>2. /\ \A m \in Nodes : hand'[s][m] = IF m = n THEN "decided" ELSE hand[s][m]
        /\ \A x \in Subs \ {s} : hand'[x] = hand[x]
    <3>1. "decided" \in HandStates /\ hand' = [hand EXCEPT ![s][n] = "decided"]
      BY <2>1 DEF HandStates
    <3> QED
      BY <1>r, <3>1, HandSet
  <2>3. \A x \in Subs, m \in Nodes : hand'[x][m] \in Counted <=> hand[x][m] \in Counted
    BY <2>1, <2>2 DEF Counted
  <2>4. \A m \in Nodes, k \in Scopes : Tally(m, k)' = Tally(m, k)
    BY <2>1, <2>3, TallySame
  <2>5. \A m \in Nodes, k \in Scopes : age'[m][k] = Gone => age[m][k] = Gone
    BY SMTT(30), <1>t, <2>1 DEF NodeTypes, Fresh, Gone
  <2> QED
    BY <2>1, <2>4, <2>5, CountSame
<1> QED
  BY <1>1, <1>2, <1>3, <1>4, <1>5, <1>6, <1>7, <1>8, <1>9, <1>10, <1>11, <1>12, <1>13
     DEF Next, Sync, Handler

\* Nothing is counted yet.
LEMMA CountStart == Init => OutstandingExact
<1> SUFFICES ASSUME Init, NEW n \in Nodes, NEW k \in Scopes
             PROVE  out[n][k] = Tally(n, k) /\ out[n][k] = 0
  BY ExactTally
<1>1. Handlers(n, k) = {} /\ Registered(n, k) = {}
  BY DEF Init, Handlers, Registered, Counted
<1>2. Tally(n, k) = 0
  BY SMT, <1>1, FS_EmptySet DEF Tally
<1> QED
  BY <1>2 DEF Init

\* Whatever the cluster, the jobs and the faults: a node's outstanding count of a
\* scope is exactly the handlers and the unfinished jobs it tracked under it, and
\* a scope that has any is in localScopes.
THEOREM OutstandingCorrect == Spec => []OutstandingExact
  BY RequestStart, CountStart, RequestStep, CountStep, PTL DEF Spec

-----------------------------------------------------------------------------
(* Who works on a scope. *)

\* A node handles a submission of its own caller and has not tracked it yet.
OwnHandle(s, n) == IsLocal(s, n) /\ hand[s][n] = "handle"

\* Only the node a scope is assigned to works on it, and a submission a node
\* handles for its own caller keeps the scope fresh there until it is tracked.
OwnerInv ==
    /\ \A k \in Scopes \ excused, n \in Nodes : WorkAt(n, k) => asg[k] = n
    /\ \A s \in Subs, n \in Nodes :
          OwnHandle(s, n) /\ Key(s) \notin excused => age[n][Key(s)] = Fresh

\* What a step has to keep: scopes it excuses do not matter while they are
\* worked on, and are excused no longer than that.
LEMMA OwnerKept ==
    ASSUME OwnerInv, NEW more, Excuse(more), JobOf' = JobOf, JobOf \in [Subs -> Jobs],
           \A k \in Scopes \ (excused \cup more), n \in Nodes : WorkAt(n, k)' => asg'[k] = n,
           \A s \in Subs, n \in Nodes :
              OwnHandle(s, n)' => \/ Key(s) \in excused \cup more
                                  \/ age'[n][Key(s)] = Fresh
                                  \/ OwnHandle(s, n) /\ age'[n][Key(s)] = age[n][Key(s)]
    PROVE  OwnerInv'
<1>1. \A k : k \in excused' <=> k \in excused \cup more /\ \E n \in Nodes : WorkAt(n, k)'
  BY DEF Excuse
<1>2. ASSUME NEW k \in Scopes \ excused', NEW n \in Nodes, WorkAt(n, k)' PROVE asg'[k] = n
  BY <1>1, <1>2
<1>3. ASSUME NEW s \in Subs, NEW n \in Nodes, OwnHandle(s, n)', Key(s)' \notin excused'
      PROVE  age'[n][Key(s)'] = Fresh
  <2>1. PICK k \in Scopes : k = Key(s) /\ k = Key(s)'
    BY ClusterAssumption DEF Key
  <2>2. WorkAt(n, k)'
    BY <1>3, <2>1 DEF OwnHandle, WorkAt
  <2>3. k \notin excused \cup more
    BY <1>1, <1>3, <2>1, <2>2
  <2>4. OwnHandle(s, n) => age[n][k] = Fresh
    BY <2>1, <2>3 DEF OwnerInv
  <2> QED
    BY <1>3, <2>1, <2>3, <2>4
<1> QED
  BY <1>2, <1>3 DEF OwnerInv

\* Nobody has more work, of what it holds or is sent.
FewerWork ==
    /\ JobOf' = JobOf
    /\ \A n \in Nodes : \A j \in held'[n] :
          j \in held[n] \/ \E s \in Subs : JobOf[s] = j /\ hand[s][n] \in {"flight", "handle"} \cup Counted
    /\ \A s \in Subs, n \in Nodes : hand'[s][n] \in {"flight", "handle"} \cup Counted =>
                                    hand[s][n] \in {"flight", "handle"} \cup Counted

\* Then nobody works on a scope that did not.
LEMMA FewerWorks ==
    ASSUME FewerWork, NEW n \in Nodes, NEW k, WorkAt(n, k)'
    PROVE  WorkAt(n, k)
<1>1. CASE \E s \in Subs : Key(s)' = k /\ hand'[s][n] \in {"flight", "handle"} \cup Counted
  BY <1>1 DEF FewerWork, WorkAt, Key
<1>2. ASSUME NEW j \in held'[n], KeyOf[j] = k PROVE WorkAt(n, k)
  BY <1>2 DEF FewerWork, WorkAt, Key
<1> QED
  BY <1>1, <1>2 DEF WorkAt

\* A step that adds no work, takes a scope only from a node without work of it
\* unless it excuses the scope, and lets no scope age that is being handled.
LEMMA FewerKept ==
    ASSUME OwnerInv, NEW more, Excuse(more), FewerWork, JobOf \in [Subs -> Jobs],
           \A k \in Scopes \ (excused \cup more), n \in Nodes :
              WorkAt(n, k) /\ asg[k] = n => asg'[k] = n,
           \A s \in Subs, n \in Nodes :
              OwnHandle(s, n)' => \/ Key(s) \in excused \cup more
                                  \/ age'[n][Key(s)] = Fresh
                                  \/ OwnHandle(s, n) /\ age'[n][Key(s)] = age[n][Key(s)]
    PROVE  OwnerInv'
<1>1. ASSUME NEW k \in Scopes \ (excused \cup more), NEW n \in Nodes, WorkAt(n, k)'
      PROVE  asg'[k] = n
  <2>1. WorkAt(n, k)
    BY <1>1, FewerWorks
  <2> QED
    BY <1>1, <2>1 DEF OwnerInv
<1>2. JobOf' = JobOf
  BY DEF FewerWork
<1> QED
  BY <1>1, <1>2, OwnerKept

\* A scope taken from a node with work for it is Torn.
LEMMA TornKept ==
    ASSUME NEW k \in Scopes, NEW h \in Scopes, NEW n \in Nodes, h \notin Torn(k),
           \A l \in Scopes \ {k} : asg'[l] = asg[l], WorkAt(n, h), asg[h] = n
    PROVE  asg'[h] = n
<1>1. CASE h # k
  BY <1>1
<1>2. CASE h = k
  <2>1. asg[k] # None /\ WorkAt(asg[k], k)
    BY <1>2, ClusterAssumption
  <2>2. asg'[k] # asg[k] => k \in Torn(k)
    BY <2>1 DEF Torn
  <2> QED
    BY <1>2, <2>2
<1> QED
  BY <1>1, <1>2

\* A scope without a count that has not been seen just now: what work of it the
\* node has, it cannot see.
LEMMA QuietWork ==
    ASSUME RequestInv, OutstandingExact, OwnerInv, NEW n \in Nodes, NEW k \in Scopes,
           out[n][k] = 0, age[n][k] # Fresh, k \notin excused, WorkAt(n, k)
    PROVE  Untracked(n, k)
<1>t. RequestTypes /\ NodeTypes /\ \A s \in Subs : AtOneNode(s)
  BY DEF RequestInv, RequestTypes
<1>0. /\ IsFiniteSet(Handlers(n, k)) /\ IsFiniteSet(Registered(n, k))
      /\ Cardinality(Handlers(n, k)) \in Nat /\ Cardinality(Registered(n, k)) \in Nat
      /\ Tally(n, k) = 0
  BY <1>t, TallyType, ExactTally
<1>1. Cardinality(Handlers(n, k)) = 0 /\ Cardinality(Registered(n, k)) = 0
  BY SMT, <1>0 DEF Tally
<1>2. Handlers(n, k) = {} /\ Registered(n, k) = {}
  BY <1>0, <1>1, FS_EmptySet
<1>3. ASSUME NEW j \in held[n], KeyOf[j] = k PROVE Untracked(n, k)
  BY <1>2, <1>3 DEF Registered, Untracked
<1>4. ASSUME NEW s \in Subs, Key(s) = k, hand[s][n] \in {"flight", "handle"} \cup Counted
      PROVE  Untracked(n, k)
  <2>1. hand[s][n] \in {"flight", "handle"}
    BY <1>2, <1>4 DEF Handlers
  <2>2. IsLocal(s, n) => hand[s][n] = "handle"
    BY <1>t, <2>1 DEF AtOneNode, IsLocal
  <2>3. ~OwnHandle(s, n)
    BY <1>4 DEF OwnerInv
  <2> QED
    BY <1>4, <2>1, <2>2, <2>3 DEF OwnHandle, Untracked
<1> QED
  BY <1>3, <1>4 DEF WorkAt

\* Giving a scope up of one's own accord: rebalance and the release of what is
\* idle look at the count and the age first.
LEMMA GiveUpKeeps ==
    ASSUME StoreTypes, RequestInv, OutstandingExact, OwnerInv, NEW n \in Nodes, NEW k,
           out[n][k] = 0, age[n][k] # Fresh, UNCHANGED requestVars,
           asg' = asg \/ asg' = [asg EXCEPT ![k] = None],
           asg' # asg => asg[k] = n,
           age' = age \/ age' = [age EXCEPT ![n][k] = Gone],
           Excuse(GivenUp(n, k))
    PROVE  OwnerInv'
<1>t. NodeTypes
  BY DEF RequestInv, RequestTypes
<1>1. FewerWork /\ JobOf \in [Subs -> Jobs]
  BY <1>t DEF FewerWork, requestVars, NodeTypes
<1>2. ASSUME NEW h \in Scopes \ (excused \cup GivenUp(n, k)), NEW m \in Nodes,
             WorkAt(m, h), asg[h] = m
      PROVE  asg'[h] = m
  <2>1. CASE asg' = asg \/ h # k
    BY <1>2, <2>1 DEF StoreTypes
  <2>2. CASE asg' # asg /\ h = k
    <3>1. m = n /\ k \in Scopes /\ k \notin excused
      BY <1>2, <2>2
    <3>2. Untracked(n, k)
      BY <1>2, <2>2, <3>1, QuietWork
    <3>3. asg'[k] # n => k \in GivenUp(n, k)
      BY <1>2, <2>2, <3>1, <3>2 DEF GivenUp
    <3> QED
      BY <1>2, <2>2, <3>3
  <2> QED
    BY <2>1, <2>2
<1>3. ASSUME NEW s \in Subs, NEW m \in Nodes, OwnHandle(s, m)', Key(s) \notin excused
      PROVE  OwnHandle(s, m) /\ age'[m][Key(s)] = age[m][Key(s)]
  <2>1. OwnHandle(s, m) /\ Key(s) \in Scopes
    BY <1>t, <1>3, ClusterAssumption DEF OwnHandle, IsLocal, requestVars, Key, NodeTypes
  <2>2. age[m][Key(s)] = Fresh
    BY <1>3, <2>1 DEF OwnerInv
  <2>3. m # n \/ Key(s) # k
    BY <2>2
  <2> QED
    BY SMT, <1>t, <2>1, <2>3 DEF NodeTypes
<1> QED
  BY <1>1, <1>2, <1>3, FewerKept

\* The steps on a submission and of its handlers: only routing gives a node work
\* it did not have, and it goes to whom the scope is assigned by then.
LEMMA OwnerSubmission ==
    ASSUME StoreTypes, RequestInv, OwnerInv, NEW s \in Subs,
           \/ Sender(s) \/ NotDelivered(s) \/ ForwardTimeout(s) \/ CallerLeaves(s)
           \/ \E n \in Nodes : Submit(s, n)
    PROVE  OwnerInv'
<1>r. RequestTypes
  BY DEF RequestInv
<1>t. /\ RequestTypes /\ NodeTypes /\ SubRecord(s) /\ AtOneNode(s)
      /\ hand \in [Subs -> [Nodes -> HandStates]] /\ sub = [x \in Subs |-> sub[x]]
      /\ JobOf \in [Subs -> Jobs]
  BY DEF RequestInv, RequestTypes, NodeTypes
<1>k. PICK k \in Scopes : k = Key(s)
  BY <1>t, ClusterAssumption DEF Key
<1>w. ASSUME NEW n, NEW h \in {"handle", "flight"}, hand' = [hand EXCEPT ![s][n] = h],
             JobOf' = JobOf, held' = held, NEW m \in Nodes, NEW l \in Scopes, WorkAt(m, l)'
      PROVE  WorkAt(m, l) \/ (m = n /\ l = k)
  <2>0. h \in HandStates /\ hand' = [hand EXCEPT ![s][n] = h]
    BY <1>w DEF HandStates
  <2>1. /\ \A x \in Nodes : hand'[s][x] = IF x = n THEN h ELSE hand[s][x]
        /\ \A x \in Subs \ {s} : hand'[x] = hand[x]
    BY <1>r, <2>0, HandSet
  <2>2. CASE m = n /\ l = k
    BY <2>2
  <2>3. CASE \E j \in held'[m] : KeyOf[j] = l
    BY <1>w, <2>3 DEF WorkAt
  <2>4. ASSUME NEW x \in Subs, Key(x)' = l, hand'[x][m] \in {"flight", "handle"} \cup Counted,
               ~(m = n /\ l = k)
        PROVE  WorkAt(m, l)
    <3>1. Key(x) = l
      BY <1>w, <2>4 DEF Key
    <3>2. x # s \/ m # n
      BY <1>k, <2>4, <3>1
    <3>3. hand'[x][m] = hand[x][m]
      BY <2>1, <3>2
    <3> QED
      BY <2>4, <3>1, <3>3 DEF WorkAt
  <2>5. \/ \E j \in held'[m] : KeyOf[j] = l
        \/ \E x \in Subs : Key(x)' = l /\ hand'[x][m] \in {"flight", "handle"} \cup Counted
    BY <1>w DEF WorkAt
  <2> QED
    BY <2>2, <2>3, <2>4, <2>5
<1>1. ASSUME NEW n \in Nodes, Submit(s, n) PROVE OwnerInv'
  <2>1. UNCHANGED <<JobOf, held, age, asg>>
    BY <1>1 DEF Submit, routerVars, storeVars
  <2>2. CASE Len(rankedOwners(n, Key(s), {})) = 0
    <3>1. /\ Excuse({k}) /\ hand' = [hand EXCEPT ![s][n] = "handle"]
          /\ sub' = [sub EXCEPT ![s] = Local(n)]
      BY <1>1, <1>k, <2>2 DEF Submit
    <3>2. /\ \A x \in Subs \ {s} : sub'[x] = sub[x]
          /\ \A x \in Subs \ {s} : hand'[x] = hand[x]
      BY <1>t, <3>1, SubSet, HandSet DEF HandStates
    <3>3. ASSUME NEW l \in Scopes \ (excused \cup {k}), NEW m \in Nodes, WorkAt(m, l)' PROVE asg'[l] = m
      <4>1. WorkAt(m, l)
        BY <1>w, <2>1, <3>1, <3>3
      <4> QED
        BY <2>1, <3>3, <4>1 DEF OwnerInv
    <3>4. \A x \in Subs, m \in Nodes : OwnHandle(x, m)' =>
             \/ Key(x) \in excused \cup {k}
             \/ OwnHandle(x, m) /\ age'[m][Key(x)] = age[m][Key(x)]
      BY <1>k, <2>1, <3>2 DEF OwnHandle, IsLocal
    <3> QED
      BY <1>t, <2>1, <3>1, <3>3, <3>4, OwnerKept
  <2>3. CASE Len(rankedOwners(n, Key(s), {})) # 0
    <3> DEFINE r == [pc |-> "route", at |-> n, to |-> None,
                     tried |-> {}, left |-> Len(rankedOwners(n, Key(s), {})) + 1]
    <3>1. Excuse({}) /\ hand' = hand /\ sub' = [sub EXCEPT ![s] = r]
      BY <1>1, <2>3 DEF Submit
    <3>2. sub'[s] = r /\ \A x \in Subs \ {s} : sub'[x] = sub[x]
      BY <1>t, <3>1, SubSet
    <3>3. FewerWork
      BY <2>1, <3>1 DEF FewerWork
    <3>4. \A x \in Subs, m \in Nodes : OwnHandle(x, m)' =>
             OwnHandle(x, m) /\ age'[m][Key(x)] = age[m][Key(x)]
      BY SMT, <2>1, <3>1, <3>2 DEF OwnHandle, IsLocal
    <3> QED
      BY <1>t, <2>1, <3>1, <3>3, <3>4, FewerKept
  <2> QED
    BY <2>2, <2>3
<1>2. CASE Resolve(s)
  <2> DEFINE n == sub[s].at
             ranked == rankedOwners(n, Key(s), sub[s].tried)
  <2>1. sub[s].pc = "route" /\ UNCHANGED <<JobOf, held>>
    BY <1>2 DEF Resolve
  <2>2. PICK o \in Outcomes :
             LET owner == ResolveOwner(Key(s), ranked, o)
                 keep == owner = n /\ ~isDraining(n)
             IN  /\ Call(o, Assign(Key(s), ranked))
                 /\ IF owner = n THEN Touch(n, Key(s)) ELSE UNCHANGED age
                 /\ sub' = IF keep THEN [sub EXCEPT ![s] = Local(n)]
                           ELSE [sub EXCEPT ![s] =
                                   [pc |-> IF owner = n \/ s \in gone THEN "mark" ELSE "wait",
                                    at |-> n, to |-> owner, tried |-> sub[s].tried \cup {owner},
                                    left |-> sub[s].left - 1]]
                 /\ hand' = IF keep THEN [hand EXCEPT ![s][n] = "handle"]
                            ELSE IF owner = n \/ s \in gone THEN hand
                            ELSE [hand EXCEPT ![s][owner] = "flight"]
                 /\ Excuse((IF Failed(o) \/ Picked(Key(s), ranked) = None THEN {Key(s)} ELSE {})
                             \cup (IF Sticky(Key(s)) THEN {} ELSE Torn(Key(s))))
    BY <1>2 DEF Resolve
  <2> DEFINE owner == ResolveOwner(Key(s), ranked, o)
             more == (IF Failed(o) \/ Picked(Key(s), ranked) = None THEN {Key(s)} ELSE {})
                        \cup (IF Sticky(Key(s)) THEN {} ELSE Torn(Key(s)))
  <2>s. Sticky(k) => asg'[k] = asg[k]
    BY <1>k, <2>2 DEF Call, Assign, Picked, StoreTypes, storeVars
  <2>3. \A l \in Scopes \ {k} : asg'[l] = asg[l]
    BY <1>k, <2>2 DEF Call, Assign, StoreTypes, storeVars
  <2>4. k \notin more => asg'[k] = owner
    <3>1. k \notin more => o = "ok" /\ owner = Picked(Key(s), ranked)
      BY <1>k DEF Failed, ResolveOwner
    <3>2. o = "ok" => asg' = [asg EXCEPT ![k] = Picked(Key(s), ranked)]
      BY <1>k, <2>2 DEF Call, Applied, Assign
    <3> QED
      BY <3>1, <3>2 DEF StoreTypes
  <2>5. Excuse(more)
    BY <2>2
  <2>6. ASSUME NEW l \in Scopes \ (excused \cup more), NEW m \in Nodes, WorkAt(m, l) PROVE asg'[l] = m
    <3>1. l \notin Torn(k) /\ asg[l] = m
      BY <1>k, <2>s, <2>6 DEF OwnerInv, Torn
    <3> QED
      BY <2>3, <2>6, <3>1, TornKept
  <2>7. \/ hand' = hand
        \/ \E h \in {"handle", "flight"} : hand' = [hand EXCEPT ![s][owner] = h]
    BY <2>2
  <2>8. ASSUME NEW l \in Scopes \ (excused \cup more), NEW m \in Nodes, WorkAt(m, l)' PROVE asg'[l] = m
    <3> HIDE DEF owner, more
    <3>1. WorkAt(m, l) \/ (m = owner /\ l = k)
      <4>1. CASE hand' = hand
        <5>1. FewerWork
          BY <2>1, <4>1 DEF FewerWork
        <5> QED
          BY <2>8, <5>1, FewerWorks
      <4>2. ASSUME NEW h \in {"handle", "flight"}, hand' = [hand EXCEPT ![s][owner] = h]
            PROVE  WorkAt(m, l) \/ (m = owner /\ l = k)
        BY <1>w, <2>1, <2>8, <4>2
      <4> QED
        BY <2>7, <4>1, <4>2
    <3> QED
      BY <2>4, <2>6, <2>8, <3>1
  <2>9. ASSUME NEW x \in Subs, NEW m \in Nodes, OwnHandle(x, m)'
        PROVE  \/ age'[m][Key(x)] = Fresh
               \/ OwnHandle(x, m) /\ age'[m][Key(x)] = age[m][Key(x)]
    <3>1. Key(x) \in Scopes
      BY <1>t, ClusterAssumption DEF Key
    <3>2. age'[m][Key(x)] \in {age[m][Key(x)], Fresh}
      <4>1. CASE age' = age
        BY <4>1
      <4>2. CASE age' = [age EXCEPT ![n][Key(s)] = Fresh]
        <5> HIDE DEF n
        <5> QED
          BY <1>t, <3>1, <4>2 DEF NodeTypes
      <4> QED
        BY <2>2, <4>1, <4>2 DEF Touch
    <3>3. CASE x # s
      <4>1. sub'[x] = sub[x]
        BY <1>t, <2>2, <3>3
      <4>2. hand'[x] = hand[x]
        BY <1>t, <2>7, <3>3
      <4> QED
        BY <2>9, <3>2, <4>1, <4>2 DEF OwnHandle, IsLocal
    <3>4. CASE x = s
      <4>1. sub'[s].pc = "local" /\ sub'[s].at = m
        BY <2>9, <3>4 DEF OwnHandle, IsLocal
      <4>2. owner = n /\ sub' = [sub EXCEPT ![s] = Local(n)]
        BY <1>t, <2>2, <4>1
      <4>3. m = n
        BY <1>t, <4>1, <4>2 DEF Local
      <4>4. age' = [age EXCEPT ![n][Key(s)] = Fresh]
        BY <2>2, <4>2 DEF Touch
      <4>5. age' = [age EXCEPT ![m][Key(s)] = Fresh]
        BY <4>3, <4>4
      <4> QED
        BY <1>t, <3>1, <3>4, <4>5 DEF NodeTypes
    <3> QED
      BY <3>3, <3>4
  <2> HIDE DEF more
  <2> QED
    BY <1>t, <2>1, <2>5, <2>8, <2>9, OwnerKept
<1>3. CASE Unrouted(s) \/ ForwardTimeout(s) \/ CallerLeaves(s) \/ MarkUnavailable(s)
  <2>1. /\ UNCHANGED <<JobOf, hand, held, age>>
        /\ \/ sub' = [sub EXCEPT ![s] = Ended]
           \/ \E p \in {"mark", "route"} : sub' = [sub EXCEPT ![s].pc = p] /\ sub[s].pc \in Routing
    BY <1>3 DEF Unrouted, ForwardTimeout, CallerLeaves, MarkUnavailable, routerVars, Routing
  <2>2. FewerWork
    BY <2>1 DEF FewerWork
  <2>3. sub'[s].pc # "local" /\ \A x \in Subs \ {s} : sub'[x] = sub[x]
    <3>1. CASE sub' = [sub EXCEPT ![s] = Ended]
      BY <1>t, <3>1, SubSet DEF Ended
    <3>2. ASSUME NEW p \in {"mark", "route"}, sub' = [sub EXCEPT ![s].pc = p], sub[s].pc \in Routing
          PROVE  sub'[s].pc # "local" /\ \A x \in Subs \ {s} : sub'[x] = sub[x]
      <4>1. p \in Routing
        BY DEF Routing
      <4>2. /\ sub'[s] = [pc |-> p, at |-> sub[s].at, to |-> sub[s].to,
                           tried |-> sub[s].tried, left |-> sub[s].left]
            /\ \A x \in Subs \ {s} : sub'[x] = sub[x]
        BY <1>t, <3>2, <4>1, SenderStep
      <4>3. sub'[s].pc = p
        BY SMT, <4>2
      <4> QED
        BY <4>2, <4>3
    <3> QED
      BY <2>1, <3>1, <3>2
  <2>4. \A x \in Subs, n \in Nodes : OwnHandle(x, n)' => OwnHandle(x, n) /\ age'[n][Key(x)] = age[n][Key(x)]
    BY <2>1, <2>3 DEF OwnHandle, IsLocal
  <2>5. CASE Unrouted(s) \/ ForwardTimeout(s) \/ CallerLeaves(s)
    <3>1. Excuse({}) /\ asg' = asg
      BY <2>5 DEF Unrouted, ForwardTimeout, CallerLeaves, storeVars
    <3> QED
      BY <1>t, <2>2, <2>4, <3>1, FewerKept
  <2>6. CASE MarkUnavailable(s)
    <3>1. Excuse(Torn(k)) /\ (asg' = asg \/ asg' = [asg EXCEPT ![k] = None])
      BY <1>k, <2>6 DEF MarkUnavailable, CallRelease, Release
    <3>2. \A l \in Scopes \ {k} : asg'[l] = asg[l]
      BY <3>1 DEF StoreTypes
    <3>3. \A h \in Scopes \ (excused \cup Torn(k)), n \in Nodes :
             WorkAt(n, h) /\ asg[h] = n => asg'[h] = n
      BY <3>2, TornKept
    <3> QED
      BY <1>t, <2>2, <2>4, <3>1, <3>3, FewerKept
  <2> QED
    BY <1>3, <2>5, <2>6
<1>4. CASE NotDelivered(s) \/ Relay(s)
  <2>1. /\ UNCHANGED <<JobOf, held, age, asg>> /\ Excuse({})
        /\ hand' = [hand EXCEPT ![s][sub[s].to] = "none"]
        /\ sub[s].pc = "wait"
        /\ \/ sub' = [sub EXCEPT ![s] = Ended]
           \/ sub' = [sub EXCEPT ![s].pc = "mark"]
    BY <1>4 DEF NotDelivered, Relay, routerVars, storeVars
  <2>2. /\ \A m \in Nodes : hand'[s][m] = IF m = sub[s].to THEN "none" ELSE hand[s][m]
        /\ \A x \in Subs \ {s} : hand'[x] = hand[x]
    <3>1. "none" \in HandStates /\ hand' = [hand EXCEPT ![s][sub[s].to] = "none"]
      BY <2>1 DEF HandStates
    <3> QED
      BY <1>r, <3>1, HandSet
  <2>3. FewerWork
    <3>1. \A x \in Subs, m \in Nodes : hand'[x][m] = hand[x][m] \/ hand'[x][m] = "none"
      BY <2>2
    <3> QED
      BY <2>1, <3>1 DEF FewerWork, Counted
  <2>4. sub'[s].pc # "local" /\ \A x \in Subs \ {s} : sub'[x] = sub[x]
    <3>1. CASE sub' = [sub EXCEPT ![s] = Ended]
      BY <1>t, <3>1, SubSet DEF Ended
    <3>2. CASE sub' = [sub EXCEPT ![s].pc = "mark"]
      <4>1. "mark" \in Routing /\ sub[s].pc \in Routing
        BY <2>1 DEF Routing
      <4>2. /\ sub'[s] = [pc |-> "mark", at |-> sub[s].at, to |-> sub[s].to,
                           tried |-> sub[s].tried, left |-> sub[s].left]
            /\ \A x \in Subs \ {s} : sub'[x] = sub[x]
        BY <1>t, <3>2, <4>1, SenderStep
      <4> QED
        BY SMT, <4>2
    <3> QED
      BY <2>1, <3>1, <3>2
  <2>5. \A x \in Subs, n \in Nodes : OwnHandle(x, n)' => OwnHandle(x, n) /\ age'[n][Key(x)] = age[n][Key(x)]
    BY <2>1, <2>2, <2>4 DEF OwnHandle, IsLocal
  <2> QED
    BY <1>t, <2>1, <2>3, <2>5, FewerKept
<1> QED
  BY <1>1, <1>2, <1>3, <1>4 DEF Sender

\* The scopes a count touches are fresh.
LEMMA CountedFresh ==
    ASSUME NodeTypes, NEW n \in Nodes, NEW k \in Scopes \cup {None},
           TrackLocalJob(n, k) \/ CompleteLocalJob(n, k) \/ age' = age,
           NEW m \in Nodes, NEW h \in Scopes
    PROVE  age'[m][h] \in {age[m][h], Fresh}
<1>1. CASE age' = age
  BY <1>1
<1>2. CASE k \in Scopes /\ age' = [age EXCEPT ![n][k] = Fresh]
  BY <1>2 DEF NodeTypes
<1> QED
  BY <1>1, <1>2 DEF TrackLocalJob, CompleteLocalJob, Touch

\* A handler's steps give its node no work it was not already sent.
LEMMA OwnerHandler ==
    ASSUME RequestInv, OwnerInv, NEW s \in Subs, NEW n \in Nodes, Handler(s, n) \/ Vanish(s, n)
    PROVE  OwnerInv'
<1>r. RequestTypes
  BY DEF RequestInv
<1>t. /\ RequestTypes /\ NodeTypes /\ AtOneNode(s)
      /\ hand \in [Subs -> [Nodes -> HandStates]] /\ sub = [x \in Subs |-> sub[x]]
      /\ JobOf \in [Subs -> Jobs]
  BY DEF RequestInv, RequestTypes, NodeTypes
<1>k. /\ \A x \in Subs : Key(x) \in Scopes
      /\ JobOf[s] \in Jobs /\ UserOf[JobOf[s]] \in Scopes \cup {None}
  BY <1>t, ClusterAssumption DEF Key
<1>0. ASSUME NEW h \in HandStates, hand' = [hand EXCEPT ![s][n] = h],
             sub' = sub \/ sub' = [sub EXCEPT ![s] = Ended],
             UNCHANGED <<JobOf, asg>>, Excuse({}),
             h \in {"flight", "handle"} \cup Counted => hand[s][n] \in {"flight", "handle"} \cup Counted,
             h = "handle" => hand[s][n] = "flight",
             \A m \in Nodes : held'[m] \subseteq held[m] \/ (m = n /\ held'[m] \subseteq held[m] \cup {JobOf[s]}
                                                          /\ hand[s][n] \in Counted),
             \A m \in Nodes, l \in Scopes : age'[m][l] \in {age[m][l], Fresh}
      PROVE  OwnerInv'
  <2>1. /\ \A m \in Nodes : hand'[s][m] = IF m = n THEN h ELSE hand[s][m]
        /\ \A x \in Subs \ {s} : hand'[x] = hand[x]
    BY <1>r, <1>0, HandSet
  <2>2. FewerWork
    <3>1. ASSUME NEW x \in Subs, NEW m \in Nodes, hand'[x][m] \in {"flight", "handle"} \cup Counted
          PROVE  hand[x][m] \in {"flight", "handle"} \cup Counted
      BY <1>0, <2>1, <3>1
    <3> QED
      BY <1>0, <3>1 DEF FewerWork
  <2>3. \A x \in Subs : sub'[x].pc = "local" => sub'[x] = sub[x]
    BY SMT, <1>t, <1>0 DEF Ended
  <2>4. ASSUME NEW x \in Subs, NEW m \in Nodes, OwnHandle(x, m)' PROVE OwnHandle(x, m)
    <3>1. IsLocal(x, m) /\ hand'[x][m] = "handle"
      BY <2>3, <2>4 DEF OwnHandle, IsLocal
    <3>2. CASE x = s /\ m = n
      BY <1>t, <1>0, <2>1, <3>1, <3>2 DEF IsLocal, AtOneNode
    <3>3. CASE x # s \/ m # n
      BY <2>1, <3>1, <3>3 DEF OwnHandle
    <3> QED
      BY <3>2, <3>3
  <2>5. \A x \in Subs, m \in Nodes : OwnHandle(x, m)' =>
           \/ age'[m][Key(x)] = Fresh
           \/ OwnHandle(x, m) /\ age'[m][Key(x)] = age[m][Key(x)]
    BY <1>k, <1>0, <2>4
  <2> QED
    BY <1>t, <1>0, <2>2, <2>5, FewerKept
<1>1. CASE Arrive(s, n) \/ Vanish(s, n)
  <2>1. /\ UNCHANGED <<JobOf, asg, sub, held, age>> /\ Excuse({}) /\ hand[s][n] = "flight"
        /\ hand' = [hand EXCEPT ![s][n] = "none"] \/ hand' = [hand EXCEPT ![s][n] = "handle"]
    BY <1>1 DEF Arrive, Vanish, routerVars, storeVars
  <2>2. "none" \in HandStates /\ "handle" \in HandStates /\ "none" \notin {"flight", "handle"} \cup Counted
    BY DEF HandStates, Counted
  <2> QED
    BY <1>0, <2>1, <2>2
<1>2. CASE Track(s, n)
  <2>1. /\ UNCHANGED <<JobOf, asg, sub, held>> /\ Excuse({}) /\ hand[s][n] = "handle"
        /\ hand' = [hand EXCEPT ![s][n] = "tracked"] /\ TrackLocalJob(n, Key(s))
    BY <1>2 DEF Track, storeVars
  <2>2. "tracked" \in HandStates
    BY DEF HandStates
  <2>3. \A m \in Nodes, l \in Scopes : age'[m][l] \in {age[m][l], Fresh}
    BY <1>t, <1>k, <2>1, CountedFresh
  <2> QED
    BY <1>0, <2>1, <2>2, <2>3
<1>3. ASSUME NEW answer \in {"ok", "drain"}, Return(s, n, answer), UNCHANGED <<JobOf, asg, held>>, Excuse({})
      PROVE  OwnerInv'
  <2> DEFINE h == IF sub[s].pc = "wait" /\ sub[s].to = n THEN answer ELSE "none"
  <2>1. hand' = [hand EXCEPT ![s][n] = h] /\ h \in HandStates /\ h \notin {"flight", "handle"} \cup Counted
    BY <1>3 DEF Return, HandStates, Counted
  <2>2. (sub' = sub \/ sub' = [sub EXCEPT ![s] = Ended]) /\ CompleteLocalJob(n, Key(s))
    BY <1>3 DEF Return
  <2>3. \A m \in Nodes, l \in Scopes : age'[m][l] \in {age[m][l], Fresh}
    BY <1>t, <1>k, <2>2, CountedFresh
  <2> HIDE DEF h
  <2> QED
    BY <1>0, <1>3, <2>1, <2>2, <2>3
<1>4. CASE (Admit(s, n) /\ isDraining(n)) \/ Finish(s, n)
  <2>1. /\ UNCHANGED <<JobOf, asg, held>> /\ Excuse({})
        /\ Return(s, n, "ok") \/ Return(s, n, "drain")
    BY <1>4 DEF Admit, Finish, storeVars
  <2> QED
    BY <1>3, <2>1
<1>5. CASE Admit(s, n) /\ ~isDraining(n)
  <2>1. /\ UNCHANGED <<JobOf, asg, sub>> /\ Excuse({}) /\ hand[s][n] = "tracked"
        /\ hand' = [hand EXCEPT ![s][n] = "decided"]
        /\ TrackLocalJob(n, UserOf[JobOf[s]]) \/ age' = age
        /\ held' = held \/ held' = [held EXCEPT ![n] = @ \cup {JobOf[s]}]
    BY <1>5 DEF Admit, storeVars
  <2>2. "decided" \in HandStates /\ "tracked" \in Counted
    BY DEF HandStates, Counted
  <2>3. \A m \in Nodes, l \in Scopes : age'[m][l] \in {age[m][l], Fresh}
    BY <1>t, <1>k, <2>1, CountedFresh
  <2>4. \A m \in Nodes : held'[m] \subseteq held[m] \/ (m = n /\ held'[m] \subseteq held[m] \cup {JobOf[s]})
    BY <1>t, <2>1 DEF NodeTypes
  <2> QED
    BY <1>0, <2>1, <2>2, <2>3, <2>4
<1>6. CASE Reject(s, n)
  <2>1. /\ UNCHANGED <<JobOf, asg, sub, held>> /\ Excuse({}) /\ hand[s][n] = "tracked"
        /\ hand' = [hand EXCEPT ![s][n] = "decided"]
        /\ age' = age \/ age' = [age EXCEPT ![n][UserOf[JobOf[s]]] = Fresh]
    BY <1>6 DEF Reject, Touch, storeVars
  <2>2. "decided" \in HandStates /\ "tracked" \in Counted
    BY DEF HandStates, Counted
  <2>3. \A m \in Nodes, l \in Scopes : age'[m][l] \in {age[m][l], Fresh}
    <3> DEFINE u == UserOf[JobOf[s]]
    <3>1. CASE age' = age
      BY <3>1
    <3>2. CASE age' = [age EXCEPT ![n][u] = Fresh]
      <4> HIDE DEF u
      <4> QED
        BY <1>t, <3>2 DEF NodeTypes
    <3> QED
      BY <2>1, <3>1, <3>2
  <2> QED
    BY <1>0, <2>1, <2>2, <2>3
<1> QED
  BY <1>1, <1>2, <1>4, <1>5, <1>6 DEF Handler

\* Every step keeps work with the node a scope is assigned to.
LEMMA OwnerStep ==
    ASSUME StoreInv, RequestInv, OutstandingExact, OwnerInv, [Next]_vars
    PROVE  OwnerInv'
<1>t. StoreTypes /\ RequestTypes /\ NodeTypes /\ JobOf \in [Subs -> Jobs]
  BY DEF StoreInv, RequestInv, RequestTypes, NodeTypes
<1>k. \A x \in Subs : Key(x) \in Scopes
  BY <1>t, ClusterAssumption DEF Key
<1>0. ASSUME Excuse({}), UNCHANGED <<requestVars, asg>>,
             \A s \in Subs, n \in Nodes : OwnHandle(s, n) => age'[n][Key(s)] = age[n][Key(s)]
      PROVE  OwnerInv'
  <2>1. FewerWork
    BY <1>0 DEF FewerWork, requestVars
  <2>2. \A s \in Subs, n \in Nodes : OwnHandle(s, n)' => OwnHandle(s, n)
    BY <1>0 DEF OwnHandle, IsLocal, requestVars
  <2> QED
    BY <1>t, <1>0, <2>1, <2>2, FewerKept
<1>1. CASE UNCHANGED vars
  <2>1. UNCHANGED <<JobOf, sub, hand, held, age, asg, excused>>
    BY <1>1 DEF vars, requestVars, routerVars, storeVars
  <2>2. \A k, n : WorkAt(n, k)' <=> WorkAt(n, k)
    BY <2>1 DEF WorkAt, Key
  <2>3. \A s, n : OwnHandle(s, n)' <=> OwnHandle(s, n)
    BY <2>1 DEF OwnHandle, IsLocal
  <2>4. \A s \in Subs : Key(s)' = Key(s)
    BY <2>1 DEF Key
  <2> QED
    BY <2>1, <2>2, <2>3, <2>4 DEF OwnerInv
<1>2. ASSUME NEW n \in Nodes,
             \/ SyncState(n) \/ SyncClean(n) \/ BeginDrain(n) \/ SetState(n)
             \/ InstanceExpires(n) \/ (\E m \in Nodes : Unprune(n, m))
      PROVE  OwnerInv'
  <2>1. UNCHANGED <<requestVars, asg, age>> /\ Excuse({})
    BY <1>2 DEF SyncState, SyncClean, BeginDrain, SetState, InstanceExpires, Unprune, Drop,
                Call, storeVars, routerVars
  <2> QED
    BY <1>0, <2>1
<1>3. ASSUME NEW k \in Scopes, AssignmentExpires(k) \/ \E n \in Nodes : LateRelease(k, n)
      PROVE  OwnerInv'
  <2>1. /\ UNCHANGED <<requestVars, age>> /\ Excuse(Torn(k))
        /\ asg' = asg \/ asg' = [asg EXCEPT ![k] = None]
    BY <1>3 DEF AssignmentExpires, LateRelease, Release, routerVars
  <2>2. \A l \in Scopes \ {k} : asg'[l] = asg[l]
    BY <1>t, <2>1 DEF StoreTypes
  <2>3. \A h \in Scopes \ (excused \cup Torn(k)), n \in Nodes :
           WorkAt(n, h) /\ asg[h] = n => asg'[h] = n
    BY <2>2, TornKept
  <2>4. FewerWork
    BY <2>1 DEF FewerWork, requestVars
  <2>5. \A s \in Subs, n \in Nodes : OwnHandle(s, n)' => OwnHandle(s, n) /\ age'[n][Key(s)] = age[n][Key(s)]
    BY <2>1 DEF OwnHandle, IsLocal, requestVars
  <2> QED
    BY <1>t, <2>1, <2>3, <2>4, <2>5, FewerKept
<1>4. ASSUME NEW n \in Nodes, NEW k, Release(k, n) \/ asg' = asg,
             age' = age \/ Forget(n, k), UNCHANGED requestVars,
             out[n][k] = 0, age[n][k] # Fresh, Excuse(GivenUp(n, k))
      PROVE  OwnerInv'
  <2>1. /\ asg' = asg \/ asg' = [asg EXCEPT ![k] = None]
        /\ asg' # asg => asg[k] = n
        /\ age' = age \/ age' = [age EXCEPT ![n][k] = Gone]
    BY <1>4 DEF Release, Forget
  <2> QED
    BY <1>t, <1>4, <2>1, GiveUpKeeps
<1>5. ASSUME NEW n \in Nodes, NEW k \in Scopes, ReleaseIdle(n, k) PROVE OwnerInv'
  BY SMT, <1>4, <1>5 DEF ReleaseIdle, CallRelease, IsIdle, Idle, Fresh
<1>6. ASSUME NEW n \in Nodes, HandOff(n) PROVE OwnerInv'
  <2>1. CASE UNCHANGED <<storeVars, age, requestVars>> /\ Excuse({})
    BY <1>0, <2>1 DEF storeVars
  <2>2. CASE \E k : /\ Release(k, n) \/ asg' = asg
                    /\ age' = age \/ Forget(n, k)
                    /\ handOffCandidate(n, k) /\ Excuse(GivenUp(n, k)) /\ UNCHANGED requestVars
    BY SMT, <1>4, <2>2 DEF handOffCandidate, Rested, Fresh
  <2>3. \/ UNCHANGED <<storeVars, age, requestVars>> /\ Excuse({})
        \/ \E k : /\ Release(k, n) \/ asg' = asg
                  /\ age' = age \/ Forget(n, k)
                  /\ handOffCandidate(n, k) /\ Excuse(GivenUp(n, k)) /\ UNCHANGED requestVars
    BY <1>6 DEF HandOff, CallRelease
  <2> QED
    BY <2>1, <2>2, <2>3
<1>7. ASSUME NEW n \in Nodes, Close(n) PROVE OwnerInv'
  <2>1. /\ UNCHANGED <<requestVars, asg>> /\ Excuse({})
        /\ \A s \in Subs : hand[s][n] # "handle"
        /\ age' = [age EXCEPT ![n] = [k \in Scopes |-> Gone]]
    BY <1>7 DEF Close, RemoveInstance, Drop
  <2>2. \A s \in Subs, m \in Nodes : OwnHandle(s, m) => m # n
    BY <2>1 DEF OwnHandle
  <2>3. \A m \in Nodes : m # n => age'[m] = age[m]
    BY <1>t, <2>1 DEF NodeTypes
  <2> QED
    BY <1>0, <2>1, <2>2, <2>3
<1>8. ASSUME NEW n \in Nodes, NEW k \in Scopes, Grow(n, k) PROVE OwnerInv'
  <2>1. /\ UNCHANGED <<requestVars, asg>> /\ Excuse({}) /\ Settled(n, k)
        /\ age' = [age EXCEPT ![n][k] = @ + 1]
    BY <1>8 DEF Grow, storeVars
  <2>2. \A s \in Subs, m \in Nodes : OwnHandle(s, m) => m # n \/ Key(s) # k
    BY <2>1 DEF OwnHandle, Settled
  <2>3. \A m \in Nodes, l \in Scopes : m # n \/ l # k => age'[m][l] = age[m][l]
    BY <1>t, <2>1 DEF NodeTypes
  <2> QED
    BY <1>0, <1>k, <2>1, <2>2, <2>3
<1>9. ASSUME NEW n \in Nodes, NEW j \in Jobs, JobDone(n, j) PROVE OwnerInv'
  <2>1. /\ UNCHANGED <<JobOf, sub, hand, asg>> /\ Excuse({}) /\ CompleteLocalJob(n, UserOf[j])
        /\ held' = [held EXCEPT ![n] = @ \ {j}]
    BY <1>9 DEF JobDone, storeVars
  <2>2. FewerWork
    <3>1. \A m \in Nodes : held'[m] \subseteq held[m]
      BY <1>t, <2>1 DEF NodeTypes
    <3> QED
      BY <2>1, <3>1 DEF FewerWork
  <2>3. UserOf[j] \in Scopes \cup {None}
    BY ClusterAssumption
  <2>4. \A m \in Nodes, l \in Scopes : age'[m][l] \in {age[m][l], Fresh}
    BY <1>t, <2>1, <2>3, CountedFresh
  <2>5. \A s \in Subs, m \in Nodes : OwnHandle(s, m)' =>
           \/ age'[m][Key(s)] = Fresh
           \/ OwnHandle(s, m) /\ age'[m][Key(s)] = age[m][Key(s)]
    BY <1>k, <2>1, <2>4 DEF OwnHandle, IsLocal
  <2> QED
    BY <1>t, <2>1, <2>2, <2>5, FewerKept
<1> QED
  BY <1>t, <1>1, <1>2, <1>3, <1>5, <1>6, <1>7, <1>8, <1>9, OwnerSubmission, OwnerHandler
     DEF Next, Sync

\* Whatever the cluster, the scopes, the jobs and the faults: two nodes never hold
\* work of one scope at the same time, unless the scope was taken from a node
\* that had work for it by an event the code accepts, or given up by a node that
\* could not see its work.
THEOREM OwnerCorrect == Spec => []OneOwnerWorks
<1>1. Init => StoreInv /\ KeyInv /\ OutstandingExact /\ OwnerInv
  <2> SUFFICES ASSUME Init PROVE StoreInv /\ KeyInv /\ OutstandingExact /\ OwnerInv
    OBVIOUS
  <2>1. StoreInv /\ KeyInv
    BY StoreStart
  <2>2. OutstandingExact
    BY CountStart
  <2>3. OwnerInv
    BY DEF Init, OwnerInv, OwnHandle, IsLocal, WorkAt, Counted
  <2> QED
    BY <2>1, <2>2, <2>3
<1>2. OwnerInv => OneOwnerWorks
  BY DEF OwnerInv, OneOwnerWorks
<1> QED
  BY <1>1, <1>2, RequestStart, StepKeeps, RequestStep, CountStep, OwnerStep, PTL DEF Spec
=============================================================================
