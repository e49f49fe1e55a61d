------------------------ MODULE TargetWorkersProofs ------------------------
(***************************************************************************)
(* Proofs about TargetWorkers, for any jobs, keys, users, budgets and      *)
(* number of workers, and about the pace the queues of a worker share.     *)
(***************************************************************************)
EXTENDS TargetWorkers, SharedPace, FiniteSetTheorems, TLAPS

\* The leaves are first-order and set reasoning except where they say SMT.
USE ZenonT(40)

\* Where the worker a submission resolved is still needed.
Placed == {"header", "reserve", "handoff", "stale", "held"}

\* The control part of the inductive invariant: what the registry's entry, the
\* stop flags and the places of the jobs have to do with each other.
Control ==
    /\ \A w \in Workers \ closed : w = current
    /\ retired \subseteq closed
    /\ \A j \in Jobs : pc[j] \in Placed => at[j] \in Workers
    /\ \A j \in Jobs : pc[j] = "stale" => at[j] \in closed
    /\ \A j \in Jobs : pc[j] \in {"handoff", "held"} =>
          /\ on[j] \in queues[at[j]]
          /\ at[j] \in closed => at[j] \in toStop /\ closer = "stop"
    /\ closer \in {"stop", "done"} => Enqueuing = {}
    /\ closer # "no" => stop

IInv == TypeOK /\ Control

-----------------------------------------------------------------------------
(* The load of the users, given IInv: what counting and ending a job do to it. *)

Fields == {"jobs", "webhooks"}

\* LoadExact for one user and one count.
LoadOf(u, f) ==
    /\ load[u][f] >= OwedTo(u, f) + Cardinality(Unfinished(u, f))
                       - Cardinality(Uncounted(u, f))
    /\ (\A j \in outran : UserOf[j] # u) =>
          load[u][f] = OwedTo(u, f) + Cardinality(Unfinished(u, f))

\* How far a job is when it is counted, and when it ended uncounted.
Counting ==
    /\ \A j \in counted : pc[j] \in {"held", "done", "stored"}
    /\ \A j \in Jobs : pc[j] = "done" /\ j \notin counted => j \in outran
    /\ \A j \in outran : pc[j] = "done"

LoadInv == IInv /\ Counting /\ \A u \in Users, f \in Fields : LoadOf(u, f)

LEMMA LoadSets ==
    ASSUME TypeOK, NEW u, NEW f
    PROVE  /\ IsFiniteSet(Unfinished(u, f)) /\ Cardinality(Unfinished(u, f)) \in Nat
           /\ IsFiniteSet(Uncounted(u, f)) /\ Cardinality(Uncounted(u, f)) \in Nat
<1>1. Unfinished(u, f) \subseteq Jobs /\ Uncounted(u, f) \subseteq Jobs
  BY DEF TypeOK, Unfinished, Uncounted
<1>2. IsFiniteSet(Unfinished(u, f)) /\ IsFiniteSet(Uncounted(u, f))
  BY <1>1, KeyAssumption, FS_Subset
<1> QED
  BY <1>2, FS_CardinalityType

LEMMA LoadTypes ==
    ASSUME TypeOK, NEW u \in Users, NEW f \in Fields
    PROVE  load[u][f] \in Nat /\ OwedTo(u, f) \in Nat
<1>1. load[u] \in [jobs : Nat, webhooks : Nat]
  BY DEF TypeOK
<1> QED
  BY <1>1, KeyAssumption DEF Fields, OwedTo

\* users.add and users.done touch one count of one user.
LEMMA AddTouches ==
    ASSUME TypeOK, NEW j \in Jobs, NEW n \in Nat,
           load' = LoadSet(j, n),
           NEW u \in Users, NEW f \in Fields
    PROVE  load'[u][f] = IF u = UserOf[j] /\ f = Field(j) THEN n ELSE load[u][f]
<1>1. load[u] \in [jobs : Nat, webhooks : Nat] /\ UserOf[j] \in Users
  BY KeyAssumption DEF TypeOK
<1>2. CASE j \in Deliveries
  BY <1>1, <1>2 DEF TypeOK, Field, Fields, LoadSet
<1>3. CASE j \notin Deliveries
  BY <1>1, <1>3 DEF TypeOK, Field, Fields, LoadSet
<1> QED
  BY <1>2, <1>3

\* A step that counts and ends no job keeps every load.
LEMMA LoadQuiet ==
    ASSUME LoadInv, UNCHANGED loadVars,
           \A j \in Jobs :
              \/ pc'[j] = pc[j]
              \/ pc[j] = "held" /\ pc'[j] = "stored"
              \/ pc[j] \notin {"held", "done", "stored"} /\ pc'[j] # "done"
    PROVE  Counting' /\ \A u \in Users, f \in Fields : LoadOf(u, f)'
<1> USE DEF loadVars
<1>0. counted \subseteq Jobs /\ outran \subseteq Jobs
  BY DEF LoadInv, IInv, TypeOK
<1>1. Counting'
  BY <1>0 DEF LoadInv, Counting
<1>2. ASSUME NEW u \in Users, NEW f \in Fields PROVE LoadOf(u, f)'
  <2>1. Unfinished(u, f)' = Unfinished(u, f)
    BY <1>0 DEF LoadInv, Counting, Unfinished
  <2>2. Uncounted(u, f)' = Uncounted(u, f)
    BY DEF Uncounted
  <2>3. LoadOf(u, f)
    BY DEF LoadInv
  <2> QED
    BY <2>1, <2>2, <2>3 DEF LoadOf
<1> QED
  BY <1>1, <1>2

\* users.add, whether the job is still held or has ended already.
LEMMA CountKeeps ==
    ASSUME LoadInv, NEW j \in Jobs, Count(j)
    PROVE  Counting' /\ \A u \in Users, f \in Fields : LoadOf(u, f)'
<1> USE DEF callVars
<1>t. TypeOK /\ Counting /\ counted \subseteq Jobs /\ outran \subseteq Jobs
  BY DEF LoadInv, IInv, TypeOK
<1>c. /\ pc[j] \in {"held", "done"} /\ j \notin counted
      /\ counted' = counted \cup {j} /\ outran' = outran /\ pc' = pc
  BY DEF Count
<1>1. Counting'
  BY <1>t, <1>c DEF Counting
<1>2. ASSUME NEW u \in Users, NEW f \in Fields PROVE LoadOf(u, f)'
  <2> DEFINE mine == u = UserOf[j] /\ f = Field(j)
             uf == Unfinished(u, f)
             un == Uncounted(u, f)
  <2>0. UserOf[j] \in Users /\ Field(j) \in Fields
    BY KeyAssumption DEF Field, Fields
  <2>1. /\ LoadOf(u, f) /\ load[u][f] \in Nat /\ OwedTo(u, f) \in Nat
        /\ IsFiniteSet(uf) /\ Cardinality(uf) \in Nat
        /\ IsFiniteSet(un) /\ Cardinality(un) \in Nat
    BY <1>t, LoadSets, LoadTypes DEF LoadInv
  <2>2. load'[u][f] = IF mine THEN load[u][f] + 1 ELSE load[u][f]
    <3>1. LoadFor(j) + 1 \in Nat
      BY SMT, <1>t, <2>0, LoadTypes DEF LoadFor
    <3>2. load'[u][f] = IF mine THEN LoadFor(j) + 1 ELSE load[u][f]
      BY SMT, <1>t, <3>1, AddTouches DEF Count
    <3> QED
      BY <3>2 DEF LoadFor
  <2>3. CASE ~mine
    <3>1. Unfinished(u, f)' = uf
      BY <1>c, <2>3 DEF Unfinished
    <3>2. Uncounted(u, f)' = un
      BY <1>c, <2>3 DEF Uncounted
    <3> QED
      BY <1>c, <2>1, <2>2, <2>3, <3>1, <3>2 DEF LoadOf
  <2>4. CASE mine /\ pc[j] = "held"
    <3>1. Unfinished(u, f)' = uf \cup {j} /\ j \notin uf
      BY <1>c, <2>4 DEF Unfinished
    <3>2. Uncounted(u, f)' = un
      BY <1>t, <1>c, <2>4 DEF Uncounted, Counting
    <3>3. Cardinality(uf \cup {j}) = Cardinality(uf) + 1
      BY <2>1, <3>1, FS_AddElement
    <3>4. Cardinality(Unfinished(u, f)') = Cardinality(uf) + 1
      BY <3>1, <3>3
    <3> QED
      BY SMT, <1>c, <2>1, <2>2, <2>4, <3>2, <3>4 DEF LoadOf
  <2>5. CASE mine /\ pc[j] = "done"
    <3>0. j \in outran
      BY <1>t, <1>c, <2>5 DEF Counting
    <3>1. Unfinished(u, f)' = uf
      BY <1>c, <2>5 DEF Unfinished
    <3>2. Uncounted(u, f)' = un \ {j} /\ j \in un
      BY <1>c, <2>5, <3>0 DEF Uncounted
    <3>3. Cardinality(un \ {j}) = Cardinality(un) - 1
      BY <2>1, <3>2, FS_RemoveElement
    <3>4. Cardinality(Uncounted(u, f)') = Cardinality(un) - 1
      BY <3>2, <3>3
    <3>5. ~(\A i \in outran' : UserOf[i] # u)
      BY <1>c, <2>5, <3>0
    <3> QED
      BY SMT, <2>1, <2>2, <2>5, <3>1, <3>4, <3>5 DEF LoadOf
  <2> QED
    BY <1>c, <2>3, <2>4, <2>5
<1> QED
  BY <1>1, <1>2

\* users.done, whether the job was counted before or is counted later.
LEMMA FinishKeeps ==
    ASSUME LoadInv, NEW j \in Jobs, Finish(j)
    PROVE  Counting' /\ \A u \in Users, f \in Fields : LoadOf(u, f)'
<1>t. TypeOK /\ Counting /\ counted \subseteq Jobs /\ outran \subseteq Jobs
  BY DEF LoadInv, IInv, TypeOK
<1>c. /\ pc[j] = "held" /\ pc' = [pc EXCEPT ![j] = "done"] /\ counted' = counted
      /\ outran' = IF j \in counted THEN outran ELSE outran \cup {j}
      /\ load' = LoadWithout(j)
  BY DEF Finish
<1>p. /\ pc'[j] = "done" /\ j \notin outran
      /\ \A i \in Jobs \ {j} : pc'[i] = pc[i]
  BY <1>t, <1>c DEF TypeOK, Counting
<1>1. Counting'
  BY <1>t, <1>c, <1>p DEF Counting
<1>2. ASSUME NEW u \in Users, NEW f \in Fields PROVE LoadOf(u, f)'
  <2> DEFINE mine == u = UserOf[j] /\ f = Field(j)
             uf == Unfinished(u, f)
             un == Uncounted(u, f)
  <2>0. UserOf[j] \in Users /\ Field(j) \in Fields
    BY KeyAssumption DEF Field, Fields
  <2>1. /\ LoadOf(u, f) /\ load[u][f] \in Nat /\ OwedTo(u, f) \in Nat
        /\ IsFiniteSet(uf) /\ Cardinality(uf) \in Nat
        /\ IsFiniteSet(un) /\ Cardinality(un) \in Nat
    BY <1>t, LoadSets, LoadTypes DEF LoadInv
  <2>2. load'[u][f] = IF mine THEN Larger(load[u][f] - 1, 0) ELSE load[u][f]
    <3>1. Larger(LoadFor(j) - 1, 0) \in Nat
      BY SMT, <1>t, <2>0, LoadTypes DEF LoadFor, Larger
    <3>2. load'[u][f] = IF mine THEN Larger(LoadFor(j) - 1, 0) ELSE load[u][f]
      BY SMT, <1>t, <1>c, <3>1, AddTouches DEF LoadWithout
    <3> QED
      BY <3>2 DEF LoadFor
  <2>3. CASE ~mine
    <3>1. Unfinished(u, f)' = uf
      BY <1>t, <1>c, <1>p, <2>3 DEF Unfinished
    <3>2. Uncounted(u, f)' = un
      BY <1>c, <2>3 DEF Uncounted
    <3>3. (\A i \in outran' : UserOf[i] # u) => \A i \in outran : UserOf[i] # u
      BY <1>c
    <3> QED
      BY <2>1, <2>2, <2>3, <3>1, <3>2, <3>3 DEF LoadOf
  <2>4. CASE mine /\ j \in counted
    <3>1. Unfinished(u, f)' = uf \ {j} /\ j \in uf
      BY <1>t, <1>c, <1>p, <2>4 DEF Unfinished
    <3>2. Uncounted(u, f)' = un /\ outran' = outran
      BY <1>c, <2>4 DEF Uncounted
    <3>3. Cardinality(uf \ {j}) = Cardinality(uf) - 1
      BY <2>1, <3>1, FS_RemoveElement
    <3>4. Cardinality(Unfinished(u, f)') = Cardinality(uf) - 1
      BY <3>1, <3>3
    <3>5. Cardinality(uf) - 1 \in Nat
      <4>1. IsFiniteSet(uf \ {j})
        BY <2>1, FS_Subset
      <4> QED
        BY <3>3, <4>1, FS_CardinalityType
    <3> QED
      BY SMT, <2>1, <2>2, <2>4, <3>2, <3>4, <3>5 DEF LoadOf, Larger
  <2>5. CASE mine /\ j \notin counted
    <3>1. Unfinished(u, f)' = uf
      BY <1>t, <1>c, <1>p, <2>5 DEF Unfinished
    <3>2. Uncounted(u, f)' = un \cup {j} /\ j \notin un
      BY <1>c, <1>p, <2>5 DEF Uncounted
    <3>3. Cardinality(un \cup {j}) = Cardinality(un) + 1
      BY <2>1, <3>2, FS_AddElement
    <3>4. Cardinality(Uncounted(u, f)') = Cardinality(un) + 1
      BY <3>2, <3>3
    <3>5. ~(\A i \in outran' : UserOf[i] # u)
      BY <1>c, <2>5
    <3> QED
      BY SMT, <2>1, <2>2, <2>5, <3>1, <3>4, <3>5 DEF LoadOf, Larger
  <2> QED
    BY <2>3, <2>4, <2>5
<1> QED
  BY <1>1, <1>2

\* At first only the webhooks owed from before count.
LEMMA LoadInit ==
    ASSUME Init, NEW u \in Users, NEW f \in Fields
    PROVE  LoadOf(u, f)
<1>1. Unfinished(u, f) = {} /\ Uncounted(u, f) = {}
  BY DEF Init, Unfinished, Uncounted
<1>2. Cardinality(Unfinished(u, f)) = 0 /\ Cardinality(Uncounted(u, f)) = 0
  BY <1>1, FS_EmptySet
<1>3. load[u][f] = OwedTo(u, f) /\ OwedTo(u, f) \in Nat
  BY SMT, KeyAssumption DEF Init, OwedTo, Fields
<1> QED
  BY SMT, <1>2, <1>3 DEF LoadOf

-----------------------------------------------------------------------------
(* IInv. *)

\* Worker settings stay what they are declared to be when one field changes.
LEMMA FreshType ==
    ASSUME NEW mode \in Modes \cup {None} PROVE Fresh(mode) \in Settings
BY KeyAssumption DEF Fresh, Settings

LEMMA OptedInType ==
    ASSUME NEW s \in Settings, NEW b \in BOOLEAN PROVE [s EXCEPT !.optedIn = b] \in Settings
BY DEF Settings

LEMMA DestinationType ==
    ASSUME NEW s \in Settings, NEW m \in Modes PROVE [s EXCEPT !.destination = m] \in Settings
BY DEF Settings

LEMMA FloorType ==
    ASSUME NEW s \in Settings, NEW n \in Nat PROVE [s EXCEPT !.shrinkFloor = n] \in Settings
BY DEF Settings

\* The control invariant holds when the registry is created.
LEMMA InitHolds == Init => IInv
<1> SUFFICES ASSUME Init PROVE IInv
  OBVIOUS
<1>1. Fresh(None) \in Settings
  BY FreshType
<1>2. TypeOK
  BY <1>1, KeyAssumption DEF Init, TypeOK, Queue, Workers
<1>3. Control
  BY DEF Init, Control, Placed, Enqueuing
<1> QED
  BY <1>2, <1>3 DEF IInv

\* resolveWorkerLocked keeps the types of what it sets.
LEMMA WorkerType ==
    ASSUME TypeOK, NEW w \in Workers, Worker(w)
    PROVE  /\ current' \in Workers \cup {None}
           /\ closed' \in SUBSET Workers
           /\ settings' \in [Workers -> Settings]
<1>1. Fresh(remembered) \in Settings
  BY FreshType DEF TypeOK
<1> QED
  BY <1>1 DEF TypeOK, Worker

\* The three outcomes of reserve: the worker had stopped, admission refuses the
\* job, or the job has its place.
ReserveStale(j) ==
    /\ at[j] \in closed
    /\ pc' = [pc EXCEPT ![j] = "stale"]
    /\ UNCHANGED <<at, on, queues, settings>>

ReserveRefused(j) ==
    /\ at[j] \notin closed
    /\ settings' = [settings EXCEPT ![at[j]].shrinkFloor = FloorThen(at[j], j)]
    /\ pc' = [pc EXCEPT ![j] = "refused"]
    /\ at' = [at EXCEPT ![j] = None]
    /\ UNCHANGED <<on, queues>>

ReservePlace(j) ==
    /\ at[j] \notin closed
    /\ settings' = [settings EXCEPT ![at[j]].shrinkFloor = FloorThen(at[j], j)]
    /\ TRUE \in Answers(at[j], QueueKey(at[j], j), j, FloorThen(at[j], j))
    /\ pc' = [pc EXCEPT ![j] = "handoff"]
    /\ on' = [on EXCEPT ![j] = QueueKey(at[j], j)]
    /\ queues' = [queues EXCEPT ![at[j]] = @ \cup {QueueKey(at[j], j)}]
    /\ UNCHANGED at

LEMMA ReserveCases ==
    ASSUME NEW j \in Jobs, Reserve(j)
    PROVE  ReserveStale(j) \/ ReserveRefused(j) \/ ReservePlace(j)
BY Zenon DEF Reserve, ReserveStale, ReserveRefused, ReservePlace

\* Every step keeps the types.
LEMMA TypeKept == IInv /\ [Next]_vars => TypeOK'
<1> SUFFICES ASSUME IInv, [Next]_vars PROVE TypeOK'
  OBVIOUS
<1> USE DEF callVars, modeVars, loadVars, stopVars
<1>t. TypeOK /\ Control
  BY DEF IInv
<1>1. ASSUME NEW j \in Jobs, Submit(j) PROVE TypeOK'
  BY <1>1, <1>t DEF TypeOK, Submit
<1>2. ASSUME NEW j \in Jobs, Resolve(j) PROVE TypeOK'
  <2>1. CASE stop
    BY <1>2, <1>t, <2>1 DEF TypeOK, Resolve
  <2>2. CASE ~stop
    <3>1. PICK w \in Workers : Worker(w) /\ at' = [at EXCEPT ![j] = w]
      BY <1>2, <2>2 DEF Resolve
    <3>2. /\ current' \in Workers \cup {None}
          /\ closed' \in SUBSET Workers
          /\ settings' \in [Workers -> Settings]
      BY <1>t, <3>1, WorkerType
    <3> QED
      BY <1>2, <1>t, <2>2, <3>1, <3>2 DEF TypeOK, Resolve
  <2> QED
    BY <2>1, <2>2
<1>3. ASSUME NEW j \in Jobs, OptIn(j) PROVE TypeOK'
  <2>1. at[j] \in Workers
    BY <1>3, <1>t DEF OptIn, Control, Placed
  <2>2. settings' = [settings EXCEPT ![at[j]] =
                        [settings[at[j]] EXCEPT !.optedIn = at[j] \notin closed]]
    BY <1>3 DEF OptIn
  <2>4. settings[at[j]] \in Settings
    BY <1>t, <2>1 DEF TypeOK
  <2>5. [settings[at[j]] EXCEPT !.optedIn = at[j] \notin closed] \in Settings
    BY <2>4, OptedInType
  <2>3. settings' \in [Workers -> Settings]
    BY <1>t, <2>2, <2>5 DEF TypeOK
  <2> QED
    BY <1>3, <1>t, <2>3 DEF TypeOK, OptIn
<1>4. ASSUME NEW j \in Jobs, Reserve(j) PROVE TypeOK'
  <2>1. at[j] \in Workers
    BY <1>4, <1>t DEF Reserve, Control, Placed
  <2>2. QueueKey(at[j], j) \in Keys
    BY KeyAssumption DEF QueueKey
  <2>5. settings[at[j]] \in Settings
    BY <1>t, <2>1 DEF TypeOK
  <2>3. FloorThen(at[j], j) \in Nat
    <3>1. settings[at[j]].shrinkFloor \in Nat
      BY <2>5 DEF Settings
    <3> QED
      BY <3>1 DEF FloorThen, FloorAfter
  <2>6. [settings[at[j]] EXCEPT !.shrinkFloor = FloorThen(at[j], j)] \in Settings
    BY <2>5, <2>3, FloorType
  <2>7. \/ settings' = settings
        \/ settings' = [settings EXCEPT ![at[j]] =
                           [settings[at[j]] EXCEPT !.shrinkFloor = FloorThen(at[j], j)]]
    BY <1>4 DEF Reserve
  <2>4. settings' \in [Workers -> Settings]
    BY <1>t, <2>6, <2>7 DEF TypeOK
  <2> QED
    <3>1. CASE ReserveStale(j)
      BY <1>4, <1>t, <2>4, <3>1 DEF TypeOK, Reserve, ReserveStale
    <3>2. CASE ReserveRefused(j)
      BY <1>4, <1>t, <2>4, <3>2 DEF TypeOK, Reserve, ReserveRefused
    <3>3. CASE ReservePlace(j)
      <4>1. queues' \in [Workers -> SUBSET Keys]
        BY <1>t, <2>1, <2>2, <3>3 DEF TypeOK, ReservePlace
      <4>2. on' \in [Jobs -> Keys]
        BY <1>t, <2>2, <3>3 DEF TypeOK, ReservePlace
      <4> QED
        BY <1>4, <1>t, <2>4, <3>3, <4>1, <4>2 DEF TypeOK, Reserve, ReservePlace
    <3> QED
      BY <1>4, <3>1, <3>2, <3>3, ReserveCases
<1>5. ASSUME NEW j \in Jobs, Handoff(j) PROVE TypeOK'
  BY <1>5, <1>t DEF TypeOK, Handoff
<1>6. ASSUME NEW j \in Jobs, Count(j) PROVE TypeOK'
  BY SMT, <1>6, <1>t, KeyAssumption DEF TypeOK, Count, Field, LoadFor, LoadSet
<1>7. ASSUME NEW j \in Jobs, Stale(j) PROVE TypeOK'
  BY <1>7, <1>t DEF TypeOK, Stale
<1>8. ASSUME NEW j \in Jobs, Finish(j) PROVE TypeOK'
  <2>1. at[j] \in Workers /\ on[j] \in Keys /\ UserOf[j] \in Users
    BY <1>8, <1>t, KeyAssumption DEF Finish, Control, Placed, TypeOK
  <2>2. load' \in [Users -> [jobs : Nat, webhooks : Nat]]
    BY SMT, <1>8, <1>t, <2>1 DEF Finish, TypeOK, LoadWithout, Field, Larger, LoadFor, LoadSet
  <2>3. remembering' \in [Queue -> Modes \cup {None}]
    BY <1>8, <1>t, <2>1 DEF Finish, TypeOK, Queue
  <2>4. \/ settings' = settings
        \/ \E m \in Modes : settings' = [settings EXCEPT ![at[j]] =
                                 [settings[at[j]] EXCEPT !.destination = m]]
    BY <1>8 DEF Finish
  <2>5. settings[at[j]] \in Settings
    BY <1>t, <2>1 DEF TypeOK
  <2>6. settings' \in [Workers -> Settings]
    BY SMT, <1>t, <2>4, <2>5, DestinationType DEF TypeOK
  <2> QED
    BY <1>8, <1>t, <2>2, <2>3, <2>6, KeyAssumption DEF TypeOK, Finish
<1>9. ASSUME NEW q \in Queue, Loop(q) PROVE TypeOK'
  <2>1. q[1] \in Workers /\ q[2] \in Keys
    BY DEF Queue
  <2>2. CASE Remember(q)
    BY <1>t, <2>2 DEF TypeOK, Remember
  <2>3. CASE Idle(q)
    BY <1>t, <2>3 DEF TypeOK, Idle
  <2>4. CASE OnIdle(q)
    BY SMT, <1>t, <2>1, <2>4, FreshType DEF TypeOK, OnIdle
  <2> QED
    BY <1>9, <2>2, <2>3, <2>4 DEF Loop
<1>10. ASSUME NEW w \in Workers, Forget(w) PROVE TypeOK'
  BY <1>10, <1>t DEF TypeOK, Forget
<1>11. ASSUME NEW w \in Workers, Advertise(w) PROVE TypeOK'
  <2>1. PICK v \in Budgets \ {settings[w].maxBacklog} :
          settings' = [settings EXCEPT ![w] = Rebudgeted(settings[w], v, TotalPending(w))]
    BY <1>11 DEF Advertise
  <2>2. v \in Nat
    BY KeyAssumption
  <2>3. IsFiniteSet(OnWorker(w))
    BY KeyAssumption, FS_Subset DEF OnWorker
  <2>4. TotalPending(w) \in Nat
    BY <2>3, FS_CardinalityType DEF TotalPending
  <2>5. settings[w].shrinkFloor \in Nat /\ settings[w].maxBacklog \in Nat
    BY <1>t DEF TypeOK, Settings
  <2>6. ShrinkFloor(v, settings[w].maxBacklog, TotalPending(w), settings[w].shrinkFloor) \in Nat
    BY <2>2, <2>4, <2>5 DEF ShrinkFloor, Smaller
  <2>8. settings[w] \in Settings
    BY <1>t DEF TypeOK
  <2>9. Rebudgeted(settings[w], v, TotalPending(w)) \in Settings
    BY <2>2, <2>6, <2>8 DEF Rebudgeted, Settings
  <2>7. settings' \in [Workers -> Settings]
    BY <1>t, <2>1, <2>9 DEF TypeOK
  <2> QED
    BY <1>11, <1>t, <2>7 DEF TypeOK, Advertise
<1>12. CASE Peek
  BY <1>12, <1>t, WorkerType DEF TypeOK, Peek
<1>13. CASE CloseStop \/ Close
  <2>1. CASE CloseStop
    BY <1>t, <2>1 DEF TypeOK, CloseStop
  <2>2. CASE CloseWait
    BY <1>t, <2>2 DEF TypeOK, CloseWait
  <2>3. ASSUME NEW q \in Queue, CloseQueue(q) PROVE TypeOK'
    BY <1>t, <2>3 DEF TypeOK, CloseQueue, Queue
  <2>4. CASE CloseDone
    BY <1>t, <2>4 DEF TypeOK, CloseDone
  <2> QED
    BY <1>13, <2>1, <2>2, <2>3, <2>4 DEF Close
<1>14. CASE UNCHANGED vars
  BY <1>14, <1>t DEF TypeOK, vars
<1> QED
  BY <1>1, <1>2, <1>3, <1>4, <1>5, <1>6, <1>7, <1>8, <1>9, <1>10, <1>11, <1>12, <1>13,
     <1>14 DEF Next, Enqueue

-----------------------------------------------------------------------------
\* A new worker takes a number that no job, no retirement and no Close uses, and
\* is made only when none is current, so that none runs.
LEMMA WorkerControl ==
    ASSUME IInv, NEW w \in Workers, Worker(w)
    PROVE  /\ \A v \in Workers \ closed' : v = current'
           /\ retired \subseteq closed'
           /\ \A j \in Jobs : at[j] \in closed <=> at[j] \in closed'
<1>1. CASE current # None
  BY <1>1 DEF IInv, TypeOK, Control, Worker
<1>2. CASE current = None
  <2>1. None \notin Workers
    BY SMT, KeyAssumption DEF Workers
  <2>2. Workers \subseteq closed
    BY <1>2, <2>1 DEF IInv, Control
  <2>3. w \in Unused /\ current' = w /\ closed' = closed \ {w}
    BY <1>2 DEF Worker
  <2> QED
    BY <2>2, <2>3 DEF IInv, Control, Unused
<1> QED
  BY <1>1, <1>2

\* Every step keeps the control invariant.
LEMMA ControlKept == IInv /\ [Next]_vars => Control'
<1> SUFFICES ASSUME IInv, [Next]_vars PROVE Control'
  OBVIOUS
<1> USE DEF callVars, modeVars, loadVars, stopVars
<1>t. TypeOK /\ Control
  BY DEF IInv
<1>1. ASSUME NEW j \in Jobs, Submit(j) PROVE Control'
  BY SMT, <1>1, <1>t DEF TypeOK, Control, Placed, Enqueuing, Submit
<1>2. ASSUME NEW j \in Jobs, Resolve(j) PROVE Control'
  <2>1. CASE stop
    BY SMT, <1>2, <1>t, <2>1 DEF TypeOK, Control, Placed, Enqueuing, Resolve
  <2>2. CASE ~stop
    <3>1. PICK w \in Workers :
            /\ Worker(w)
            /\ pc' = [pc EXCEPT ![j] = IF j \in Asks THEN "header" ELSE "reserve"]
            /\ at' = [at EXCEPT ![j] = w]
      BY <1>2, <2>2 DEF Resolve
    <3>2. /\ \A v \in Workers \ closed' : v = current'
          /\ retired \subseteq closed'
          /\ \A i \in Jobs : at[i] \in closed <=> at[i] \in closed'
      BY <3>1, WorkerControl
    <3>3. /\ pc'[j] \in {"header", "reserve"}
          /\ \A i \in Jobs \ {j} : pc'[i] = pc[i] /\ at'[i] = at[i]
      BY <1>t, <3>1 DEF TypeOK
    <3>4. closer = "no"
      BY <1>t, <2>2 DEF Control
    <3> QED
      <4>1. \A i \in Jobs : pc'[i] \in Placed => at'[i] \in Workers
        BY <1>t, <3>1, <3>3 DEF TypeOK, Control
      <4>2. \A i \in Jobs : pc'[i] = "stale" => at'[i] \in closed'
        BY <1>t, <3>2, <3>3 DEF Control
      <4>3. \A i \in Jobs : pc'[i] \in {"handoff", "held"} =>
               i # j /\ on'[i] \in queues'[at'[i]] /\ at'[i] \notin closed'
        BY <1>2, <1>t, <3>2, <3>3, <3>4 DEF Control, Resolve
      <4> QED
        BY <1>2, <1>t, <2>2, <3>2, <3>4, <4>1, <4>2, <4>3 DEF Control, Resolve
  <2> QED
    BY <2>1, <2>2
<1>3. ASSUME NEW j \in Jobs, OptIn(j) PROVE Control'
  BY <1>3, <1>t DEF TypeOK, Control, Placed, Enqueuing, OptIn
<1>4. ASSUME NEW j \in Jobs, Reserve(j) PROVE Control'
  <2>1. pc[j] = "reserve" /\ at[j] \in Workers /\ closer \notin {"stop", "done"}
    BY <1>4, <1>t DEF Reserve, Control, Placed, Enqueuing
  <2>2. CASE ReserveStale(j)
    BY <1>4, <1>t, <2>1, <2>2 DEF TypeOK, Control, Placed, Reserve, ReserveStale
  <2>3. CASE ReserveRefused(j)
    BY <1>4, <1>t, <2>1, <2>3 DEF TypeOK, Control, Placed, Reserve, ReserveRefused
  <2>4. CASE ReservePlace(j)
    BY <1>4, <1>t, <2>1, <2>4 DEF TypeOK, Control, Placed, Reserve, ReservePlace
  <2> QED
    BY <1>4, <2>2, <2>3, <2>4, ReserveCases
<1>5. ASSUME NEW j \in Jobs, Handoff(j) PROVE Control'
  BY <1>5, <1>t DEF TypeOK, Control, Placed, Enqueuing, Handoff
<1>6. ASSUME NEW j \in Jobs, Count(j) PROVE Control'
  BY <1>6, <1>t DEF TypeOK, Control, Placed, Enqueuing, Count
<1>7. ASSUME NEW j \in Jobs, Stale(j) PROVE Control'
  BY <1>7, <1>t DEF TypeOK, Control, Placed, Enqueuing, Stale
<1>8. ASSUME NEW j \in Jobs, Finish(j) PROVE Control'
  BY SMT, <1>8, <1>t DEF TypeOK, Control, Placed, Enqueuing, Finish
<1>9. ASSUME NEW q \in Queue, Loop(q) PROVE Control'
  <2>1. q[1] \in Workers /\ q[2] \in Keys /\ q = <<q[1], q[2]>>
    BY SMT DEF Queue
  <2>2. CASE Remember(q)
    BY <1>t, <2>2 DEF TypeOK, Control, Placed, Enqueuing, Remember
  <2>3. CASE Idle(q)
    BY <1>t, <2>3 DEF TypeOK, Control, Placed, Enqueuing, Idle
  <2>4. CASE OnIdle(q)
    <3>1. CASE ~NothingReserved(q)
      BY <1>t, <2>4, <3>1 DEF TypeOK, Control, Placed, Enqueuing, OnIdle
    <3>2. CASE NothingReserved(q)
      <4>1. \A j \in Jobs : pc[j] \in {"handoff", "held"} /\ at[j] = q[1] => on[j] # q[2]
        BY <2>1, <3>2 DEF NothingReserved, Backlog
      <4>2. \A j \in Jobs : pc[j] \in {"handoff", "held"} => on[j] \in queues'[at[j]]
        BY SMT, <1>t, <2>1, <2>4, <3>2, <4>1 DEF TypeOK, Control, Placed, OnIdle
      <4>3. \A j \in Jobs : pc[j] \in {"handoff", "held"} /\ at[j] \in closed' =>
                at[j] \in closed
        BY SMT, <1>t, <2>1, <2>4, <3>2, <4>1 DEF TypeOK, Control, Placed, OnIdle
      <4>4. /\ \A w \in Workers \ closed' : w = current
            /\ retired' \subseteq closed'
            /\ closed \subseteq closed'
        BY <1>t, <2>4, <3>2 DEF Control, OnIdle
      <4> QED
        BY <1>t, <2>4, <4>2, <4>3, <4>4 DEF Control, Placed, Enqueuing, OnIdle
    <3> QED
      BY <3>1, <3>2
  <2> QED
    BY <1>9, <2>2, <2>3, <2>4 DEF Loop
<1>10. ASSUME NEW w \in Workers, Forget(w) PROVE Control'
  BY <1>10, <1>t DEF TypeOK, Control, Placed, Enqueuing, Forget
<1>11. ASSUME NEW w \in Workers, Advertise(w) PROVE Control'
  BY <1>11, <1>t DEF Control, Placed, Enqueuing, Advertise
<1>12. CASE Peek
  <2>1. PICK w \in Workers : Worker(w)
    BY <1>12 DEF Peek
  <2>2. /\ \A v \in Workers \ closed' : v = current'
        /\ retired \subseteq closed'
        /\ \A i \in Jobs : at[i] \in closed <=> at[i] \in closed'
    BY <2>1, WorkerControl
  <2> QED
    BY <1>12, <1>t, <2>2 DEF Control, Placed, Enqueuing, Peek
<1>13. CASE CloseStop
  BY <1>13, <1>t DEF Control, Placed, Enqueuing, CloseStop
<1>14. CASE CloseWait
  <2>1. \A j \in Jobs : pc[j] \in {"handoff", "held"} => at[j] \notin closed
    BY <1>14, <1>t DEF Control, CloseWait
  <2> QED
    BY <1>14, <1>t, <2>1 DEF TypeOK, Control, Placed, Enqueuing, CloseWait
<1>15. ASSUME NEW q \in Queue, CloseQueue(q) PROVE Control'
  <2>1. q[1] \in Workers /\ q[2] \in Keys /\ q = <<q[1], q[2]>>
    BY SMT DEF Queue
  <2>2. Enqueuing = {} /\ closer = "stop"
    BY <1>15, <1>t DEF Control, CloseQueue
  <2>3. \A j \in Jobs : /\ pc'[j] = pc[j] \/ (pc[j] = "held" /\ pc'[j] = "stored")
                        /\ pc[j] # "handoff"
                        /\ pc'[j] = "held" /\ at[j] = q[1] => on[j] # q[2]
    BY <1>15, <1>t, <2>1, <2>2 DEF CloseQueue, Backlog, Enqueuing, TypeOK
  <2>4. \A j \in Jobs : pc'[j] \in {"handoff", "held"} => on[j] \in queues'[at[j]]
    BY <1>15, <1>t, <2>1, <2>3 DEF Control, Placed, CloseQueue, TypeOK
  <2>5. Enqueuing' = {}
    BY <1>15, <2>2, <2>3 DEF Enqueuing, CloseQueue
  <2> QED
    BY <1>15, <1>t, <2>2, <2>3, <2>4, <2>5 DEF Control, Placed, CloseQueue
<1>16. CASE CloseDone
  <2>1. \A j \in Jobs : pc[j] \in {"handoff", "held"} => at[j] \notin closed
    BY <1>16, <1>t DEF Control, CloseDone
  <2> QED
    BY <1>16, <1>t, <2>1 DEF Control, Placed, Enqueuing, CloseDone
<1>17. CASE UNCHANGED vars
  BY <1>17, <1>t DEF Control, Placed, Enqueuing, vars
<1> QED
  BY <1>1, <1>2, <1>3, <1>4, <1>5, <1>6, <1>7, <1>8, <1>9, <1>10, <1>11, <1>12, <1>13,
     <1>14, <1>15, <1>16, <1>17 DEF Next, Enqueue, Close

LEMMA ControlInvariant == Spec => []IInv
<1>1. IInv /\ [Next]_vars => IInv'
  BY TypeKept, ControlKept DEF IInv
<1> QED
  BY <1>1, InitHolds, PTL DEF Spec

\* At any number of submissions, retirements and direct attempts, at most one
\* worker of a target runs and it is the one the registry resolves.
THEOREM OneWorker == Spec => []OneLiveWorker
<1>1. IInv => OneLiveWorker
  BY DEF IInv, Control, OneLiveWorker
<1> QED
  BY <1>1, ControlInvariant, PTL

\* No job is handed to a retired queue or a stopped worker, and Close stops no
\* worker under a submission.
THEOREM NoneStranded == Spec => []NoJobStranded
<1>1. IInv => NoJobStranded
  BY DEF IInv, Control, NoJobStranded
<1> QED
  BY <1>1, ControlInvariant, PTL

-----------------------------------------------------------------------------
(* The load of the users is kept by every step. *)

\* Every step keeps the loads.
LEMMA LoadKept ==
    ASSUME LoadInv, [Next]_vars
    PROVE  Counting' /\ \A u \in Users, f \in Fields : LoadOf(u, f)'
<1> DEFINE Silent == /\ UNCHANGED loadVars
                     /\ \A j \in Jobs :
                          \/ pc'[j] = pc[j]
                          \/ pc[j] = "held" /\ pc'[j] = "stored"
                          \/ pc[j] \notin {"held", "done", "stored"} /\ pc'[j] # "done"
<1>t. TypeOK
  BY DEF LoadInv, IInv
<1>q. ASSUME Silent PROVE Counting' /\ \A u \in Users, f \in Fields : LoadOf(u, f)'
  BY <1>q, LoadQuiet
<1> USE DEF callVars
<1>1. ASSUME NEW j \in Jobs, Submit(j) PROVE Silent
  BY <1>1, <1>t DEF Submit, TypeOK
<1>2. ASSUME NEW j \in Jobs, Resolve(j) PROVE Silent
  BY <1>2, <1>t DEF Resolve, TypeOK
<1>3. ASSUME NEW j \in Jobs, OptIn(j) PROVE Silent
  BY <1>3, <1>t DEF OptIn, TypeOK
<1>4. ASSUME NEW j \in Jobs, Reserve(j) PROVE Silent
  <2>1. UNCHANGED loadVars /\ pc[j] = "reserve"
    BY <1>4 DEF Reserve
  <2>2. \E v \in {"stale", "refused", "handoff"} : pc' = [pc EXCEPT ![j] = v]
    BY <1>4, ReserveCases DEF ReserveStale, ReserveRefused, ReservePlace
  <2> QED
    BY <1>t, <2>1, <2>2 DEF TypeOK
<1>5. ASSUME NEW j \in Jobs, Handoff(j) \/ Stale(j) PROVE Silent
  BY <1>5, <1>t DEF Handoff, Stale, TypeOK
<1>6. ASSUME NEW q \in Queue, Remember(q) \/ Idle(q) \/ OnIdle(q) PROVE Silent
  BY <1>6 DEF Remember, Idle, OnIdle
<1>7. ASSUME NEW q \in Queue, CloseQueue(q) PROVE Silent
  BY <1>7, <1>t DEF CloseQueue, TypeOK
<1>8. ASSUME NEW w \in Workers, Forget(w) \/ Advertise(w) PROVE Silent
  BY <1>8 DEF Forget, Advertise
<1>9. ASSUME Peek \/ CloseStop \/ CloseWait \/ CloseDone PROVE Silent
  BY <1>9 DEF Peek, CloseStop, CloseWait, CloseDone
<1>10. ASSUME UNCHANGED vars PROVE Silent
  BY <1>10 DEF vars
<1> HIDE DEF Silent
<1> QED
  BY <1>q, <1>1, <1>2, <1>3, <1>4, <1>5, <1>6, <1>7, <1>8, <1>9, <1>10, CountKeeps,
     FinishKeeps DEF Next, Enqueue, Loop, Close

\* A user's load counts the accepted and unfinished work: it is exact as long as
\* no job of the user ended before it was counted, and never short of it by more
\* than the jobs that are still to be counted.
THEOREM LoadCorrect == Spec => []LoadExact
<1>1. Init => LoadInv
  <2> SUFFICES ASSUME Init PROVE LoadInv
    OBVIOUS
  <2>1. IInv /\ Counting
    BY InitHolds DEF Init, Counting
  <2>2. \A u \in Users, f \in Fields : LoadOf(u, f)
    BY LoadInit
  <2> QED
    BY <2>1, <2>2 DEF LoadInv
<1>2. LoadInv /\ [Next]_vars => LoadInv'
  <2> SUFFICES ASSUME LoadInv, [Next]_vars PROVE LoadInv'
    OBVIOUS
  <2>1. IInv'
    BY TypeKept, ControlKept DEF LoadInv, IInv
  <2>2. Counting' /\ \A u \in Users, f \in Fields : LoadOf(u, f)'
    BY LoadKept
  <2> QED
    BY <2>1, <2>2 DEF LoadInv
<1>3. LoadInv => LoadExact
  BY DEF LoadInv, LoadOf, LoadExact, Fields
<1> QED
  BY <1>1, <1>2, <1>3, PTL DEF Spec

-----------------------------------------------------------------------------
(* The budget: what each change of the backlog, the budget and the floor does *)
(* to the bound that admission promises. *)

LEMMA LargerCeiling ==
    ASSUME NEW x \in Nat, NEW y \in Nat, x <= y PROVE CeilingNum * x <= CeilingNum * y
BY SMT, FairAssumption

LEMMA CeilingCovers ==
    ASSUME NEW x \in Nat, NEW y \in Nat, x <= y PROVE x * CeilingDen <= CeilingNum * y
<1>1. x * CeilingDen <= x * CeilingNum
  BY SMT, FairAssumption
<1>2. x * CeilingNum = CeilingNum * x /\ x * CeilingNum \in Nat /\ x * CeilingDen \in Nat
  BY SMT, FairAssumption
<1>3. CeilingNum * y \in Nat
  BY SMT, FairAssumption
<1> QED
  BY SMT, <1>1, <1>2, <1>3, LargerCeiling

LEMMA FewerCovered ==
    ASSUME NEW x \in Nat, NEW y \in Nat, x <= y PROVE x * CeilingDen <= y * CeilingDen
BY SMT, FairAssumption

\* Fewer jobs stay within the bound.
LEMMA BoundShrinks ==
    ASSUME NEW few \in Nat, NEW many \in Nat, few <= many,
           NEW budget \in Nat, NEW floor \in Nat, WithinBudget(many, budget, floor)
    PROVE  WithinBudget(few, budget, floor)
<1>1. few * CeilingDen <= many * CeilingDen
  BY FewerCovered
<1>2. /\ few * CeilingDen \in Nat /\ many * CeilingDen \in Nat
      /\ CeilingNum * Larger(budget, floor) \in Nat
  BY SMT, FairAssumption DEF Larger
<1> QED
  BY SMT, <1>1, <1>2 DEF WithinBudget, UnderCeiling

\* DecideFairWithFloor lets a job in only where the bound allows one more.
LEMMA AdmissionBound ==
    ASSUME NEW queue, NEW total \in Nat, NEW active,
           NEW budget \in Nat \ {0}, NEW floor \in Nat, NEW few \in Nat, few <= total,
           TRUE \in DecideFairWithFloor(queue, total, active, budget, floor)
    PROVE  WithinBudget(few + 1, budget, floor)
<1>1. CASE total + 1 <= budget
  BY SMT, <1>1 DEF WithinBudget
<1>2. CASE total + 1 > budget
  <2>1. UnderCeiling(total + 1, budget, floor)
    <3> SUFFICES ASSUME ~UnderCeiling(total + 1, budget, floor) PROVE FALSE
      OBVIOUS
    <3>0. ~(budget <= 0)
      BY SMT
    <3>1. DecideFairWithFloor(queue, total, active, budget, floor) = {FALSE}
      BY <1>2, <3>0, Zenon DEF DecideFairWithFloor
    <3> QED
      BY <3>1
  <2>2. WithinBudget(total + 1, budget, floor)
    BY <2>1 DEF WithinBudget
  <2> QED
    BY SMT, <2>2, BoundShrinks
<1> QED
  BY SMT, <1>1, <1>2

\* reserve forgets a floor only when the budget itself is bound enough.
LEMMA FloorBound ==
    ASSUME NEW total \in Nat, NEW few \in Nat, few <= total,
           NEW budget \in Nat, NEW floor \in Nat, WithinBudget(few, budget, floor)
    PROVE  WithinBudget(few, budget, FloorAfter(total, budget, floor))
BY SMT DEF WithinBudget, FloorAfter

\* setMaxBacklog keeps the bound whether the budget shrinks below what is held,
\* is raised over it, or is raised and still under it.
LEMMA BudgetChangeBound ==
    ASSUME NEW new \in Nat, NEW old \in Nat, NEW held \in Nat, NEW few \in Nat,
           few <= held, NEW floor \in Nat, WithinBudget(few, old, floor)
    PROVE  WithinBudget(few, new, ShrinkFloor(new, old, held, floor))
<1> DEFINE f == ShrinkFloor(new, old, held, floor)
<1>t. f \in Nat /\ Larger(new, f) \in Nat /\ Larger(old, floor) \in Nat
  BY DEF ShrinkFloor, Smaller, Larger
<1>n. /\ few * CeilingDen \in Nat
      /\ CeilingNum * Larger(new, f) \in Nat /\ CeilingNum * Larger(old, floor) \in Nat
  BY SMT, <1>t, FairAssumption
<1>1. CASE few <= new
  BY <1>1 DEF WithinBudget
<1>2. CASE few > new /\ few <= f
  <2>1. few <= Larger(new, f)
    BY SMT, <1>2, <1>t DEF Larger
  <2>2. few * CeilingDen <= CeilingNum * Larger(new, f)
    BY <1>t, <2>1, CeilingCovers
  <2> QED
    BY <2>2 DEF WithinBudget, UnderCeiling
<1>3. CASE few > new /\ ~(few <= f)
  <2>1. held > new /\ ~(new < old)
    BY SMT, <1>3, <1>t DEF ShrinkFloor
  <2>2. Larger(old, floor) <= Larger(new, f) /\ few > old
    BY SMT, <1>3, <1>t, <2>1 DEF ShrinkFloor, Smaller, Larger
  <2>3. few * CeilingDen <= CeilingNum * Larger(old, floor)
    BY SMT, <2>2 DEF WithinBudget, UnderCeiling
  <2>4. CeilingNum * Larger(old, floor) <= CeilingNum * Larger(new, f)
    BY <1>t, <2>2, LargerCeiling
  <2>5. few * CeilingDen <= CeilingNum * Larger(new, f)
    BY SMT, <1>n, <2>3, <2>4
  <2> QED
    BY <2>5 DEF WithinBudget, UnderCeiling
<1> QED
  BY SMT, <1>1, <1>2, <1>3, <1>t

\* The bound for one worker; a budget of 0 is on record.
Bounded(w) ==
    \/ settings[w].unlimited
    \/ WithinBudget(Cardinality(Admitted(w)), settings[w].maxBacklog, settings[w].shrinkFloor)

BudgetKnown == \A w \in Workers : settings[w].maxBacklog = 0 => settings[w].unlimited

BudgetInv == IInv /\ BudgetKnown /\ \A w \in Workers \ closed : Bounded(w)

LEMMA AdmittedCount ==
    ASSUME NEW w
    PROVE  /\ IsFiniteSet(Admitted(w)) /\ Cardinality(Admitted(w)) \in Nat
           /\ TotalPending(w) \in Nat /\ Cardinality(Admitted(w)) <= TotalPending(w)
<1>1. IsFiniteSet(OnWorker(w)) /\ Admitted(w) \subseteq OnWorker(w)
  BY KeyAssumption, FS_Subset DEF OnWorker, Admitted
<1>2. IsFiniteSet(Admitted(w)) /\ Cardinality(Admitted(w)) <= Cardinality(OnWorker(w))
  BY <1>1, FS_Subset
<1> QED
  BY <1>1, <1>2, FS_CardinalityType DEF TotalPending

LEMMA SettingsOf ==
    ASSUME TypeOK, NEW w \in Workers
    PROVE  /\ settings[w].maxBacklog \in Nat /\ settings[w].shrinkFloor \in Nat
           /\ settings[w].unlimited \in BOOLEAN
<1>1. settings[w] \in Settings
  BY DEF TypeOK
<1> QED
  BY <1>1 DEF Settings

\* A step that gives running worker w no new job and leaves its budget alone.
Quiet(w) ==
    /\ w \notin closed
    /\ Admitted(w)' \subseteq Admitted(w)
    /\ settings'[w].unlimited = settings[w].unlimited
    /\ settings'[w].maxBacklog = settings[w].maxBacklog
    /\ settings'[w].shrinkFloor = settings[w].shrinkFloor

LEMMA QuietKeeps ==
    ASSUME TypeOK, NEW w \in Workers, Bounded(w), Quiet(w) PROVE Bounded(w)'
<1> DEFINE new == Admitted(w)'
<1>1. /\ IsFiniteSet(Admitted(w)) /\ Cardinality(Admitted(w)) \in Nat
  BY AdmittedCount
<1>2. new \subseteq Admitted(w)
  BY DEF Quiet
<1> HIDE DEF new
<1>3. Cardinality(new) \in Nat /\ Cardinality(new) <= Cardinality(Admitted(w))
  BY <1>1, <1>2, FS_Subset, FS_CardinalityType
<1>4. settings[w].maxBacklog \in Nat /\ settings[w].shrinkFloor \in Nat
  BY SettingsOf
<1>5. CASE settings[w].unlimited
  BY <1>5 DEF Bounded, Quiet
<1>6. CASE WithinBudget(Cardinality(Admitted(w)), settings[w].maxBacklog,
                        settings[w].shrinkFloor)
  <2>1. WithinBudget(Cardinality(new), settings[w].maxBacklog, settings[w].shrinkFloor)
    BY <1>1, <1>3, <1>4, <1>6, BoundShrinks
  <2>2. WithinBudget(Cardinality(new), settings'[w].maxBacklog, settings'[w].shrinkFloor)
    BY <2>1 DEF Quiet
  <2> QED
    BY <2>2 DEF Bounded, new
<1> QED
  BY <1>5, <1>6 DEF Bounded

\* A new worker holds nothing.
LEMMA NewWorkerBounded ==
    ASSUME TypeOK, NEW v \in Workers, Worker(v), NEW w \in Workers \ closed',
           \A u \in Workers \ closed : Bounded(u),
           \A j \in Jobs : pc'[j] \in {"handoff", "held"} => pc'[j] = pc[j] /\ at'[j] = at[j]
    PROVE  Bounded(w)'
<1>0. Admitted(w)' \subseteq Admitted(w)
  BY DEF Admitted
<1>1. CASE w \notin closed
  <2>1. settings'[w] = settings[w]
    BY <1>1 DEF Worker, Unused, TypeOK
  <2>2. Quiet(w)
    BY <1>0, <1>1, <2>1 DEF Quiet
  <2> QED
    BY <1>1, <2>2, QuietKeeps
<1>2. CASE w \in closed
  <2>1. w \in Unused /\ settings'[w] = Fresh(remembered)
    BY <1>2 DEF Worker, TypeOK
  <2>2. Admitted(w)' = {}
    BY <1>0, <2>1 DEF Admitted, Unused
  <2>3. Cardinality(Admitted(w)') = 0
    BY <2>2, FS_EmptySet
  <2>4. settings'[w].maxBacklog = NodeBudget /\ NodeBudget \in Nat
    BY SMT, <2>1, KeyAssumption DEF Fresh
  <2>5. WithinBudget(0, settings'[w].maxBacklog, settings'[w].shrinkFloor)
    BY SMT, <2>4 DEF WithinBudget
  <2> QED
    BY <2>3, <2>5 DEF Bounded
<1> QED
  BY <1>1, <1>2

\* reserve keeps the bound: it may forget a floor, and lets a job in only after
\* fair admission agreed.
LEMMA ReserveBounded ==
    ASSUME BudgetInv, NEW j \in Jobs, Reserve(j), NEW w \in Workers \ closed'
    PROVE  Bounded(w)'
<1> USE DEF callVars, modeVars, loadVars, stopVars
<1>0. /\ TypeOK /\ w \notin closed /\ Bounded(w)
      /\ pc[j] = "reserve" /\ at[j] \in Workers
  BY DEF BudgetInv, IInv, Control, Placed, Reserve
<1>1. CASE ReserveStale(j)
  <2>1. Admitted(w)' \subseteq Admitted(w)
    BY <1>0, <1>1 DEF Admitted, ReserveStale, TypeOK
  <2>2. Quiet(w)
    BY <1>0, <1>1, <2>1 DEF Quiet, ReserveStale
  <2> QED
    BY <1>0, <2>2, QuietKeeps
<1> DEFINE s == settings[w]
           f == FloorThen(w, j)
           few == Cardinality(Admitted(w))
<1>2. /\ s.maxBacklog \in Nat /\ s.shrinkFloor \in Nat
      /\ few \in Nat /\ TotalPending(w) \in Nat /\ few <= TotalPending(w)
      /\ IsFiniteSet(Admitted(w))
  BY <1>0, SettingsOf, AdmittedCount
<1>3. f \in Nat
  BY <1>2 DEF FloorThen, FloorAfter
<1>4. CASE ReserveRefused(j) \/ ReservePlace(j)
  <2>1. settings' = [settings EXCEPT ![at[j]] = [settings[at[j]] EXCEPT !.shrinkFloor =
                                                    FloorThen(at[j], j)]]
    BY <1>4 DEF ReserveRefused, ReservePlace
  <2>2. /\ settings[w] \in Settings
        /\ settings'[w] = IF w = at[j] THEN [s EXCEPT !.shrinkFloor = f] ELSE s
    BY <1>0, <2>1 DEF TypeOK
  <2>3. /\ settings'[w].maxBacklog = s.maxBacklog /\ settings'[w].unlimited = s.unlimited
        /\ w = at[j] => settings'[w].shrinkFloor = f
        /\ w # at[j] => settings'[w].shrinkFloor = s.shrinkFloor
    BY <2>2 DEF Settings
  <2>4. CASE w # at[j]
    <3>1. Admitted(w)' \subseteq Admitted(w)
      BY <1>0, <1>4, <2>4 DEF Admitted, ReserveRefused, ReservePlace, TypeOK
    <3>2. Quiet(w)
      BY <1>0, <2>3, <2>4, <3>1 DEF Quiet
    <3> QED
      BY <1>0, <3>2, QuietKeeps
  <2>5. CASE w = at[j] /\ s.unlimited
    BY <2>3, <2>5 DEF Bounded
  <2>6. CASE w = at[j] /\ ~s.unlimited /\ (j \in Deliveries \/ ReserveRefused(j))
    <3>1. Admitted(w)' \subseteq Admitted(w)
      BY <1>0, <1>4, <2>6 DEF Admitted, ReserveRefused, ReservePlace, TypeOK
    <3>2. WithinBudget(few, s.maxBacklog, s.shrinkFloor)
      BY <1>0, <2>6 DEF Bounded
    <3>3. WithinBudget(few, s.maxBacklog, f)
      <4>1. WithinBudget(few, s.maxBacklog,
                         FloorAfter(TotalPending(w), s.maxBacklog, s.shrinkFloor))
        BY <1>2, <3>2, FloorBound
      <4> QED
        BY <3>2, <4>1 DEF FloorThen
    <3> DEFINE new == Admitted(w)'
    <3>4. new \subseteq Admitted(w)
      BY <3>1
    <3> HIDE DEF new
    <3>5. Cardinality(new) \in Nat /\ Cardinality(new) <= few
      BY <1>2, <3>4, FS_Subset, FS_CardinalityType
    <3>6. WithinBudget(Cardinality(new), s.maxBacklog, f)
      BY <1>2, <1>3, <3>3, <3>5, BoundShrinks
    <3> QED
      BY <2>3, <2>6, <3>6 DEF Bounded, new
  <2>7. CASE w = at[j] /\ ~s.unlimited /\ j \notin Deliveries /\ ReservePlace(j)
    <3>1. Admitted(w)' = Admitted(w) \cup {j} /\ j \notin Admitted(w)
      BY <1>0, <2>7 DEF Admitted, ReservePlace, TypeOK
    <3>2. Cardinality(Admitted(w) \cup {j}) = few + 1
      BY <1>2, <3>1, FS_AddElement
    <3>3. s.maxBacklog \in Nat \ {0}
      BY <1>2, <2>7 DEF BudgetInv, BudgetKnown
    <3>4. PICK queue, active :
            TRUE \in DecideFairWithFloor(queue, TotalPending(w), active, s.maxBacklog, f)
      <4>1. TRUE \in Answers(w, QueueKey(w, j), j, f)
        BY <2>7 DEF ReservePlace
      <4> QED
        BY <2>7, <4>1, Zenon DEF Answers
    <3>5. WithinBudget(few + 1, s.maxBacklog, f)
      BY <1>2, <1>3, <3>3, <3>4, AdmissionBound
    <3>6. Cardinality(Admitted(w)') = few + 1
      BY <3>1, <3>2
    <3> QED
      BY <2>3, <2>7, <3>5, <3>6 DEF Bounded
  <2> QED
    BY <1>4, <2>4, <2>5, <2>6, <2>7
<1> QED
  BY <1>1, <1>4, ReserveCases

\* setMaxBacklog keeps the bound.
LEMMA AdvertiseBounded ==
    ASSUME BudgetInv, NEW v \in Workers, Advertise(v), NEW w \in Workers \ closed'
    PROVE  Bounded(w)'
<1> USE DEF callVars, modeVars, loadVars, stopVars
<1>0. TypeOK /\ w \notin closed /\ Bounded(w) /\ Admitted(w)' = Admitted(w)
  BY DEF BudgetInv, IInv, Advertise, Admitted
<1> DEFINE s == settings[w]
           few == Cardinality(Admitted(w))
<1>1. /\ s.maxBacklog \in Nat /\ s.shrinkFloor \in Nat /\ s.unlimited \in BOOLEAN
      /\ few \in Nat /\ TotalPending(w) \in Nat /\ few <= TotalPending(w)
  BY <1>0, SettingsOf, AdmittedCount
<1>2. CASE w # v
  <2>1. settings'[w] = settings[w]
    BY SMT, <1>2 DEF Advertise
  <2>2. Quiet(w)
    BY <1>0, <2>1 DEF Quiet
  <2> QED
    BY <1>0, <2>2, QuietKeeps
<1>3. CASE w = v
  <2>1. PICK b \in Budgets :
          settings' = [settings EXCEPT ![w] = Rebudgeted(s, b, TotalPending(w))]
    BY <1>3 DEF Advertise
  <2>2. settings[w] \in Settings /\ b \in Nat
    BY <1>0, KeyAssumption DEF TypeOK
  <2>3. /\ settings'[w].maxBacklog = b
        /\ settings'[w].shrinkFloor =
              ShrinkFloor(b, s.maxBacklog, TotalPending(w), s.shrinkFloor)
        /\ s.unlimited => settings'[w].unlimited
    <3>1. settings'[w] = Rebudgeted(s, b, TotalPending(w))
      BY <1>0, <2>1 DEF TypeOK
    <3> QED
      BY <1>1, <2>2, <3>1 DEF Rebudgeted, Settings
  <2>4. CASE s.unlimited
    BY <2>3, <2>4 DEF Bounded
  <2>5. CASE WithinBudget(few, s.maxBacklog, s.shrinkFloor)
    <3>1. WithinBudget(few, b, ShrinkFloor(b, s.maxBacklog, TotalPending(w), s.shrinkFloor))
      BY <1>1, <2>2, <2>5, BudgetChangeBound
    <3> QED
      BY <1>0, <2>3, <3>1 DEF Bounded
  <2> QED
    BY <1>0, <2>4, <2>5 DEF Bounded
<1> QED
  BY <1>2, <1>3

\* Every step keeps a budget of 0 on record.
LEMMA BudgetKnownKept == BudgetInv /\ [Next]_vars => BudgetKnown'
<1> SUFFICES ASSUME BudgetInv, [Next]_vars, NEW w \in Workers
             PROVE  settings'[w].maxBacklog = 0 => settings'[w].unlimited
  BY DEF BudgetKnown
<1> USE DEF callVars, modeVars, loadVars, stopVars
<1>t. /\ TypeOK /\ Control /\ settings[w] \in Settings
      /\ settings[w].maxBacklog = 0 => settings[w].unlimited
  BY DEF BudgetInv, BudgetKnown, IInv, TypeOK
<1>f. \A m : Fresh(m).maxBacklog = 0 => Fresh(m).unlimited
  BY DEF Fresh
<1>1. CASE settings' = settings
  BY <1>1, <1>t
<1>2. ASSUME NEW v \in Workers, Worker(v)
      PROVE  settings'[w].maxBacklog = 0 => settings'[w].unlimited
  BY SMT, <1>2, <1>t, <1>f DEF Worker, TypeOK
<1>3. ASSUME NEW v \in Workers, Advertise(v)
      PROVE  settings'[w].maxBacklog = 0 => settings'[w].unlimited
  <2>1. PICK b \in Budgets :
          settings' = [settings EXCEPT ![v] = Rebudgeted(settings[v], b, TotalPending(v))]
    BY <1>3 DEF Advertise
  <2>2. CASE v # w
    BY <1>t, <2>1, <2>2 DEF TypeOK
  <2>3. CASE v = w
    <3>1. settings'[w] = Rebudgeted(settings[w], b, TotalPending(w))
      BY <1>t, <2>1, <2>3 DEF TypeOK
    <3> QED
      BY <1>t, <3>1 DEF Rebudgeted, Settings
  <2> QED
    BY <2>2, <2>3
<1>4. ASSUME NEW v \in Workers, NEW b, settings' = [settings EXCEPT ![v] = b],
             b.maxBacklog = settings[v].maxBacklog, b.unlimited = settings[v].unlimited
      PROVE  settings'[w].maxBacklog = 0 => settings'[w].unlimited
  BY <1>4, <1>t DEF TypeOK
<1>5. ASSUME NEW j \in Jobs, OptIn(j)
      PROVE  settings'[w].maxBacklog = 0 => settings'[w].unlimited
  <2> DEFINE b == [settings[at[j]] EXCEPT !.optedIn = at[j] \notin closed]
  <2>1. at[j] \in Workers /\ settings' = [settings EXCEPT ![at[j]] = b]
    BY <1>5, <1>t DEF OptIn, Control, Placed
  <2>2. settings[at[j]] \in Settings
    BY <1>t, <2>1 DEF TypeOK
  <2>3. b.maxBacklog = settings[at[j]].maxBacklog /\ b.unlimited = settings[at[j]].unlimited
    BY <2>2 DEF Settings
  <2> QED
    BY <1>4, <2>1, <2>3
<1>6. ASSUME NEW j \in Jobs, Reserve(j)
      PROVE  settings'[w].maxBacklog = 0 => settings'[w].unlimited
  <2> DEFINE b == [settings[at[j]] EXCEPT !.shrinkFloor = FloorThen(at[j], j)]
  <2>1. at[j] \in Workers
    BY <1>6, <1>t DEF Reserve, Control, Placed
  <2>2. settings[at[j]] \in Settings
    BY <1>t, <2>1 DEF TypeOK
  <2>3. b.maxBacklog = settings[at[j]].maxBacklog /\ b.unlimited = settings[at[j]].unlimited
    BY <2>2 DEF Settings
  <2>4. settings' = settings \/ settings' = [settings EXCEPT ![at[j]] = b]
    BY <1>6, ReserveCases DEF ReserveStale, ReserveRefused, ReservePlace
  <2> QED
    BY <1>1, <1>4, <2>1, <2>3, <2>4
<1>7. ASSUME NEW j \in Jobs, Finish(j)
      PROVE  settings'[w].maxBacklog = 0 => settings'[w].unlimited
  <2>1. at[j] \in Workers
    BY <1>7, <1>t DEF Finish, Control, Placed
  <2>2. settings[at[j]] \in Settings
    BY <1>t, <2>1 DEF TypeOK
  <2>3. ASSUME NEW m \in Modes,
               settings' = [settings EXCEPT ![at[j]] =
                              [settings[at[j]] EXCEPT !.destination = m]]
        PROVE  settings'[w].maxBacklog = 0 => settings'[w].unlimited
    <3> DEFINE b == [settings[at[j]] EXCEPT !.destination = m]
    <3>1. b.maxBacklog = settings[at[j]].maxBacklog /\ b.unlimited = settings[at[j]].unlimited
      BY <2>2 DEF Settings
    <3> QED
      BY <1>4, <2>1, <2>3, <3>1
  <2> QED
    BY <1>1, <1>7, <2>3 DEF Finish
<1>8. ASSUME NEW q \in Queue, OnIdle(q)
      PROVE  settings'[w].maxBacklog = 0 => settings'[w].unlimited
  <2>1. settings' = settings \/ settings' = [settings EXCEPT ![q[1]] = Fresh(None)]
    BY <1>8 DEF OnIdle
  <2> QED
    BY SMT, <1>t, <1>f, <2>1 DEF TypeOK
<1>9. CASE UNCHANGED vars
  BY <1>1, <1>9 DEF vars
<1>10. ASSUME NEW j \in Jobs, Resolve(j)
       PROVE  settings'[w].maxBacklog = 0 => settings'[w].unlimited
  BY <1>1, <1>2, <1>10 DEF Resolve
<1>11. ASSUME NEW j \in Jobs, Submit(j) \/ Handoff(j) \/ Count(j) \/ Stale(j)
       PROVE  settings' = settings
  BY <1>11 DEF Submit, Handoff, Count, Stale
<1>12. ASSUME NEW q \in Queue, Remember(q) \/ Idle(q) \/ CloseQueue(q)
       PROVE  settings' = settings
  BY <1>12 DEF Remember, Idle, CloseQueue
<1>13. ASSUME NEW v \in Workers, Forget(v) PROVE settings' = settings
  BY <1>13 DEF Forget
<1>14. ASSUME CloseStop \/ CloseWait \/ CloseDone PROVE settings' = settings
  BY <1>14 DEF CloseStop, CloseWait, CloseDone
<1>15. CASE Peek
  BY <1>2, <1>15 DEF Peek
<1> QED
  BY <1>1, <1>3, <1>5, <1>6, <1>7, <1>8, <1>9, <1>10, <1>11, <1>12, <1>13, <1>14, <1>15
  DEF Next, Enqueue, Loop, Close

\* Every step keeps the bound of every running worker.
LEMMA BoundKept ==
    ASSUME BudgetInv, [Next]_vars, NEW w \in Workers \ closed' PROVE Bounded(w)'
<1> USE DEF callVars, modeVars, loadVars, stopVars
<1>t. /\ TypeOK /\ Control /\ \A v \in Workers \ closed : Bounded(v)
  BY DEF BudgetInv, IInv
<1>q. ASSUME Quiet(w) PROVE Bounded(w)'
  BY <1>q, <1>t, QuietKeeps DEF Quiet
<1>1. ASSUME NEW j \in Jobs, Submit(j) PROVE Quiet(w)
  BY <1>1, <1>t DEF Quiet, Admitted, Submit, TypeOK
<1>2. ASSUME NEW j \in Jobs, Resolve(j) PROVE Bounded(w)'
  <2>1. CASE stop
    <3>1. Quiet(w)
      BY <1>2, <1>t, <2>1 DEF Quiet, Admitted, Resolve, TypeOK
    <3> QED
      BY <1>q, <3>1
  <2>2. CASE ~stop
    <3>1. PICK v \in Workers :
            /\ Worker(v)
            /\ pc' = [pc EXCEPT ![j] = IF j \in Asks THEN "header" ELSE "reserve"]
            /\ at' = [at EXCEPT ![j] = v]
      BY <1>2, <2>2 DEF Resolve
    <3>2. \A i \in Jobs : pc'[i] \in {"handoff", "held"} => pc'[i] = pc[i] /\ at'[i] = at[i]
      BY <1>t, <3>1 DEF TypeOK
    <3> QED
      BY <1>t, <3>1, <3>2, NewWorkerBounded
  <2> QED
    BY <2>1, <2>2
<1>3. ASSUME NEW j \in Jobs, OptIn(j) PROVE Quiet(w)
  <2>1. Admitted(w)' \subseteq Admitted(w) /\ w \notin closed
    BY <1>3, <1>t DEF Admitted, OptIn, TypeOK
  <2>2. settings' = [settings EXCEPT ![at[j]] =
                        [settings[at[j]] EXCEPT !.optedIn = at[j] \notin closed]]
    BY <1>3 DEF OptIn
  <2>3. settings[w] \in Settings
    BY <1>t DEF TypeOK
  <2>4. settings'[w] = settings[w]
          \/ settings'[w] = [settings[w] EXCEPT !.optedIn = at[j] \notin closed]
    BY <1>t, <2>2 DEF TypeOK
  <2> QED
    BY <2>1, <2>3, <2>4 DEF Quiet, Settings
<1>4. ASSUME NEW j \in Jobs, Reserve(j) PROVE Bounded(w)'
  BY <1>4, ReserveBounded
<1>5. ASSUME NEW j \in Jobs, Handoff(j) \/ Count(j) \/ Stale(j) PROVE Quiet(w)
  BY <1>5, <1>t DEF Quiet, Admitted, Handoff, Count, Stale, TypeOK
<1>6. ASSUME NEW j \in Jobs, Finish(j) PROVE Quiet(w)
  <2>1. Admitted(w)' \subseteq Admitted(w) /\ w \notin closed
    BY <1>6, <1>t DEF Admitted, Finish, TypeOK
  <2>2. settings[w] \in Settings
    BY <1>t DEF TypeOK
  <2>3. settings'[w] = settings[w]
          \/ \E m \in Modes : settings'[w] = [settings[w] EXCEPT !.destination = m]
    BY <1>6, <1>t DEF Finish, TypeOK
  <2> QED
    BY <2>1, <2>2, <2>3 DEF Quiet, Settings
<1>7. ASSUME NEW q \in Queue, Remember(q) \/ Idle(q) \/ CloseQueue(q) PROVE Quiet(w)
  BY <1>7, <1>t DEF Quiet, Admitted, Remember, Idle, CloseQueue, TypeOK
<1>8. ASSUME NEW q \in Queue, OnIdle(q) PROVE Quiet(w)
  <2>1. Admitted(w)' \subseteq Admitted(w) /\ w \notin closed
    BY <1>8, <1>t DEF Admitted, OnIdle
  <2>2. settings'[w] = settings[w]
    BY <1>8, <1>t DEF OnIdle, TypeOK
  <2> QED
    BY <2>1, <2>2 DEF Quiet
<1>9. ASSUME NEW v \in Workers, Forget(v) PROVE Quiet(w)
  BY <1>9 DEF Quiet, Admitted, Forget
<1>10. ASSUME NEW v \in Workers, Advertise(v) PROVE Bounded(w)'
  BY <1>10, AdvertiseBounded
<1>11. CASE Peek
  <2>1. PICK v \in Workers : Worker(v)
    BY <1>11 DEF Peek
  <2>2. pc' = pc /\ at' = at
    BY <1>11 DEF Peek
  <2> QED
    BY <1>t, <2>1, <2>2, NewWorkerBounded
<1>12. ASSUME CloseStop \/ CloseWait \/ CloseDone PROVE Quiet(w)
  BY <1>12 DEF Quiet, Admitted, CloseStop, CloseWait, CloseDone
<1>13. ASSUME UNCHANGED vars PROVE Quiet(w)
  BY <1>13 DEF Quiet, Admitted, vars
<1> QED
  BY <1>q, <1>1, <1>2, <1>3, <1>4, <1>5, <1>6, <1>7, <1>8, <1>9, <1>10, <1>11, <1>12, <1>13
  DEF Next, Enqueue, Loop, Close

\* However a target moves its backlog budget while jobs come and go, the jobs
\* that fair admission let in stay within the budget, or within the ceiling over
\* the budget or over what was held when it shrank.
THEOREM BudgetHolds == Spec => []AdmittedBounded
<1>1. Init => BudgetInv
  <2> SUFFICES ASSUME Init PROVE BudgetKnown /\ closed = Workers
    BY InitHolds DEF BudgetInv
  <2> QED
    BY DEF Init, BudgetKnown, Fresh
<1>2. BudgetInv /\ [Next]_vars => BudgetInv'
  <2> SUFFICES ASSUME BudgetInv, [Next]_vars PROVE BudgetInv'
    OBVIOUS
  <2>1. IInv'
    BY TypeKept, ControlKept DEF BudgetInv, IInv
  <2>2. BudgetKnown'
    BY BudgetKnownKept
  <2>3. \A w \in Workers \ closed' : Bounded(w)'
    BY BoundKept
  <2> QED
    BY <2>1, <2>2, <2>3 DEF BudgetInv
<1>3. BudgetInv => AdmittedBounded
  BY DEF BudgetInv, Bounded, AdmittedBounded
<1> QED
  BY <1>1, <1>2, <1>3, PTL DEF Spec

-----------------------------------------------------------------------------
(* The shared pace. *)

\* The inductive invariant: the slots start one interval apart, none of them
\* in the future.
PaceInv ==
    /\ now \in Nat /\ last \in Int /\ slots \in Nat
    /\ granted \in BOOLEAN
    /\ mark \in [marked : BOOLEAN, slot : Int, at : Nat, credit : Nat]
    /\ granted => last <= now
    /\ mark.marked => /\ granted
                      /\ mark.slot >= mark.at - mark.credit
                      /\ slots * Fastest <= last - mark.slot

\* CeilingHeld, for any queues and any rates that change from call to call.
THEOREM Ceiling ==
    ASSUME Fastest \in Nat PROVE PaceSpec => []CeilingHeld
<1>1. PaceInit => PaceInv
  <2> SUFFICES ASSUME PaceInit PROVE PaceInv
    OBVIOUS
  <2>1. mark \in [marked : BOOLEAN, slot : Int, at : Nat, credit : Nat] /\ ~mark.marked
    BY SMT DEF PaceInit, NoMark
  <2>2. now \in Nat /\ last \in Int /\ slots \in Nat
    BY SMT DEF PaceInit
  <2>3. granted \in BOOLEAN /\ (granted => last <= now)
    BY Zenon DEF PaceInit
  <2> QED
    BY <2>1, <2>2, <2>3, Zenon DEF PaceInv
<1>2. PaceInv /\ [PaceNext]_paceVars => PaceInv'
  <2> SUFFICES ASSUME PaceInv, [PaceNext]_paceVars PROVE PaceInv'
    OBVIOUS
  <2>1. ASSUME NEW who \in Queues, NEW t \in 0..now, NEW interval \in Interval,
               Wait(who, t, interval)
        PROVE  PaceInv'
    BY <2>1 DEF PaceInv, Wait
  <2>2. ASSUME NEW who \in Queues, NEW t \in 0..now, NEW interval \in Interval,
               Grant(who, t, interval)
        PROVE  PaceInv'
    <3>1. /\ interval \in Nat /\ Fastest <= interval /\ t \in Nat /\ t <= now
          /\ now' = now /\ granted' = TRUE /\ last' = Start(t, interval)
          /\ ~granted \/ t >= last + interval
      BY SMT, <2>2 DEF Grant, Interval, Free, PaceInv
    <3>2. /\ last' \in Int /\ last' <= now /\ last' >= t - interval
          /\ granted => last' >= last + interval
      BY SMT, <3>1 DEF Start, PaceInv
    <3>3. CASE mark' = [marked |-> TRUE, slot |-> last', at |-> t, credit |-> interval]
               /\ slots' = 0
      BY SMT, <3>1, <3>2, <3>3 DEF PaceInv
    <3>4. CASE mark' = mark /\ slots' = IF mark.marked THEN slots + 1 ELSE 0
      <4>1. CASE ~mark.marked
        BY <3>1, <3>2, <3>4, <4>1 DEF PaceInv
      <4>2. CASE mark.marked
        <5>1. (slots + 1) * Fastest = slots * Fastest + Fastest /\ slots * Fastest \in Nat
          BY SMT DEF PaceInv
        <5>2. slots' * Fastest <= last' - mark.slot
          BY SMT, <3>1, <3>2, <3>4, <4>2, <5>1 DEF PaceInv
        <5> QED
          BY SMT, <3>1, <3>2, <3>4, <4>2, <5>2 DEF PaceInv
      <4> QED
        BY <4>1, <4>2
    <3> QED
      BY <2>2, <3>3, <3>4 DEF Grant
  <2>3. CASE Tick
    BY SMT, <2>3 DEF PaceInv, Tick
  <2>4. CASE UNCHANGED paceVars
    BY <2>4 DEF PaceInv, paceVars
  <2> QED
    BY <2>1, <2>2, <2>3, <2>4 DEF PaceNext, ReservePace
<1>3. PaceInv => CeilingHeld
  <2> SUFFICES ASSUME PaceInv, mark.marked PROVE slots * Fastest <= now - mark.at + mark.credit
    BY DEF CeilingHeld
  <2>1. slots * Fastest \in Nat
    BY SMT DEF PaceInv
  <2> QED
    BY SMT, <2>1 DEF PaceInv
<1> QED
  BY <1>1, <1>2, <1>3, PTL DEF PaceSpec
=============================================================================
