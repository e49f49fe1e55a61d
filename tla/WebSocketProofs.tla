--------------------------- MODULE WebSocketProofs ---------------------------
(***************************************************************************)
(* Proofs about the connections of internal/websocket, for any number of   *)
(* them, any limits and any number of faults.                              *)
(*                                                                         *)
(* The scheduler (WebSocketScheduler) counts its slots exactly and its     *)
(* line of waiters is exact.  Neither fact is inductive alone.  A slot is  *)
(* given back by a waiter that was granted, so the count needs to know     *)
(* that the loop grants only waiters that hold none; a position is         *)
(* published only when it changed, so what a client knows needs            *)
(* waiter.position to be its place.                                        *)
(*                                                                         *)
(* The transcript (WebSocketTranscript) gives a connection every entry it  *)
(* passes, unless the stream was trimmed past it, and a stream with        *)
(* followers is subscribed to.                                             *)
(***************************************************************************)
EXTENDS WebSocketScheduler, WebSocketTranscript, SequenceTheorems, FiniteSetTheorems, TLAPS

\* The leaves are first-order and set reasoning except where they say SMT.
USE ZenonT(40)

\* No session twice, and membership.
Distinct(q) == \A i, j \in DOMAIN q : q[i] = q[j] => i = j
In(q, s) == \E i \in DOMAIN q : q[i] = s

\* A slot was granted exactly when ready was closed without an error, and only
\* a handler that waits has a settled admission.
Flags ==
  \A s \in Sessions :
    /\ granted[s] <=> ready[s] = "granted"
    /\ ready[s] # "open" => st[s] \in Waiting

\* waiter.position is the place in the line.
Places == \A i \in DOMAIN waiters : position[waiters[i]] = i

\* What the client of s heard last, or will hear next.
Heard(upd, tld, s) == IF upd[s] # 0 THEN upd[s] ELSE tld[s]

\* The line of waiters, and what their clients know of it.
Line ==
  /\ Distinct(waiters)
  /\ \A s \in Sessions : In(waiters, s) <=> (st[s] \in Waiting /\ ready[s] = "open")
  /\ Places
  /\ \A i \in DOMAIN waiters : Heard(update, told, waiters[i]) = i

\* The inductive invariant of the scheduler.
Inv == TypeOK /\ Flags /\ Line /\ ActiveExact

-----------------------------------------------------------------------------
(* Sequences without repetition.                                           *)

\* RemoveAt closes the gap.
LEMMA RemoveAtElements ==
  ASSUME NEW S, NEW q \in Seq(S), NEW i \in DOMAIN q
  PROVE  /\ RemoveAt(q, i) \in Seq(S)
         /\ Len(RemoveAt(q, i)) = Len(q) - 1
         /\ \A k \in 1 .. Len(q) - 1 :
              RemoveAt(q, i)[k] = IF k < i THEN q[k] ELSE q[k + 1]
<1> DEFINE l == SubSeq(q, 1, i - 1)
           r == SubSeq(q, i + 1, Len(q))
<1>0. /\ i \in 1 .. Len(q) /\ Len(q) \in Nat
      /\ \A k \in 1 .. Len(q) : q[k] \in S
  BY SMT
<1>1. /\ l \in Seq(S)
      /\ Len(l) = i - 1
      /\ \A k \in 1 .. i - 1 : l[k] = q[k]
  <2>1. \A k \in 1 .. i - 1 : q[k] \in S
    BY <1>0, SMT
  <2>2. /\ l \in Seq(S)
        /\ Len(l) = IF 1 <= i - 1 THEN i - 1 - 1 + 1 ELSE 0
        /\ \A k \in 1 .. i - 1 - 1 + 1 : l[k] = q[1 + k - 1]
    BY <1>0, <2>1, SubSeqProperties, SMT
  <2> QED BY <1>0, <2>2, SMT
<1>2. /\ r \in Seq(S)
      /\ Len(r) = Len(q) - i
      /\ \A k \in 1 .. Len(q) - i : r[k] = q[i + k]
  <2>1. \A k \in i + 1 .. Len(q) : q[k] \in S
    BY <1>0, SMT
  <2>2. /\ r \in Seq(S)
        /\ Len(r) = IF i + 1 <= Len(q) THEN Len(q) - (i + 1) + 1 ELSE 0
        /\ \A k \in 1 .. Len(q) - (i + 1) + 1 : r[k] = q[i + 1 + k - 1]
    BY <1>0, <2>1, SubSeqProperties, SMT
  <2> QED BY <1>0, <2>2, SMT
<1>3. /\ l \o r \in Seq(S)
      /\ Len(l \o r) = Len(l) + Len(r)
      /\ \A k \in 1 .. Len(l) + Len(r) :
           (l \o r)[k] = IF k <= Len(l) THEN l[k] ELSE r[k - Len(l)]
  BY <1>1, <1>2, ConcatProperties
<1>4. RemoveAt(q, i) = l \o r
  BY DEF RemoveAt
<1> HIDE DEF l, r
<1>5. \A k \in 1 .. Len(q) - 1 : (l \o r)[k] = IF k < i THEN q[k] ELSE q[k + 1]
  <2> SUFFICES ASSUME NEW k \in 1 .. Len(q) - 1
               PROVE  (l \o r)[k] = IF k < i THEN q[k] ELSE q[k + 1]
    OBVIOUS
  <2>1. k \in 1 .. Len(l) + Len(r)
    BY <1>0, <1>1, <1>2, SMT
  <2>2. CASE k < i
    BY <1>0, <1>1, <1>3, <2>1, <2>2, SMT
  <2>3. CASE ~(k < i)
    <3>1. k - Len(l) \in 1 .. Len(q) - i /\ i + (k - Len(l)) = k + 1
      BY <1>0, <1>1, <2>3, SMT
    <3>2. (l \o r)[k] = r[k - Len(l)]
      BY <1>0, <1>1, <1>3, <2>1, <2>3, SMT
    <3> QED BY <1>2, <2>3, <3>1, <3>2
  <2> QED BY <2>2, <2>3
<1>6. Len(l \o r) = Len(q) - 1
  BY <1>0, <1>1, <1>2, <1>3, SMT
<1> QED BY <1>3, <1>4, <1>5, <1>6, Zenon

\* removeWaiterLocked takes s out of the line and nobody else.
LEMMA RemoveWaiter ==
  ASSUME waiters \in Seq(Sessions), Distinct(waiters), NEW s \in Sessions
  PROVE  /\ removeWaiter(s) \in Seq(Sessions)
         /\ Distinct(removeWaiter(s))
         /\ \A t \in Sessions : In(removeWaiter(s), t) <=> In(waiters, t) /\ t # s
<1>1. CASE ~In(waiters, s)
  BY <1>1 DEF removeWaiter, In
<1>2. CASE In(waiters, s)
  <2> DEFINE i == CHOOSE i \in DOMAIN waiters : waiters[i] = s
             q == RemoveAt(waiters, i)
  <2>1. i \in DOMAIN waiters /\ waiters[i] = s
    BY <1>2 DEF In
  <2>2. removeWaiter(s) = q
    BY <1>2 DEF removeWaiter, In
  <2> HIDE DEF i
  <2>3. /\ q \in Seq(Sessions)
        /\ Len(q) = Len(waiters) - 1
        /\ \A k \in 1 .. Len(waiters) - 1 :
             q[k] = IF k < i THEN waiters[k] ELSE waiters[k + 1]
    BY <2>1, RemoveAtElements
  <2>4. DOMAIN q = 1 .. Len(waiters) - 1 /\ DOMAIN waiters = 1 .. Len(waiters)
        /\ Len(waiters) \in Nat /\ i \in Nat
    BY <2>1, <2>3, SMT
  <2> HIDE DEF q
  <2>5. Distinct(q)
    <3> SUFFICES ASSUME NEW j \in 1 .. Len(waiters) - 1, NEW k \in 1 .. Len(waiters) - 1,
                        q[j] = q[k]
                 PROVE  j = k
      BY <2>4 DEF Distinct
    <3> DEFINE From(n) == IF n < i THEN n ELSE n + 1
    <3>1. /\ From(j) \in DOMAIN waiters /\ From(k) \in DOMAIN waiters
          /\ From(j) = From(k) => j = k
      BY <2>4, SMT
    <3>2. q[j] = waiters[From(j)] /\ q[k] = waiters[From(k)]
      BY <2>3, <2>4
    <3> QED BY <3>1, <3>2 DEF Distinct
  <2>6. ASSUME NEW t \in Sessions
        PROVE  In(q, t) <=> In(waiters, t) /\ t # s
    <3>1. ASSUME In(q, t) PROVE In(waiters, t) /\ t # s
      <4>1. PICK k \in 1 .. Len(waiters) - 1 : q[k] = t
        BY <2>4, <3>1 DEF In
      <4>2. CASE k < i
        BY <2>1, <2>3, <2>4, <4>1, <4>2, SMT DEF Distinct, In
      <4>3. CASE ~(k < i)
        BY <2>1, <2>3, <2>4, <4>1, <4>3, SMT DEF Distinct, In
      <4> QED BY <4>2, <4>3
    <3>2. ASSUME In(waiters, t), t # s PROVE In(q, t)
      <4>1. PICK k \in 1 .. Len(waiters) : waiters[k] = t
        BY <2>4, <3>2 DEF In
      <4>2. k # i
        BY <2>1, <3>2, <4>1
      <4>3. CASE k < i
        <5>1. k \in 1 .. Len(waiters) - 1 /\ q[k] = t
          BY <2>1, <2>3, <2>4, <4>1, <4>3, SMT
        <5> QED BY <2>4, <5>1 DEF In
      <4>4. CASE k > i
        <5>1. k - 1 \in 1 .. Len(waiters) - 1 /\ q[k - 1] = t
          BY <2>1, <2>3, <2>4, <4>1, <4>4, SMT
        <5> QED BY <2>4, <5>1 DEF In
      <4> QED BY <2>4, <4>1, <4>2, <4>3, <4>4, SMT
    <3> QED BY <3>1, <3>2
  <2> QED BY <2>2, <2>3, <2>5, <2>6
<1> QED BY <1>1, <1>2

\* Tail takes the head out of the line and nobody else.
LEMMA TailOfLine ==
  ASSUME waiters \in Seq(Sessions), waiters # <<>>, Distinct(waiters)
  PROVE  /\ Head(waiters) \in Sessions
         /\ In(waiters, Head(waiters))
         /\ Tail(waiters) \in Seq(Sessions)
         /\ Distinct(Tail(waiters))
         /\ \A t \in Sessions :
              In(Tail(waiters), t) <=> In(waiters, t) /\ t # Head(waiters)
<1>1. /\ Head(waiters) \in Sessions
      /\ Tail(waiters) \in Seq(Sessions)
      /\ Len(Tail(waiters)) = Len(waiters) - 1
      /\ \A i \in 1 .. Len(Tail(waiters)) : Tail(waiters)[i] = waiters[i + 1]
  BY HeadTailProperties
<1>2. /\ Len(waiters) \in Nat \ {0}
      /\ DOMAIN waiters = 1 .. Len(waiters)
      /\ DOMAIN Tail(waiters) = 1 .. Len(waiters) - 1
      /\ Head(waiters) = waiters[1]
  BY <1>1, SMT
<1>3. Distinct(Tail(waiters))
  BY <1>1, <1>2, SMT DEF Distinct
<1>4. In(waiters, Head(waiters))
  BY <1>2, SMT DEF In
<1>5. ASSUME NEW t \in Sessions
      PROVE  In(Tail(waiters), t) <=> In(waiters, t) /\ t # Head(waiters)
  <2>1. ASSUME In(Tail(waiters), t) PROVE In(waiters, t) /\ t # Head(waiters)
    <3>1. PICK k \in 1 .. Len(waiters) - 1 : Tail(waiters)[k] = t
      BY <1>2, <2>1 DEF In
    <3> QED BY <1>1, <1>2, <3>1, SMT DEF Distinct, In
  <2>2. ASSUME In(waiters, t), t # Head(waiters) PROVE In(Tail(waiters), t)
    <3>1. PICK k \in 1 .. Len(waiters) : waiters[k] = t
      BY <1>2, <2>2 DEF In
    <3>2. k - 1 \in 1 .. Len(waiters) - 1 /\ Tail(waiters)[k - 1] = t
      BY <1>1, <1>2, <2>2, <3>1, SMT
    <3> QED BY <1>2, <3>2 DEF In
  <2> QED BY <2>1, <2>2
<1> QED BY <1>1, <1>3, <1>4, <1>5

\* EnqueueUpstream puts s at the end and moves nobody.
LEMMA AppendToLine ==
  ASSUME waiters \in Seq(Sessions), Distinct(waiters),
         NEW s \in Sessions, ~In(waiters, s)
  PROVE  /\ Append(waiters, s) \in Seq(Sessions)
         /\ Distinct(Append(waiters, s))
         /\ \A t \in Sessions : In(Append(waiters, s), t) <=> In(waiters, t) \/ t = s
         /\ DOMAIN Append(waiters, s) = DOMAIN waiters \cup {Len(waiters) + 1}
         /\ \A i \in DOMAIN waiters : Append(waiters, s)[i] = waiters[i]
         /\ Append(waiters, s)[Len(waiters) + 1] = s
<1> DEFINE q == Append(waiters, s)
<1>1. /\ q \in Seq(Sessions)
      /\ Len(waiters) \in Nat
      /\ DOMAIN q = 1 .. Len(waiters) + 1
      /\ DOMAIN waiters = 1 .. Len(waiters)
      /\ \A i \in 1 .. Len(waiters) : q[i] = waiters[i]
      /\ q[Len(waiters) + 1] = s
  BY SMT
<1> HIDE DEF q
<1>2. DOMAIN q = DOMAIN waiters \cup {Len(waiters) + 1}
  BY <1>1, SMT
<1>3. \A i \in DOMAIN waiters : waiters[i] # s
  BY DEF In
<1>4. Distinct(q)
  BY <1>1, <1>2, <1>3 DEF Distinct
<1>5. \A t \in Sessions : In(q, t) <=> In(waiters, t) \/ t = s
  BY <1>1, <1>2, Zenon DEF In
<1> QED BY <1>1, <1>2, <1>4, <1>5 DEF q

\* publishPositionsLocked leaves every waiter with its place, in position and
\* in the channel, provided what each one knew before was its old position.
LEMMA Publish ==
  ASSUME NEW STATE q, q \in Seq(Sessions), Distinct(q), NEW STATE left,
         publishPositions(q, left),
         position \in [Sessions -> Nat], update \in [Sessions -> Nat],
         \A t \in Sessions : In(q, t) => Heard(update, told, t) = position[t] /\ t \notin left,
         \A t \in Sessions : In(q, t) => told'[t] = told[t]
  PROVE  /\ position' \in [Sessions -> Nat]
         /\ update' \in [Sessions -> Nat]
         /\ \A i \in DOMAIN q : position'[q[i]] = i /\ Heard(update', told', q[i]) = i
<1> DEFINE Place(s) == CHOOSE i \in DOMAIN q : q[i] = s
           Queued == {q[i] : i \in DOMAIN q}
<1>1. /\ position' = [s \in Sessions |-> IF s \in Queued THEN Place(s) ELSE 0]
      /\ update' = [s \in Sessions |->
                      IF s \in Queued /\ position[s] # Place(s) THEN Place(s)
                      ELSE IF s \in left THEN 0 ELSE update[s]]
  BY DEF publishPositions
<1>2. DOMAIN q \subseteq Nat \ {0} /\ \A i \in DOMAIN q : q[i] \in Sessions
  BY SMT
<1>3. \A i \in DOMAIN q : q[i] \in Queued /\ Place(q[i]) = i
  BY DEF Distinct
<1>4. \A s \in Queued : Place(s) \in Nat \ {0}
  BY <1>2, <1>3
<1> HIDE DEF Place, Queued
<1>5. position' \in [Sessions -> Nat] /\ update' \in [Sessions -> Nat]
  BY <1>1, <1>4
<1>6. ASSUME NEW i \in DOMAIN q
      PROVE  position'[q[i]] = i /\ Heard(update', told', q[i]) = i
  <2>1. q[i] \in Sessions /\ In(q, q[i]) /\ i \in Nat \ {0}
    BY <1>2 DEF In
  <2>2. position'[q[i]] = i
    BY <1>1, <1>3, <2>1
  <2>3. CASE position[q[i]] # i
    BY <1>1, <1>3, <2>1, <2>3 DEF Heard
  <2>4. CASE position[q[i]] = i
    BY <1>1, <1>3, <2>1, <2>4 DEF Heard
  <2> QED BY <2>2, <2>3, <2>4
<1> QED BY <1>5, <1>6

-----------------------------------------------------------------------------
(* Counting the slots.                                                     *)

\* The holders of slots are finitely many.
LEMMA HoldersFinite == IsFiniteSet(Holders) /\ Cardinality(Holders) \in Nat
BY SchedulerAssumption, FS_Subset, FS_CardinalityType DEF Holders

\* One more holder counts one more.
LEMMA HolderGains ==
  ASSUME ActiveExact, NEW s \in Sessions, s \notin Holders,
         Holders' = Holders \cup {s}, active' = active + 1
  PROVE  ActiveExact' /\ active' \in Nat
BY HoldersFinite, FS_AddElement, SMT DEF ActiveExact

\* One holder fewer counts one fewer.
LEMMA HolderLeaves ==
  ASSUME ActiveExact, NEW s \in Holders, Holders' = Holders \ {s},
         active' = active - 1
  PROVE  ActiveExact' /\ active' \in Nat /\ active > 0
<1>1. Cardinality(Holders \ {s}) = Cardinality(Holders) - 1
  BY HoldersFinite, FS_RemoveElement
<1>2. Cardinality(Holders \ {s}) \in Nat
  BY HoldersFinite, FS_RemoveElement, FS_CardinalityType
<1> QED BY <1>1, <1>2, HoldersFinite, SMT DEF ActiveExact

-----------------------------------------------------------------------------
(* What the steps of the scheduler keep.  The types split in two: the      *)
(* variables the line and the count are made of, and the rest.             *)

\* The types of what the arguments about the line and the count use.
CoreType ==
  /\ active \in Nat
  /\ waiters \in Seq(Sessions)
  /\ position \in [Sessions -> Nat]
  /\ update \in [Sessions -> Nat]
  /\ granted \in [Sessions -> BOOLEAN]
  /\ ready \in [Sessions -> {"open", "granted", "failed"}]
  /\ told \in [Sessions -> Nat]

\* The other types.
RestType ==
  /\ clients \in Nat
  /\ advertisedMax \in Advertised \cup {0}
  /\ paced \in BOOLEAN
  /\ wake \in BOOLEAN
  /\ loop \in {"grant", "idle", "timer", "done"}
  /\ st \in [Sessions -> HandlerStates]
  /\ tries \in [Sessions -> 0 .. MaxTries]
  /\ ctx \subseteq Sessions
  /\ manager \in {"open", "draining", "canceled", "stopping", "waiting", "closed"}

\* What each kind of step is shown to keep.
Core == CoreType /\ Flags /\ Line /\ ActiveExact

\* States in which a handler holds a slot without waiting.
Holding == {"holding", "relay"}

\* The invariant is its two parts.
LEMMA InvParts == Inv <=> RestType /\ Core
BY DEF Inv, TypeOK, RestType, Core, CoreType

\* A step that leaves the line alone and moves no handler in or out of it, or
\* on or off a slot.
LEMMA QuietKeeps ==
  ASSUME Core, UNCHANGED <<active, waiters, waiter, told>>,
         \A t \in Sessions : /\ st'[t] \in Waiting <=> st[t] \in Waiting
                             /\ st'[t] \in Holding <=> st[t] \in Holding
  PROVE  Core'
<1> USE DEF waiter
<1>1. CoreType' /\ Flags'
  BY DEF Core, CoreType, Flags
<1>2. Line'
  BY DEF Core, CoreType, Line, Distinct, In, Places, Heard
<1>3. Holders' = Holders
  BY DEF Holders, Holding
<1> QED BY <1>1, <1>2, <1>3 DEF Core, ActiveExact

\* A handler gives its slot back and goes on without one.
LEMMA ReleaseKeeps ==
  ASSUME RestType, Core, NEW s \in Sessions, st[s] \in Holding, Release,
         NEW to, Go(s, to), to \notin Waiting \cup Holding, told' = told
  PROVE  Core'
<1>1. s \in Holders
  BY DEF Holders, Holding
<1>2. Holders' = Holders \ {s}
  BY DEF Holders, Holding, Go, Release, waiter, RestType, Waiting
<1>3. active > 0
  BY <1>1, HoldersFinite, FS_EmptySet, SMT DEF Core, ActiveExact
<1>4. active' = active - 1
  BY <1>3 DEF Release
<1>5. ActiveExact' /\ active' \in Nat
  BY <1>1, <1>2, <1>4, HolderLeaves DEF Core
<1>6. CoreType'
  BY <1>5 DEF Core, CoreType, Release, waiter
<1>7. Flags'
  BY DEF Core, Flags, Release, waiter, Go, RestType, Waiting, Holding
<1>8. Line'
  BY SMT DEF Core, CoreType, Line, Distinct, In, Places, Heard, Release, waiter, Go,
         RestType, Waiting, Holding
<1> QED BY <1>5, <1>6, <1>7, <1>8 DEF Core

\* Admission.Cancel: the slot, if it was granted, or the place in the line.
LEMMA CancelKeeps ==
  ASSUME RestType, Core, NEW s \in Sessions, st[s] \in Waiting, Cancel(s),
         NEW to, Go(s, to), to \notin Waiting \cup Holding
  PROVE  Core'
<1> DEFINE q == IF granted[s] THEN waiters ELSE removeWaiter(s)
<1>0. /\ CoreType /\ Flags /\ Line /\ ActiveExact
      /\ waiters \in Seq(Sessions) /\ Distinct(waiters)
  BY DEF Core, CoreType, Line
<1>1. /\ q \in Seq(Sessions) /\ Distinct(q)
      /\ \A t \in Sessions : In(q, t) <=> In(waiters, t) /\ t # s
  <2>1. granted[s] => ~In(waiters, s)
    BY <1>0 DEF Flags, Line
  <2>2. CASE granted[s]
    BY <1>0, <2>1, <2>2
  <2>3. CASE ~granted[s]
    BY <1>0, <2>3, RemoveWaiter
  <2> QED BY <2>2, <2>3
<1>2. /\ waiters' = q /\ publishPositions(q, {s})
      /\ active' = IF granted[s] THEN active - 1 ELSE active
      /\ granted' = [granted EXCEPT ![s] = FALSE]
      /\ ready' = [ready EXCEPT ![s] = "open"]
      /\ told' = [told EXCEPT ![s] = 0]
      /\ st' = [st EXCEPT ![s] = to]
  BY DEF Cancel, Go
<1> HIDE DEF q
<1>3. \A t \in Sessions : In(q, t) => Heard(update, told, t) = position[t] /\ t \notin {s}
  BY <1>0, <1>1, SMT DEF Line, Places, In
<1>4. \A t \in Sessions : In(q, t) => told'[t] = told[t]
  BY <1>0, <1>1, <1>2 DEF CoreType
<1>5. /\ position' \in [Sessions -> Nat] /\ update' \in [Sessions -> Nat]
      /\ \A i \in DOMAIN q : position'[q[i]] = i /\ Heard(update', told', q[i]) = i
  BY <1>0, <1>1, <1>2, <1>3, <1>4, Publish DEF CoreType
<1>6. ActiveExact' /\ active' \in Nat
  <2>1. CASE granted[s]
    <3>1. s \in Holders
      BY <2>1 DEF Holders
    <3>2. Holders' = Holders \ {s}
      BY <1>0, <1>2 DEF Holders, Holding, RestType, CoreType
    <3> QED BY <1>0, <1>2, <2>1, <3>1, <3>2, HolderLeaves
  <2>2. CASE ~granted[s]
    <3>1. Holders' = Holders
      BY <1>0, <1>2, <2>2 DEF Holders, Holding, RestType, CoreType, Waiting
    <3> QED BY <1>0, <1>2, <2>2, <3>1 DEF ActiveExact, CoreType
  <2> QED BY <2>1, <2>2
<1>7. CoreType'
  BY <1>0, <1>1, <1>2, <1>5, <1>6 DEF CoreType
<1>8. Flags'
  BY <1>0, <1>2 DEF Flags, CoreType, RestType
<1>9. Line'
  <2>1. \A t \in Sessions : In(waiters', t) <=> (st'[t] \in Waiting /\ ready'[t] = "open")
    BY <1>0, <1>1, <1>2 DEF Line, CoreType, RestType
  <2> QED BY <1>1, <1>2, <1>5, <2>1 DEF Line, Places, Distinct, In
<1> QED BY <1>6, <1>7, <1>8, <1>9 DEF Core

\* EnqueueUpstream: a handler without an admission joins the end of the line.
LEMMA EnqueueKeeps ==
  ASSUME RestType, Core, NEW s \in Sessions, st[s] \notin Waiting \cup Holding,
         Enqueue(s), NEW to \in Waiting, Go(s, to)
  PROVE  Core'
<1> DEFINE q == Append(waiters, s)
<1>0. /\ CoreType /\ Flags /\ Line /\ ActiveExact
      /\ waiters \in Seq(Sessions) /\ Distinct(waiters) /\ ~In(waiters, s)
  BY DEF Core, CoreType, Line
<1>1. /\ q \in Seq(Sessions) /\ Distinct(q)
      /\ \A t \in Sessions : In(q, t) <=> In(waiters, t) \/ t = s
      /\ DOMAIN q = DOMAIN waiters \cup {Len(waiters) + 1}
      /\ \A i \in DOMAIN waiters : q[i] = waiters[i]
      /\ q[Len(waiters) + 1] = s
  BY <1>0, AppendToLine
<1>2. /\ waiters' = q /\ active' = active
      /\ position' = [position EXCEPT ![s] = Len(waiters) + 1]
      /\ told' = [told EXCEPT ![s] = Len(waiters) + 1]
      /\ update' = [update EXCEPT ![s] = 0]
      /\ granted' = [granted EXCEPT ![s] = FALSE]
      /\ ready' = [ready EXCEPT ![s] = "open"]
      /\ st' = [st EXCEPT ![s] = to]
  BY DEF Enqueue, Go
<1>3. Len(waiters) \in Nat /\ \A i \in DOMAIN waiters : waiters[i] \in Sessions /\ waiters[i] # s
  BY <1>0, SMT DEF In
<1> HIDE DEF q
<1>4. CoreType'
  BY <1>0, <1>1, <1>2, <1>3, SMT DEF CoreType
<1>5. Flags'
  BY <1>0, <1>2 DEF Flags, CoreType, RestType
<1>6. ASSUME NEW i \in DOMAIN q
      PROVE  position'[q[i]] = i /\ Heard(update', told', q[i]) = i
  <2>1. CASE i = Len(waiters) + 1
    BY <1>0, <1>1, <1>2, <2>1 DEF Heard, CoreType
  <2>2. CASE i \in DOMAIN waiters
    BY <1>0, <1>1, <1>2, <1>3, <2>2 DEF Heard, CoreType, Line, Places
  <2> QED BY <1>1, <2>1, <2>2
<1>7. Line'
  <2>1. \A t \in Sessions : In(waiters', t) <=> (st'[t] \in Waiting /\ ready'[t] = "open")
    BY <1>0, <1>1, <1>2 DEF Line, CoreType, RestType
  <2> QED BY <1>1, <1>2, <1>6, <2>1 DEF Line, Places, Distinct, In
<1>8. Holders' = Holders
  BY <1>0, <1>2 DEF Holders, Holding, RestType, CoreType, Waiting
<1> QED BY <1>0, <1>2, <1>4, <1>5, <1>7, <1>8 DEF Core, ActiveExact

\* Wait returns: with the slot it was granted, or with an error.
LEMMA WaitReadyKeeps ==
  ASSUME RestType, Core, NEW s \in Sessions, WaitReady(s)
  PROVE  Core'
<1>0. /\ CoreType /\ Flags /\ Line /\ ActiveExact
      /\ waiters \in Seq(Sessions) /\ ~In(waiters, s)
      /\ \A i \in DOMAIN waiters : waiters[i] \in Sessions /\ waiters[i] # s
  BY SMT DEF Core, CoreType, Line, WaitReady, In
<1>1. /\ UNCHANGED <<active, waiters, position>>
      /\ granted' = [granted EXCEPT ![s] = FALSE]
      /\ ready' = [ready EXCEPT ![s] = "open"]
      /\ update' = [update EXCEPT ![s] = 0]
      /\ told' = [told EXCEPT ![s] = 0]
      /\ st' = [st EXCEPT ![s] = IF ready[s] = "granted" THEN "holding" ELSE "ending"]
      /\ st[s] = "wait" /\ ready[s] # "open"
  BY DEF WaitReady, Go, scheduler
<1>2. CoreType'
  BY <1>0, <1>1 DEF CoreType
<1>3. Flags'
  BY <1>0, <1>1 DEF Flags, CoreType, RestType
<1>4. Line'
  <2>1. \A t \in Sessions : In(waiters', t) <=> (st'[t] \in Waiting /\ ready'[t] = "open")
    BY <1>0, <1>1, SMT DEF Line, CoreType, RestType, Waiting, In
  <2>2. \A i \in DOMAIN waiters : Heard(update', told', waiters[i]) = i
    BY <1>0, <1>1 DEF Line, CoreType, Heard
  <2> QED BY <1>0, <1>1, <2>1, <2>2 DEF Line, Places, Distinct
<1>5. Holders' = Holders
  BY <1>0, <1>1 DEF Holders, Flags, CoreType, RestType, Waiting
<1> QED BY <1>0, <1>1, <1>2, <1>3, <1>4, <1>5 DEF Core, ActiveExact

\* Wait takes a position from the channel and tells the client.
LEMMA TellKeeps ==
  ASSUME RestType, Core, NEW s \in Sessions, update[s] # 0,
         told' = [told EXCEPT ![s] = update[s]],
         update' = [update EXCEPT ![s] = 0],
         UNCHANGED <<scheduler, position, granted, ready, st>>
  PROVE  Core'
<1>0. /\ CoreType /\ Flags /\ Line /\ ActiveExact
      /\ UNCHANGED <<active, waiters>>
      /\ \A i \in DOMAIN waiters : waiters[i] \in Sessions
  BY SMT DEF Core, CoreType, scheduler
<1>1. CoreType' /\ Flags'
  BY <1>0 DEF CoreType, Flags
<1>2. \A i \in DOMAIN waiters : Heard(update', told', waiters[i]) = i
  BY <1>0 DEF Line, CoreType, Heard
<1>3. Line'
  BY <1>0, <1>2 DEF Line, Places, Distinct, In
<1>4. Holders' = Holders
  BY DEF Holders
<1> QED BY <1>0, <1>1, <1>3, <1>4 DEF Core, ActiveExact

\* grantReady grants one waiter, which held no slot.
LEMMA GrantKeeps ==
  ASSUME RestType, Core, Grant
  PROVE  Core'
<1> DEFINE h == Head(waiters)
           q == Tail(waiters)
           nobody == {}
<1>0. /\ CoreType /\ Flags /\ Line /\ ActiveExact
      /\ waiters \in Seq(Sessions) /\ waiters # <<>> /\ Distinct(waiters)
  BY DEF Core, CoreType, Line, Grant
<1>1. /\ h \in Sessions /\ In(waiters, h)
      /\ q \in Seq(Sessions) /\ Distinct(q)
      /\ \A t \in Sessions : In(q, t) <=> In(waiters, t) /\ t # h
  BY <1>0, TailOfLine
<1>2. /\ waiters' = q /\ publishPositions(q, nobody)
      /\ granted' = [granted EXCEPT ![h] = TRUE]
      /\ ready' = [ready EXCEPT ![h] = "granted"]
      /\ active' = active + 1
      /\ told' = told /\ st' = st
  BY DEF Grant, handlers
<1>a. \A t \in Sessions : t \notin nobody
  OBVIOUS
<1> HIDE DEF h, q, nobody
<1>3. st[h] \in Waiting /\ ready[h] = "open" /\ ~granted[h]
  BY <1>0, <1>1 DEF Line, Flags
<1>4. \A t \in Sessions : In(q, t) => Heard(update, told, t) = position[t] /\ t \notin nobody
  BY <1>0, <1>1, <1>a DEF Line, Places, In
<1>5. /\ position' \in [Sessions -> Nat] /\ update' \in [Sessions -> Nat]
      /\ \A i \in DOMAIN q : position'[q[i]] = i /\ Heard(update', told', q[i]) = i
  <2>1. \A t \in Sessions : In(q, t) => told'[t] = told[t]
    BY <1>2
  <2> QED BY <1>0, <1>1, <1>2, <1>4, <2>1, Publish DEF CoreType
<1>6. ActiveExact' /\ active' \in Nat
  <2>1. h \notin Holders
    BY <1>3 DEF Holders, Waiting
  <2>2. Holders' = Holders \cup {h}
    BY <1>0, <1>1, <1>2, <1>3 DEF Holders, CoreType
  <2> QED BY <1>0, <1>1, <1>2, <2>1, <2>2, HolderGains
<1>7. CoreType'
  BY <1>0, <1>1, <1>2, <1>5, <1>6 DEF CoreType
<1>8. Flags'
  BY <1>0, <1>1, <1>2, <1>3 DEF Flags, CoreType
<1>9. Line'
  <2>1. \A t \in Sessions : In(waiters', t) <=> (st'[t] \in Waiting /\ ready'[t] = "open")
    BY <1>0, <1>1, <1>2 DEF Line, CoreType
  <2> QED BY <1>1, <1>2, <1>5, <2>1 DEF Line, Places, Distinct, In
<1> QED BY <1>6, <1>7, <1>8, <1>9 DEF Core

\* failWaiters fails everyone in the line.
LEMMA StopKeeps ==
  ASSUME RestType, Core, Stop
  PROVE  Core'
<1>0. /\ CoreType /\ Flags /\ Line /\ ActiveExact
      /\ waiters \in Seq(Sessions)
  BY DEF Core, CoreType
<1>1. /\ ready' = [s \in Sessions |-> IF In(waiters, s) THEN "failed" ELSE ready[s]]
      /\ waiters' = <<>>
      /\ UNCHANGED <<active, position, update, granted, told, st>>
  BY DEF Stop, In, handlers
<1>2. CoreType'
  BY <1>0, <1>1, SMT DEF CoreType
<1>3. Flags'
  BY <1>0, <1>1 DEF Flags, CoreType, Line
<1>4. Line'
  <2>1. DOMAIN waiters' = {}
    BY <1>1, SMT
  <2>2. \A t \in Sessions : ~(st'[t] \in Waiting /\ ready'[t] = "open")
    BY <1>0, <1>1 DEF CoreType, Line
  <2> QED BY <2>1, <2>2 DEF Line, Places, Distinct, In
<1>5. Holders' = Holders
  BY <1>1 DEF Holders
<1> QED BY <1>0, <1>1, <1>2, <1>3, <1>4, <1>5 DEF Core, ActiveExact

-----------------------------------------------------------------------------
(* Every step.                                                             *)

\* It holds at first.
LEMMA InitHolds == Init => Inv
<1> SUFFICES ASSUME Init PROVE Inv
  OBVIOUS
<1>1. RestType
  <2>1. tries \in [Sessions -> 0 .. MaxTries]
    BY SchedulerAssumption, SMT DEF Init
  <2>2. clients \in Nat /\ st \in [Sessions -> HandlerStates]
    BY DEF Init, HandlerStates
  <2> QED BY <2>1, <2>2 DEF Init, RestType
<1>2. CoreType /\ Flags
  BY SMT DEF Init, CoreType, Flags
<1>3. Line
  BY SMT DEF Init, Line, Distinct, In, Places, Waiting
<1>4. ActiveExact
  <2>1. Holders = {}
    BY DEF Init, Holders
  <2> QED BY <2>1, FS_EmptySet DEF Init, ActiveExact
<1> QED BY <1>1, <1>2, <1>3, <1>4, InvParts DEF Core

\* Every step keeps the other types.
LEMMA RestTypeKept ==
  ASSUME RestType, [Next]_vars
  PROVE  RestType'
<1> USE SchedulerAssumption DEF RestType, HandlerStates, Go, notify, scheduler, waiter,
handlers
<1>1. CASE Loop \/ PaceElapses
  BY <1>1 DEF Loop, PaceElapses, NothingToGrant, TooSoon, Grant, Wake, Timer, Stop
<1>2. CASE Close
  BY <1>2 DEF Close, BeginDrain, CancelAll, CloseStop, CloseWaits, CloseStore, Step
<1>3. ASSUME NEW s \in Sessions, Handler(s) PROVE RestType'
  <2>1. CASE AcquireClient(s)
    BY <2>1, SMT DEF AcquireClient
  <2>2. CASE EnqueueUpstream(s)
    BY <2>2 DEF EnqueueUpstream, Enqueue, Refuse
  <2>8. CASE Reconnect(s)
    <3>1. tries' \in [Sessions -> 0 .. MaxTries]
      <4>1. tries' = tries \/ (tries[s] < MaxTries /\ tries' = [tries EXCEPT ![s] = @ + 1])
        BY <2>8 DEF Reconnect
      <4> QED BY <4>1, SMT
    <3>2. clients' = clients /\ advertisedMax' = advertisedMax /\ paced' = paced
          /\ loop' = loop /\ wake' \in BOOLEAN
      BY <2>8 DEF Reconnect, Enqueue, Refuse
    <3>3. st' \in [Sessions -> HandlerStates] /\ ctx' = ctx /\ manager' = manager
      BY <2>8 DEF Reconnect
    <3> QED BY <3>1, <3>2, <3>3
  <2>3. CASE UpgradeFails(s) \/ Register(s)
    BY <2>3 DEF UpgradeFails, Register, Cancel
  <2>4. CASE Unregister(s) \/ ReleaseClient(s) \/ EndSession(s)
    BY <2>4, SMT DEF Unregister, ReleaseClient, EndSession
  <2>5. CASE Announce(s) \/ WaitReady(s) \/ WaitPosition(s) \/ WaitDone(s)
    BY <2>5 DEF Announce, WaitReady, WaitPosition, WaitDone, Cancel
  <2>6. CASE DialFails(s) \/ ReportFailure(s) \/ Connected(s)
    BY <2>6 DEF DialFails, ReportFailure, Connected, Release
  <2>7. CASE UpdateCapacity(s) \/ RelayEnds(s)
    BY <2>7 DEF UpdateCapacity, RelayEnds, Release
  <2> QED BY <1>3, <2>1, <2>2, <2>3, <2>4, <2>5, <2>6, <2>7, <2>8 DEF Handler
<1>4. CASE UNCHANGED vars
  BY <1>4 DEF vars
<1> QED BY <1>1, <1>2, <1>3, <1>4 DEF Next

\* Every step of a handler keeps the core.
LEMMA HandlerKeeps ==
  ASSUME RestType, Core, NEW s \in Sessions, Handler(s)
  PROVE  Core'
<1> USE DEF Waiting, Holding
<1>1. CASE AcquireClient(s)
  BY <1>1, QuietKeeps DEF AcquireClient, Go, RestType
<1>2. CASE EnqueueUpstream(s)
  <2>1. CASE Enqueue(s) /\ Go(s, "queued")
    BY <1>2, <2>1, EnqueueKeeps DEF EnqueueUpstream
  <2>2. CASE Refuse /\ Go(s, "leaving")
    BY <1>2, <2>2, QuietKeeps DEF EnqueueUpstream, Refuse, Go, RestType, scheduler
  <2> QED BY <1>2, <2>1, <2>2 DEF EnqueueUpstream
<1>3. CASE UpgradeFails(s)
  BY <1>3, CancelKeeps DEF UpgradeFails
<1>4. CASE Register(s)
  <2>1. CASE manager = "open"
    BY <1>4, <2>1, QuietKeeps DEF Register, Go, RestType, scheduler
  <2>2. CASE manager # "open"
    BY <1>4, <2>2, CancelKeeps DEF Register
  <2> QED BY <2>1, <2>2
<1>5. CASE Unregister(s)
  BY <1>5, QuietKeeps DEF Unregister, Go, RestType, scheduler
<1>6. CASE ReleaseClient(s)
  BY <1>6, QuietKeeps DEF ReleaseClient, Go, RestType
<1>7. CASE EndSession(s)
  BY <1>7, QuietKeeps DEF EndSession, scheduler
<1>8. CASE Announce(s)
  <2>1. CASE Go(s, "wait") /\ UNCHANGED <<scheduler, waiter, told>>
    BY <1>8, <2>1, QuietKeeps DEF Announce, Go, RestType, scheduler
  <2>2. CASE Cancel(s) /\ Go(s, "ending")
    BY <1>8, <2>2, CancelKeeps DEF Announce
  <2> QED BY <1>8, <2>1, <2>2 DEF Announce
<1>9. CASE WaitReady(s)
  BY <1>9, WaitReadyKeeps
<1>10. CASE WaitPosition(s)
  <2>1. CASE /\ told' = [told EXCEPT ![s] = update[s]]
             /\ update' = [update EXCEPT ![s] = 0]
             /\ UNCHANGED <<scheduler, position, granted, ready, st>>
    BY <1>10, <2>1, TellKeeps DEF WaitPosition
  <2>2. CASE Cancel(s) /\ Go(s, "ending")
    BY <1>10, <2>2, CancelKeeps DEF WaitPosition
  <2> QED BY <1>10, <2>1, <2>2 DEF WaitPosition
<1>11. CASE WaitDone(s)
  BY <1>11, CancelKeeps DEF WaitDone
<1>12. CASE DialFails(s)
  BY <1>12, ReleaseKeeps DEF DialFails
<1>13. CASE ReportFailure(s)
  BY <1>13, QuietKeeps DEF ReportFailure, Go, RestType
<1>14. CASE Connected(s)
  BY <1>14, QuietKeeps DEF Connected, Go, RestType
<1>15. CASE UpdateCapacity(s)
  BY <1>15, QuietKeeps DEF UpdateCapacity, handlers
<1>16. CASE RelayEnds(s)
  <2>1. PICK to \in {"ending", "backoff"} : st[s] \in Holding /\ Go(s, to)
    BY <1>16 DEF RelayEnds
  <2> QED BY <1>16, <2>1, ReleaseKeeps DEF RelayEnds
<1>17. CASE Reconnect(s)
  <2>1. CASE Enqueue(s) /\ Go(s, "announce")
    BY <1>17, <2>1, EnqueueKeeps DEF Reconnect
  <2>2. CASE Refuse /\ Go(s, "ending")
    BY <1>17, <2>2, QuietKeeps DEF Reconnect, Refuse, Go, RestType, scheduler
  <2>3. CASE Go(s, "ending") /\ UNCHANGED <<scheduler, waiter, told, tries>>
    BY <1>17, <2>3, QuietKeeps DEF Reconnect, Go, RestType, scheduler
  <2> QED BY <1>17, <2>1, <2>2, <2>3 DEF Reconnect
<1> QED BY <1>1, <1>2, <1>3, <1>4, <1>5, <1>6, <1>7, <1>8, <1>9, <1>10, <1>11, <1>12,
           <1>13, <1>14, <1>15, <1>16, <1>17 DEF Handler

\* Every step keeps the invariant.
LEMMA StepKeeps == Inv /\ [Next]_vars => Inv'
<1> SUFFICES ASSUME RestType, Core, [Next]_vars PROVE Core'
  <2>1. RestType /\ [Next]_vars => RestType'
    BY RestTypeKept
  <2> QED BY <2>1 DEF Inv, TypeOK, RestType, Core, CoreType
<1>2. CASE Loop \/ PaceElapses
  <2>1. CASE Grant
    BY <2>1, GrantKeeps
  <2>2. CASE Stop
    BY <2>2, StopKeeps
  <2>3. CASE NothingToGrant \/ TooSoon \/ Wake \/ Timer \/ PaceElapses
    BY <2>3, QuietKeeps DEF NothingToGrant, TooSoon, Wake, Timer, PaceElapses, handlers
  <2> QED BY <1>2, <2>1, <2>2, <2>3 DEF Loop
<1>3. CASE Close
  BY <1>3, QuietKeeps DEF Close, BeginDrain, CancelAll, CloseStop, CloseWaits, CloseStore,
       Step, scheduler
<1>4. ASSUME NEW s \in Sessions, Handler(s) PROVE Core'
  BY <1>4, HandlerKeeps
<1>5. CASE UNCHANGED vars
  BY <1>5, QuietKeeps DEF vars, scheduler, handlers
<1> QED BY <1>2, <1>3, <1>4, <1>5 DEF Next

\* activeUpstreams is the number of sessions that hold a slot, at every moment
\* and for any number of sessions and limits: no interleaving of the loop with
\* cancelled contexts, failed upgrades and failed dials leaks a slot or gives
\* one back twice.
THEOREM SlotsCounted == Spec => []ActiveExact
<1>1. Inv => ActiveExact
  BY DEF Inv
<1> QED BY InitHolds, StepKeeps, <1>1, PTL DEF Spec

\* The line of waiters is exact, for any number of waiters: everyone who waits
\* is in it once, nobody else is, and the place a client was told last, or
\* finds in its channel, is its place.
THEOREM LineCorrect == Spec => []LineExact
<1>1. Inv => LineExact
  <2> SUFFICES ASSUME Inv PROVE LineExact
    OBVIOUS
  <2>1. TypeOK /\ waiters \in Seq(Sessions)
    BY DEF Inv, TypeOK
  <2>2. WaiterQueued
    BY DEF Inv, Line, Distinct, In, WaiterQueued
  <2>3. PositionKnown
    BY DEF Inv, Line, Heard, PositionKnown
  <2> QED BY <2>1, <2>2, <2>3 DEF LineExact
<1> QED BY InitHolds, StepKeeps, <1>1, PTL DEF Spec

-----------------------------------------------------------------------------
(* The transcript of a room: places in it.                                 *)

\* The next entry of a connection that was not outrun is still in the stream.
Unread == \A c \in Placed \ outrun : oldest <= Most(cursor[c], base[c]) + 1

\* A connection starts before its cursor; one that has read nothing starts before
\* what the stream holds.
Based == \A c \in Conns : IF cursor[c] = 0 THEN base[c] < oldest ELSE base[c] <= cursor[c]

\* A connection that is not open has no place in the transcript.
NoPlace ==
  \A c \in Conns :
    handler[c] \in {"out", "closing", "unsubscribe", "gone"} => cursor[c] = 0

\* Clients have been sent only entries that were written.
Written == \A c \in Conns : delivered[c] \subseteq 1 .. last

\* NoSilentGap without the types.
Gapless ==
   \A c \in Conns \ outrun :
       (base[c] + 1 .. cursor[c]) \ Client \subseteq delivered[c]

\* The inductive invariant of NoSilentGap.  A read returns what is left of the
\* stream after the cursor, so it skips nothing only while the next entry of the
\* connection has not been trimmed; a new connection may start after any entry some
\* client was sent, so those must have been written.
PlaceInv == NoSilentGap /\ Written /\ NoPlace /\ Unread /\ Based

\* A new entry moves no connection.
LEMMA PlaceAppend ==
  ASSUME PlaceInv, AppendEntry
  PROVE  PlaceInv'
<1> USE DEF AppendEntry, conns, follower, seen
<1>1. TranscriptTypeOK'
  BY SMT, TranscriptAssumption DEF TranscriptTypeOK, NoSilentGap, PlaceInv, Entries
<1>2. Gapless' /\ NoPlace' /\ Unread' /\ Based'
  BY SMT DEF PlaceInv, NoSilentGap, Gapless, NoPlace, Unread, Placed, Based
<1>3. Written'
  BY SMT DEF PlaceInv, Written, NoSilentGap, TranscriptTypeOK
<1> QED BY <1>1, <1>2, <1>3, Zenon DEF PlaceInv, NoSilentGap, Gapless

\* Trimming past a connection marks it outrun.
LEMMA PlaceTrim ==
  ASSUME PlaceInv, Trim
  PROVE  PlaceInv'
<1> USE DEF Trim, conns, follower, pubsub
<1>1. TranscriptTypeOK'
  BY SMT, TranscriptAssumption DEF TranscriptTypeOK, NoSilentGap, PlaceInv, Entries, Placed
<1>2. Gapless' /\ NoPlace'
  BY SMT DEF PlaceInv, NoSilentGap, Gapless, NoPlace
<1>3. Written'
  BY SMT DEF PlaceInv, Written, NoSilentGap, TranscriptTypeOK
<1>4. Unread'
  BY SMT DEF PlaceInv, Unread, Placed, Most, NoSilentGap, TranscriptTypeOK
<1>5. Based'
  BY SMT DEF PlaceInv, Based, NoSilentGap, TranscriptTypeOK
<1> QED BY <1>1, <1>2, <1>3, <1>4, <1>5, Zenon DEF PlaceInv, NoSilentGap, Gapless

\* A connection starts at a cursor the stream still follows on from, or is told it is gone.
LEMMA PlaceConnect ==
  ASSUME PlaceInv, NEW c \in Conns, Connect(c)
  PROVE  PlaceInv'
<1> USE DEF Connect, Becomes, follower, pubsub,
seen
<1>1. PICK after \in {0} \cup UNION {delivered[d] : d \in Conns} :
        IF CheckCursor(after)
        THEN /\ handler' = [handler EXCEPT ![c] = "replay"]
             /\ cursor' = [cursor EXCEPT ![c] = after]
             /\ base' = [base EXCEPT ![c] = after]
        ELSE /\ handler' = [handler EXCEPT ![c] = "gone"]
             /\ UNCHANGED <<cursor, base>>
  OBVIOUS
<1>2. after \in 0 .. last
  BY <1>1, SMT DEF PlaceInv, Written, NoSilentGap, TranscriptTypeOK
<1>3. TranscriptTypeOK'
  BY <1>1, <1>2, SMT DEF TranscriptTypeOK, NoSilentGap, PlaceInv,
     States
<1>4. Gapless'
  BY <1>1, <1>2, SMT DEF PlaceInv, NoSilentGap, TranscriptTypeOK, Gapless
<1>5. NoPlace' /\ Written'
  BY <1>1, SMT DEF PlaceInv, NoSilentGap, TranscriptTypeOK, NoPlace, Written
<1>6. Unread'
  BY <1>1, <1>2, SMT DEF PlaceInv, NoSilentGap, TranscriptTypeOK, Unread, Placed,
     Most, CheckCursor
<1>7. Based'
  BY <1>1, <1>2, SMT DEF PlaceInv, NoSilentGap, TranscriptTypeOK, Based
<1> QED BY <1>3, <1>4, <1>5, <1>6, <1>7, Zenon DEF PlaceInv, NoSilentGap, Gapless

\* A read takes the entries after the cursor in order, and passes over the client's own.
LEMMA PlaceRead ==
  ASSUME PlaceInv, NEW c \in Conns,
         NEW then \in {"follow", "await"}, Read(c, then),
         handler[c] \in {"replay", "catchup"}
  PROVE  PlaceInv'
<1> DEFINE first == Most(cursor[c] + 1, oldest)
           end == Least(first + ReadBatch - 1, last)
<1>1. /\ cursor' = [cursor EXCEPT ![c] = IF first <= end THEN end ELSE @]
      /\ base' = [base EXCEPT ![c] = IF c \notin Placed THEN first - 1 ELSE @]
      /\ delivered' = [delivered EXCEPT ![c] = @ \cup ((first .. end) \ Client)]
      /\ UNCHANGED <<last, oldest, signal, subs, wanted, live, inbox, drops, outrun, crossed>>
  BY DEF Read, follower, pubsub, seen
<1>2. PICK state \in {"replay", "catchup", "follow", "await"} :
        handler' = [handler EXCEPT ![c] = state]
  <2> DEFINE state == IF end - first + 1 < ReadBatch THEN then ELSE handler[c]
  <2>1. handler' = [handler EXCEPT ![c] = state]
    BY Zenon DEF Read, Becomes
  <2>2. state \in {"replay", "catchup", "follow", "await"}
    BY Zenon
  <2> HIDE DEF state
  <2> QED BY <2>1, <2>2, Zenon
<1>3. /\ last \in Nat /\ last <= MaxEntries /\ MaxEntries \in Nat
      /\ oldest \in 1 .. last + 1
      /\ cursor[c] \in 0 .. last /\ base[c] \in 0 .. last
      /\ ReadBatch \in Nat \ {0}
  BY SMT, TranscriptAssumption DEF TranscriptTypeOK, NoSilentGap, PlaceInv
<1>4. /\ first \in 1 .. last + 1 /\ first >= oldest /\ first >= cursor[c] + 1
      /\ first = cursor[c] + 1 \/ first = oldest
      /\ end \in Int /\ end <= last /\ (first <= last => first <= end)
  BY <1>3, SMT DEF Most, Least
<1>0. c \notin Placed => cursor[c] = 0
  BY SMT DEF Placed
<1>p. Placed' \subseteq Placed \cup {c}
  BY <1>1, <1>2, SMT DEF Placed, PlaceInv, NoSilentGap, TranscriptTypeOK
<1> HIDE DEF first, end
<1>5. TranscriptTypeOK'
  BY <1>1, <1>2, <1>3, <1>4, SMT DEF TranscriptTypeOK, NoSilentGap, PlaceInv,
     States, Entries
<1>6. NoPlace'
  BY <1>1, <1>2, SMT DEF PlaceInv, NoSilentGap, TranscriptTypeOK, NoPlace
<1>7. Written'
  BY <1>1, <1>3, <1>4, SMT DEF PlaceInv, NoSilentGap, TranscriptTypeOK, Written
<1>8. Unread' /\ Based'
  <2>1. ASSUME NEW d \in Conns, d # c
        PROVE  /\ d \in Placed' \ outrun => oldest <= Most(cursor'[d], base'[d]) + 1
               /\ IF cursor'[d] = 0 THEN base'[d] < oldest ELSE base'[d] <= cursor'[d]
    <3>1. cursor'[d] = cursor[d] /\ base'[d] = base[d] /\ (d \in Placed' => d \in Placed)
      BY <1>1, <1>p, <2>1, SMT DEF PlaceInv, NoSilentGap, TranscriptTypeOK
    <3> QED BY <3>1, Zenon DEF PlaceInv, Unread, Based
  <2>2. /\ cursor'[c] = IF first <= end THEN end ELSE cursor[c]
        /\ base'[c] = IF c \notin Placed THEN first - 1 ELSE base[c]
    BY <1>1, SMT DEF PlaceInv, NoSilentGap, TranscriptTypeOK
  <2>3. /\ c \in Placed \ outrun => oldest <= Most(cursor[c], base[c]) + 1
        /\ IF cursor[c] = 0 THEN base[c] < oldest ELSE base[c] <= cursor[c]
    BY Zenon DEF PlaceInv, Unread, Based
  <2>4. /\ c \notin outrun => oldest <= Most(cursor'[c], base'[c]) + 1
        /\ IF cursor'[c] = 0 THEN base'[c] < oldest ELSE base'[c] <= cursor'[c]
    BY <1>0, <1>3, <1>4, <2>2, <2>3, SMT DEF Most
  <2>5. Placed' \subseteq Conns
    BY Zenon DEF Placed
  <2> QED BY <1>1, <2>1, <2>4, <2>5, Zenon DEF Unread, Based
<1>9. Gapless'
  <2> SUFFICES ASSUME NEW d \in Conns \ outrun
               PROVE  (base'[d] + 1 .. cursor'[d]) \ Client \subseteq delivered'[d]
    BY <1>1, Zenon DEF Gapless
  <2>0. (base[d] + 1 .. cursor[d]) \ Client \subseteq delivered[d]
    BY Zenon DEF PlaceInv, NoSilentGap
  <2>1. CASE d # c
    BY <1>1, <2>0, <2>1, SMT DEF PlaceInv, NoSilentGap, TranscriptTypeOK
  <2>2. CASE d = c
    <3>1. /\ cursor'[c] = IF first <= end THEN end ELSE cursor[c]
          /\ base'[c] = IF c \notin Placed THEN first - 1 ELSE base[c]
          /\ delivered'[c] = delivered[c] \cup ((first .. end) \ Client)
      BY <1>1, SMT DEF PlaceInv, NoSilentGap, TranscriptTypeOK
    <3>2. /\ c \in Placed => oldest <= Most(cursor[c], base[c]) + 1
          /\ IF cursor[c] = 0 THEN base[c] < oldest ELSE base[c] <= cursor[c]
      BY <2>2, Zenon DEF PlaceInv, Unread, Based
    <3>3. /\ c \in Placed /\ cursor[c] # 0 => first = cursor[c] + 1
          /\ c \in Placed /\ cursor[c] = 0 => first = base[c] + 1
      BY <1>3, <1>4, <3>2, SMT DEF Most
    <3> QED BY <1>0, <1>3, <1>4, <2>0, <2>2, <3>1, <3>3, SMT
  <2> QED BY <2>1, <2>2
<1> QED BY <1>5, <1>6, <1>7, <1>8, <1>9, Zenon DEF PlaceInv, NoSilentGap, Gapless

\* A connection that ends gives up its place.
LEMMA PlaceEnd ==
  ASSUME PlaceInv, NEW c \in Conns, End(c)
  PROVE  PlaceInv'
<1> USE DEF End, Becomes, follower, pubsub
<1>1. TranscriptTypeOK'
  BY SMT DEF TranscriptTypeOK, NoSilentGap, PlaceInv, States
<1>2. Gapless' /\ NoPlace' /\ Written' /\ Based'
  BY SMT DEF PlaceInv, NoSilentGap, TranscriptTypeOK, Gapless, NoPlace,
     Written, Based
<1>3. Unread'
  BY SMT DEF PlaceInv, NoSilentGap, TranscriptTypeOK, Unread, Placed
<1> QED BY <1>1, <1>2, <1>3, Zenon DEF PlaceInv, NoSilentGap, Gapless

\* A step of a handler that reads nothing keeps every place.
LEMMA PlaceOther ==
  ASSUME PlaceInv, NEW c \in Conns,
         UNCHANGED <<last, oldest, base, cursor, delivered, outrun>>,
         NEW state \in States, handler' = [handler EXCEPT ![c] = state],
         state \in {"out", "closing", "unsubscribe", "gone"}
            => handler[c] \in {"out", "closing", "unsubscribe", "gone"},
         state \in {"follow", "subscribe", "catchup", "await", "undo", "unsubscribeUndo",
                    "replay"}
            => handler[c] \in {"follow", "subscribe", "catchup", "await", "undo",
                               "unsubscribeUndo"},
         signal' \subseteq Conns, subs' \subseteq Conns,
         wanted' \in BOOLEAN, live' \in BOOLEAN, crossed' \in BOOLEAN,
         inbox' \subseteq {"message", "subscribe"}, drops' \in 0 .. MaxDrops
  PROVE  PlaceInv'
<1>1. TranscriptTypeOK'
  BY SMT DEF TranscriptTypeOK, NoSilentGap, PlaceInv
<1>2. Gapless' /\ NoPlace' /\ Written' /\ Based'
  BY SMT DEF PlaceInv, NoSilentGap, TranscriptTypeOK, Gapless, NoPlace,
     Written, Based
<1>3. Unread'
  BY SMT DEF PlaceInv, NoSilentGap, TranscriptTypeOK, Unread, Placed
<1> QED BY <1>1, <1>2, <1>3, Zenon DEF PlaceInv, NoSilentGap, Gapless

\* A step of the pub/sub client keeps every place.
LEMMA PlaceElse ==
  ASSUME PlaceInv,
         UNCHANGED <<last, oldest, handler, base, cursor, delivered, outrun>>,
         signal' \subseteq Conns, subs' \subseteq Conns,
         wanted' \in BOOLEAN, live' \in BOOLEAN, crossed' \in BOOLEAN,
         inbox' \subseteq {"message", "subscribe"}, drops' \in 0 .. MaxDrops
  PROVE  PlaceInv'
BY Zenon DEF PlaceInv, NoSilentGap, TranscriptTypeOK, NoPlace, Written, Unread, Based,
   Placed

\* Every step of the transcript keeps the places.
LEMMA PlaceStep ==
  ASSUME PlaceInv, [TranscriptNext]_transcriptVars
  PROVE  PlaceInv'
<1> USE DEF conns, follower, pubsub, seen
<1>0. /\ TranscriptTypeOK /\ MaxDrops \in Nat
  BY Zenon, TranscriptAssumption DEF PlaceInv, NoSilentGap
<1>1. CASE UNCHANGED transcriptVars
  BY <1>1, Zenon DEF transcriptVars, PlaceInv, NoSilentGap,
     TranscriptTypeOK, Written, NoPlace, Unread, Based, Placed
<1>2. CASE AppendEntry
  BY <1>2, PlaceAppend
<1>3. CASE Trim
  BY <1>3, PlaceTrim
<1>4. CASE ShardRun
  BY <1>0, <1>4, PlaceElse, Zenon DEF ShardRun, TranscriptTypeOK
<1>5. CASE Drop
  <2>1. drops' \in 0 .. MaxDrops
    BY <1>0, <1>5, SMT DEF Drop, TranscriptTypeOK
  <2> QED BY <1>0, <1>5, <2>1, PlaceElse, Zenon DEF Drop, TranscriptTypeOK
<1>6. CASE Resubscribe
  BY <1>0, <1>6, PlaceElse, Zenon DEF Resubscribe, TranscriptTypeOK
<1>7. ASSUME NEW c \in Conns,
             Connect(c) \/ End(c) \/ ConnHandler(c)
      PROVE  PlaceInv'
  <2> USE DEF Becomes, States
  <2>1. CASE Connect(c)
    BY <2>1, PlaceConnect
  <2>2. CASE End(c)
    BY <2>2, PlaceEnd
  <2>3. CASE Replay(c)
    BY <2>3, PlaceRead, Zenon DEF Replay
  <2>4. CASE CatchUp(c)
    BY <2>4, PlaceRead, Zenon DEF CatchUp
  <2>5. CASE Await(c)
    BY <1>0, <2>5, PlaceOther, Zenon DEF Await, TranscriptTypeOK
  <2>6. CASE Follow(c)
    BY <1>0, <2>6, PlaceOther, Zenon DEF Follow, TranscriptTypeOK
  <2>7. CASE Subscribe(c)
    BY <1>0, <2>7, PlaceOther, Zenon DEF Subscribe, TranscriptTypeOK
  <2>8. CASE SubscribeFails(c)
    <3>1. drops' \in 0 .. MaxDrops
      BY <1>0, <2>8, SMT DEF SubscribeFails, TranscriptTypeOK
    <3> QED BY <1>0, <2>8, <3>1, PlaceOther, Zenon
               DEF SubscribeFails, TranscriptTypeOK
  <2>9. CASE CloseFollow(c)
    BY <1>0, <2>9, PlaceOther, Zenon DEF CloseFollow, TranscriptTypeOK
  <2>10. CASE Unsubscribe(c)
    BY <1>0, <2>10, PlaceOther, Zenon DEF Unsubscribe, TranscriptTypeOK
  <2> QED BY <1>7, <2>1, <2>2, <2>3, <2>4, <2>5, <2>6, <2>7, <2>8, <2>9, <2>10, Zenon
             DEF ConnHandler
<1> QED BY <1>1, <1>2, <1>3, <1>4, <1>5, <1>6, <1>7, Zenon DEF TranscriptNext

\* The client of a connection that was not outrun has every entry between where it
\* started and its cursor, its own excepted: replay, catch-up and following skip
\* none between them, whatever is written, trimmed or dropped meanwhile.
THEOREM NoSilentGapCorrect == TranscriptSpec => []NoSilentGap
<1>1. TranscriptInit => PlaceInv
  <2> SUFFICES ASSUME TranscriptInit PROVE PlaceInv
    OBVIOUS
  <2>1. 0 \in 0 .. MaxEntries /\ 1 \in 1 .. 0 + 1 /\ 0 \in 0 .. 0 /\ 0 \in 0 .. MaxDrops
        /\ 0 + 1 .. 0 = {}
    BY SMT, TranscriptAssumption
  <2>2. TranscriptTypeOK
    BY <2>1, Zenon DEF TranscriptInit, TranscriptTypeOK, States
  <2>3. Written /\ NoPlace /\ Gapless
    BY <2>1, Zenon DEF TranscriptInit, Written, NoPlace, Gapless
  <2>4. Unread /\ Based
    BY SMT DEF TranscriptInit, Unread, Placed, Based
  <2> QED BY <2>2, <2>3, <2>4, Zenon DEF PlaceInv, NoSilentGap, Gapless
<1>2. PlaceInv /\ [TranscriptNext]_transcriptVars => PlaceInv'
  BY PlaceStep
<1>3. PlaceInv => NoSilentGap
  BY DEF PlaceInv
<1> QED BY <1>1, <1>2, <1>3, PTL DEF TranscriptSpec

-----------------------------------------------------------------------------
(* The transcript of a room: followers.                                    *)

\* subs holds the connections between their registration and their removal.
Followers ==
  \A c \in Conns :
    c \in subs <=> handler[c] \in {"subscribe", "catchup", "await", "undo", "closing"}

\* While followers are registered and an old unsubscribe is on its way, the two
\* have crossed.
Crossing == subs # {} /\ Unsubscribing # {} => crossed

\* A stream with followers is wanted, or a follower is about to subscribe.
Served == subs # {} => wanted \/ crossed \/ \E c \in Conns : handler[c] = "subscribe"

\* The inductive invariant of FollowersSubscribed.
FollowInv ==
  /\ handler \in [Conns -> States] /\ subs \subseteq Conns
  /\ Followers /\ Crossing /\ Served

\* Every step of the transcript keeps the followers subscribed.
LEMMA FollowStep ==
  ASSUME FollowInv, [TranscriptNext]_transcriptVars
  PROVE  FollowInv'
<1> USE DEF conns, follower, pubsub, seen
<1>1. CASE UNCHANGED <<handler, subs, wanted, crossed>>
  BY <1>1, Zenon DEF FollowInv, Followers, Crossing, Served, Unsubscribing
<1>2. ASSUME NEW c \in Conns,
             Connect(c) \/ End(c) \/ ConnHandler(c)
      PROVE  FollowInv'
  <2> USE DEF Becomes, States, FollowInv, Followers, Crossing, Served,
              Unsubscribing
  <2>1. CASE Connect(c)
    BY <2>1, SMT DEF Connect
  <2>2. CASE End(c)
    BY <2>2, SMT DEF End
  <2>3. CASE Replay(c)
    BY <2>3, SMT DEF Replay, Read
  <2>4. CASE CatchUp(c)
    BY <2>4, SMT DEF CatchUp, Read
  <2>5. CASE Await(c)
    BY <2>5, SMT DEF Await
  <2>6. CASE Follow(c)
    <3>0. /\ handler' = [handler EXCEPT ![c] = IF subs = {} THEN "subscribe" ELSE "catchup"]
          /\ subs' = subs \cup {c} /\ handler[c] = "follow" /\ wanted' = wanted
          /\ crossed' = IF subs = {} THEN Unsubscribing # {} ELSE crossed
      BY <2>6, Zenon DEF Follow
    <3>1. handler' \in [Conns -> States] /\ Followers'
      BY <3>0, SMT
    <3>2. Unsubscribing' = Unsubscribing
      BY <3>0, SMT
    <3>3. subs = {} => handler'[c] = "subscribe"
      BY <3>0, Zenon
    <3>4. subs # {} => \A d \in Conns : handler[d] = "subscribe" => handler'[d] = "subscribe"
      BY <3>0, Zenon
    <3> QED BY <3>0, <3>1, <3>2, <3>3, <3>4, Zenon
  <2>7. CASE Subscribe(c) \/ SubscribeFails(c)
    <3>0. /\ \/ handler' = [handler EXCEPT ![c] = "catchup"]
             \/ handler' = [handler EXCEPT ![c] = "undo"]
          /\ subs' = subs /\ handler[c] = "subscribe" /\ wanted'
          /\ crossed' = (crossed /\ Unsubscribing # {})
      BY <2>7, Zenon DEF Subscribe, SubscribeFails
    <3>1. handler' \in [Conns -> States] /\ Followers'
      BY <3>0, SMT
    <3>2. Unsubscribing' = Unsubscribing
      BY <3>0, SMT
    <3> QED BY <3>0, <3>1, <3>2, Zenon
  <2>9. CASE CloseFollow(c)
    BY <2>9, SMT DEF CloseFollow
  <2>10. CASE Unsubscribe(c)
    BY <2>10, SMT DEF Unsubscribe
  <2> HIDE DEF Becomes, States, FollowInv, Followers, Crossing, Served,
              Unsubscribing
  <2> QED BY <1>2, <2>1, <2>2, <2>3, <2>4, <2>5, <2>6, <2>7, <2>9, <2>10, Zenon
             DEF ConnHandler
<1> QED BY <1>1, <1>2, Zenon DEF TranscriptNext, transcriptVars,
           AppendEntry, Trim,
       ShardRun, Drop, Resubscribe

\* A stream with registered followers is subscribed to, is about to be, or an
\* unsubscribe crossed the subscription: no order of followers that come and go
\* leaves one listening to nothing otherwise.
THEOREM FollowersSubscribedCorrect == TranscriptSpec => []FollowersSubscribed
<1>1. TranscriptInit => FollowInv
  BY Zenon DEF TranscriptInit, FollowInv, Followers, Crossing, Served, States
<1>2. FollowInv /\ [TranscriptNext]_transcriptVars => FollowInv'
  BY FollowStep
<1>3. FollowInv => FollowersSubscribed
  BY Zenon DEF FollowInv, Served, FollowersSubscribed
<1> QED BY <1>1, <1>2, <1>3, PTL DEF TranscriptSpec
=============================================================================
