----------------------- MODULE TranscriptExportProofs -----------------------
(***************************************************************************)
(* Proof that the exporters lose no entry, for any nodes, batch sizes,     *)
(* bounds of the stream and faults: an entry the receiver does not have    *)
(* can still be read, is being sent, was dropped for a documented reason,  *)
(* or was pending for a consumer that was swept away.                      *)
(*                                                                         *)
(* The property is not inductive.  An acknowledgement deletes entries from *)
(* the stream, so what is acknowledged must have been answered for; a read *)
(* moves the group past entries, so those must be pending for the reader;  *)
(* and a batch is cut in parts, so a part must hold what is sent of it.    *)
(***************************************************************************)
EXTENDS TranscriptExport, FiniteSetTheorems, WellFoundedInduction, TLAPS

\* The leaves are first-order and set reasoning except where they say SMT.
USE ZenonT(40)

\* A set of numbers has a least one.
LEMMA LeastExists ==
    ASSUME NEW S \in SUBSET Nat, S # {}
    PROVE  \E m \in S : \A n \in S : m <= n
<1> DEFINE R == {p \in Nat \X Nat : p[1] < p[2]}
<1>1. OpToRel(<, Nat) = R
  BY Zenon DEF OpToRel
<1>2. IsWellFoundedOn(R, Nat)
  BY <1>1, NatLessThanWellFounded, Zenon
<1>3. \A x, y \in S : <<y, x>> \notin R => ~(y < x)
  BY SMT
<1> HIDE DEF R
<1>4. PICK m \in S : \A y \in S : <<y, m>> \notin R
  BY <1>2, WFMin
<1>5. \A n \in S : m \in Nat /\ n \in Nat /\ ~(n < m)
  BY <1>3, <1>4
<1> QED
  BY <1>5, SMT

\* Min of entries is one of them.
LEMMA ExportMin ==
  ASSUME NEW S \in SUBSET Entries, S # {}
  PROVE  Min(S) \in S
<1>1. S \in SUBSET Nat
  BY SMT DEF Entries
<1>2. \E x \in S : \A y \in S : x <= y
  BY <1>1, LeastExists
<1> QED
  BY <1>2 DEF Min

\* Max of entries is one of them, and no other is greater.
LEMMA ExportMax ==
  ASSUME MaxEntries \in Nat, NEW S \in SUBSET Entries, S # {}
  PROVE  Max(S) \in S /\ \A k \in S : k <= Max(S)
<1> DEFINE U == {u \in Nat : \A k \in S : k <= u}
<1>1. S \in SUBSET Nat
  BY SMT DEF Entries
<1>2. MaxEntries \in U
  BY SMT DEF Entries
<1>3. PICK m \in U : \A u \in U : m <= u
  BY <1>2, LeastExists
<1>4. m \in S
  <2> SUFFICES ASSUME m \notin S PROVE FALSE
    OBVIOUS
  <2>1. \A k \in S : k <= m - 1 /\ k \in Nat
    BY <1>1, <1>3, SMT
  <2>2. PICK k \in S : k <= m - 1 /\ k \in Nat
    BY <2>1
  <2>3. m \in Nat /\ m - 1 \in Nat /\ ~(m <= m - 1)
    BY <1>3, <2>2, SMT
  <2> QED
    BY <1>3, <2>1, <2>3
<1>5. \E x \in S : \A y \in S : x >= y
  BY <1>1, <1>3, <1>4, SMT
<1>6. Max(S) \in S /\ \A y \in S : Max(S) >= y
  BY <1>5 DEF Max
<1> QED
  BY <1>1, <1>6, SMT

\* Sets of entries are finite.
LEMMA EntriesFinite ==
  ASSUME MaxEntries \in Nat, NEW S \in SUBSET Entries
  PROVE  IsFiniteSet(S) /\ Cardinality(S) \in Nat
<1>1. IsFiniteSet(Entries)
  BY FS_Interval, SMT DEF Entries
<1> QED
  BY <1>1, FS_Subset, FS_CardinalityType

\* First takes the lowest entries of a set, and at most as many as it may.
LEMMA ExportFirst ==
  ASSUME MaxEntries \in Nat, NEW S \in SUBSET Entries, NEW k \in Int
  PROVE  /\ First(S, k) \subseteq S
         /\ \A e \in First(S, k), d \in S : d <= e => d \in First(S, k)
         /\ k \in Nat => Cardinality(First(S, k)) <= k
<1> DEFINE Before(e) == {d \in S : d < e}
           F == First(S, k)
<1>0. /\ F \subseteq S
      /\ \A e \in S : e \in F <=> Cardinality(Before(e)) < k
  BY DEF First
<1>1. \A e \in S : e \in Nat
  BY SMT DEF Entries
<1>2. \A e \in S : IsFiniteSet(Before(e)) /\ Cardinality(Before(e)) \in Nat
  BY EntriesFinite
<1>3. \A e \in S, d \in S : d \in Before(e) <=> d < e
  OBVIOUS
<1>4. \A e \in S : Before(e) \subseteq S
  OBVIOUS
<1> HIDE DEF F, Before
<1>5. ASSUME NEW e \in F, NEW d \in S, d <= e
      PROVE  d \in F
  <2>1. e \in S /\ \A x \in S : x < d => x < e
    BY <1>0, <1>1, <1>5, SMT
  <2>2. Before(d) \subseteq Before(e)
    BY <1>3, <1>4, <2>1
  <2>3. /\ Cardinality(Before(d)) <= Cardinality(Before(e))
        /\ Cardinality(Before(d)) \in Nat /\ Cardinality(Before(e)) \in Nat
        /\ Cardinality(Before(e)) < k
    BY <1>0, <1>2, <2>1, <2>2, FS_Subset
  <2>4. Cardinality(Before(d)) < k
    BY <2>3, SMT
  <2> QED BY <1>0, <2>4
<1>6. ASSUME k \in Nat
      PROVE  Cardinality(F) <= k
  <2>1. CASE F = {}
    BY <1>6, <2>1, FS_EmptySet, SMT
  <2>2. CASE F # {}
    <3> DEFINE m == Max(F)
    <3>1. m \in F /\ \A e \in F : e <= m
      BY <1>0, <2>2, ExportMax
    <3> HIDE DEF m
    <3>2. F \subseteq Before(m) \cup {m}
      <4>1. \A e \in F : e = m \/ e < m
        BY <1>0, <1>1, <3>1, SMT
      <4> QED BY <1>0, <1>3, <3>1, <4>1
    <3>3. /\ IsFiniteSet(Before(m))
          /\ Cardinality(Before(m)) \in Nat
          /\ Cardinality(Before(m)) < k
      BY <1>0, <1>2, <3>1
    <3>4. ~(m < m)
      BY <1>0, <1>1, <3>1, SMT
    <3>5. m \notin Before(m)
      BY <1>0, <1>3, <3>1, <3>4
    <3>6. /\ IsFiniteSet(Before(m) \cup {m})
          /\ Cardinality(Before(m) \cup {m}) = Cardinality(Before(m)) + 1
      BY <3>3, <3>5, FS_AddElement
    <3>7. Cardinality(F) <= Cardinality(Before(m) \cup {m})
      BY <3>2, <3>6, FS_Subset
    <3>8. Cardinality(F) \in Nat
      BY <1>0, EntriesFinite
    <3> QED BY <1>6, <3>3, <3>6, <3>7, <3>8, SMT
  <2> QED BY <2>1, <2>2
<1> QED BY <1>0, <1>5, <1>6 DEF F

\* An entry that was not swept away with its consumer was received or given up,
\* or is in the stream where a read will find it: beyond the last entry delivered
\* to the group, or pending for a consumer.
Kept ==
  \A e \in (1 .. last) \ forgotten :
    \/ e \in received \cup dropped
    \/ e \in stream /\ (e > groupLast \/ owner[e] # None)

\* Only entries that were appended are pending.
Numbered == \A e \in Entries : owner[e] # None => e \in 1 .. last

\* The receiver has answered for every event of a batch about to be acknowledged.
Answered == \A n \in Nodes : pc[n] = "ack" => events[n] \subseteq received \cup dropped

\* A node acknowledges only entries it sent or that have left the stream.
Batched ==
  \A n \in Nodes :
    /\ batch[n] \subseteq 1 .. last
    /\ batch[n] \cap stream \subseteq events[n]
    /\ Cardinality(events[n]) <= BatchSize

\* The inductive invariant of NothingMissed.
ExportInv == TypeOK /\ Kept /\ Numbered /\ Answered /\ Batched

\* Kept holds on when the receiver only learns of more entries.
LEMMA KeptGrows ==
  ASSUME Kept, UNCHANGED <<last, stream, groupLast, owner>>,
         received \subseteq received', dropped \subseteq dropped', forgotten \subseteq forgotten'
  PROVE  Kept'
BY DEF Kept

\* Numbered holds on when no entry is handed out.
LEMMA NumberedSame ==
  ASSUME Numbered, UNCHANGED <<last, owner>>
  PROVE  Numbered'
BY DEF Numbered

\* A node may take up a batch whose live entries it will send.
LEMMA BatchedStep ==
  ASSUME TypeOK, Batched, NEW n \in Nodes, NEW B, NEW E,
         batch' = [batch EXCEPT ![n] = B], events' = [events EXCEPT ![n] = E],
         B \subseteq 1 .. last, B \cap stream \subseteq E,
         Cardinality(E) <= BatchSize, last' = last, stream' \subseteq stream
  PROVE  Batched'
<1> SUFFICES ASSUME NEW m \in Nodes
             PROVE  /\ batch'[m] \subseteq 1 .. last
                    /\ batch'[m] \cap stream \subseteq events'[m]
                    /\ Cardinality(events'[m]) <= BatchSize
  BY DEF Batched
<1>1. batch \in [Nodes -> SUBSET Entries] /\ events \in [Nodes -> SUBSET Entries]
  BY DEF TypeOK
<1>2. CASE m = n
  BY <1>1, <1>2
<1>3. CASE m # n
  <2>1. batch'[m] = batch[m] /\ events'[m] = events[m]
    BY <1>1, <1>3
  <2> QED BY <2>1 DEF Batched
<1> QED BY <1>2, <1>3

\* A node may go to acknowledge what has been answered for.
LEMMA AnsweredStep ==
  ASSUME TypeOK, Answered, NEW n \in Nodes, NEW E, NEW state,
         events' = [events EXCEPT ![n] = E], pc' = [pc EXCEPT ![n] = state],
         received \subseteq received', dropped \subseteq dropped',
         state = "ack" => E \subseteq received' \cup dropped'
  PROVE  Answered'
<1> SUFFICES ASSUME NEW m \in Nodes, pc'[m] = "ack"
             PROVE  events'[m] \subseteq received' \cup dropped'
  BY DEF Answered
<1>1. pc \in [Nodes -> {"own", "claim", "new", "post", "ack", "down"}]
      /\ events \in [Nodes -> SUBSET Entries]
  BY DEF TypeOK
<1>2. CASE m = n
  BY <1>1, <1>2
<1>3. CASE m # n
  <2>1. pc'[m] = pc[m] /\ events'[m] = events[m]
    BY <1>1, <1>3
  <2> QED BY <2>1 DEF Answered
<1> QED BY <1>2, <1>3

\* An append keeps the invariant: what MAXLEN cuts off is given up.
LEMMA ExportAppend ==
  ASSUME ExportInv, AppendEntry
  PROVE  ExportInv'
<1> DEFINE e0 == last + 1
           all == stream \cup {e0}
           out == First(all, Cardinality(all) - MaxPending)
<1>1. /\ last < MaxEntries /\ last' = e0
      /\ stream' = all \ out /\ dropped' = dropped \cup (out \ received)
      /\ UNCHANGED <<groupLast, owner, listed, idle, pc, batch, events, limit, successes, scan, gone,
                     received, forgotten, faults>>
  BY DEF AppendEntry, exporter
<1>2. /\ TypeOK /\ Kept /\ Numbered /\ Answered /\ Batched
  BY DEF ExportInv
<1>3. /\ last \in Nat /\ MaxEntries \in Nat /\ stream \subseteq 1 .. last
      /\ groupLast \in 0 .. last
      /\ last' \in 0 .. MaxEntries
  BY <1>1, <1>2, SMT, ExportAssumption DEF TypeOK
<1>4. /\ all \subseteq Entries /\ all \subseteq 1 .. last'
      /\ groupLast \in 0 .. last'
      /\ e0 \notin 1 .. last /\ e0 > groupLast
      /\ 1 .. last' = (1 .. last) \cup {e0}
  BY <1>1, <1>3, SMT DEF Entries
<1>5. out \subseteq all
  BY DEF First
<1> HIDE DEF out, all, e0
<1>6. TypeOK'
  <2>1. stream' \subseteq 1 .. last' /\ dropped' \subseteq Entries
    BY <1>1, <1>2, <1>4, <1>5 DEF TypeOK
  <2> QED BY <1>1, <1>2, <1>3, <1>4, <2>1 DEF TypeOK
<1>7. Kept'
  BY <1>1, <1>2, <1>4 DEF Kept, all
<1>8. Numbered'
  BY <1>1, <1>2, <1>4 DEF Numbered
<1>9. Answered'
  BY <1>1, <1>2 DEF Answered
<1>10. Batched'
  BY <1>1, <1>2, <1>4 DEF Batched, all
<1> QED BY <1>6, <1>7, <1>8, <1>9, <1>10 DEF ExportInv

\* A fill takes the first of the messages and sends those still in the stream.
LEMMA ExportFill ==
  ASSUME MaxEntries \in Nat, TypeOK, NEW n \in Nodes,
         NEW messages \in SUBSET Entries, BatchSize \in Nat,
         Cardinality(messages) <= BatchSize, Fill(n, messages)
  PROVE  /\ idle' \subseteq Entries
         /\ pc' = [pc EXCEPT ![n] = "post"]
         /\ \E B \in SUBSET messages, E \in SUBSET Entries :
              /\ batch' = [batch EXCEPT ![n] = B]
              /\ events' = [events EXCEPT ![n] = E]
              /\ B \cap stream \subseteq E
              /\ Cardinality(E) <= BatchSize
<1>1. PICK k \in 1 .. Cardinality(messages) :
        /\ batch' = [batch EXCEPT ![n] = First(messages, k)]
        /\ events' = [events EXCEPT ![n] = First(messages, k) \cap stream]
  BY DEF Fill
<1> DEFINE B == First(messages, k)
<1>2. B \subseteq messages
  BY DEF First
<1> HIDE DEF B
<1>3. Cardinality(B \cap stream) <= Cardinality(messages)
  BY <1>2, EntriesFinite, FS_Subset
<1>4. Cardinality(B \cap stream) \in Nat /\ Cardinality(messages) \in Nat
  BY <1>2, EntriesFinite
<1>5. Cardinality(B \cap stream) <= BatchSize
  BY <1>3, <1>4, SMT
<1>6. B \cap stream \in SUBSET Entries
  BY <1>2
<1>7. idle' \subseteq Entries /\ pc' = [pc EXCEPT ![n] = "post"]
  BY DEF Fill, Go, TypeOK
<1> QED BY <1>1, <1>2, <1>5, <1>6, <1>7 DEF B

\* A step of one node that hands out and deletes no entry keeps the invariant.
LEMMA ExportQuiet ==
  ASSUME ExportInv, TypeOK', UNCHANGED <<last, stream, groupLast, owner>>,
         NEW n \in Nodes, NEW B, NEW E, NEW state,
         batch' = [batch EXCEPT ![n] = B], events' = [events EXCEPT ![n] = E],
         pc' = [pc EXCEPT ![n] = state],
         B \subseteq 1 .. last, B \cap stream \subseteq E, Cardinality(E) <= BatchSize,
         received \subseteq received', dropped \subseteq dropped', forgotten \subseteq forgotten',
         state = "ack" => E \subseteq received' \cup dropped'
  PROVE  ExportInv'
<1>1. TypeOK /\ Kept /\ Numbered /\ Answered /\ Batched
  BY DEF ExportInv
<1>2. Kept'
  BY <1>1, KeptGrows
<1>3. Numbered'
  BY <1>1, NumberedSame
<1>4. Answered'
  BY <1>1, AnsweredStep
<1>5. Batched'
  BY <1>1, BatchedStep
<1> QED BY <1>2, <1>3, <1>4, <1>5 DEF ExportInv

\* What a node has is a batch it may keep.
LEMMA ExportSame ==
  ASSUME ExportInv, NEW n \in Nodes
  PROVE  /\ batch = [batch EXCEPT ![n] = batch[n]]
         /\ events = [events EXCEPT ![n] = events[n]]
         /\ pc = [pc EXCEPT ![n] = pc[n]]
         /\ batch[n] \subseteq 1 .. last
         /\ batch[n] \cap stream \subseteq events[n]
         /\ Cardinality(events[n]) <= BatchSize
         /\ pc[n] = "ack" => events[n] \subseteq received \cup dropped
         /\ batch[n] \subseteq Entries /\ events[n] \subseteq Entries
         /\ Cardinality({}) <= BatchSize
<1>1. Cardinality({}) = 0
  BY FS_EmptySet
<1>2. Cardinality({}) <= BatchSize
  BY <1>1, SMT, ExportAssumption
<1> QED BY <1>2 DEF ExportInv, Batched, Answered, TypeOK

\* Reading its own pending entries keeps the invariant.
LEMMA ExportReadOwn ==
  ASSUME ExportInv, NEW n \in Nodes, ReadOwn(n)
  PROVE  ExportInv'
<1> DEFINE messages == First(Pending(n), limit[n])
<1>0. TypeOK /\ Numbered
  BY DEF ExportInv
<1>1. /\ MaxEntries \in Nat /\ BatchSize \in Nat /\ n # None
      /\ limit[n] \in Nat /\ limit[n] <= BatchSize
  BY <1>0, SMT, ExportAssumption DEF TypeOK
<1>2. /\ listed' = listed \cup {n}
      /\ UNCHANGED <<last, stream, groupLast, owner, limit, successes, scan, gone,
                     received, dropped, forgotten, faults>>
      /\ \/ pc' = [pc EXCEPT ![n] = "claim"] /\ UNCHANGED <<idle, batch, events>>
         \/ Fill(n, messages)
  BY DEF ReadOwn, Go, receiver
<1>3. Pending(n) \in SUBSET Entries /\ Pending(n) \subseteq 1 .. last
  BY <1>0, <1>1 DEF Pending, Numbered
<1>4. /\ messages \in SUBSET Entries /\ messages \subseteq 1 .. last
      /\ Cardinality(messages) <= limit[n] /\ Cardinality(messages) \in Nat
  <2>1. limit[n] \in Int
    BY <1>1, SMT
  <2> QED BY <1>1, <1>3, <2>1, ExportFirst, EntriesFinite
<1> HIDE DEF messages
<1>5. Cardinality(messages) <= BatchSize
  BY <1>1, <1>4, SMT
<1>6. CASE pc' = [pc EXCEPT ![n] = "claim"] /\ UNCHANGED <<idle, batch, events>>
  <2>1. TypeOK'
    BY <1>0, <1>2, <1>6 DEF TypeOK
  <2> QED BY <1>2, <1>6, <2>1, ExportSame, ExportQuiet
<1>7. CASE Fill(n, messages)
  <2>1. PICK B \in SUBSET messages, E \in SUBSET Entries :
              /\ batch' = [batch EXCEPT ![n] = B]
              /\ events' = [events EXCEPT ![n] = E]
              /\ B \cap stream \subseteq E
              /\ Cardinality(E) <= BatchSize
    BY <1>0, <1>1, <1>4, <1>5, <1>7, ExportFill
  <2>2. idle' \subseteq Entries /\ pc' = [pc EXCEPT ![n] = "post"]
    BY <1>0, <1>1, <1>4, <1>5, <1>7, ExportFill
  <2>3. TypeOK'
    BY <1>0, <1>2, <1>4, <2>1, <2>2 DEF TypeOK
  <2> QED BY <1>2, <1>4, <2>1, <2>2, <2>3, ExportQuiet
<1> QED BY <1>2, <1>6, <1>7

\* A post that the receiver takes keeps the invariant.
LEMMA ExportPostTaken ==
  ASSUME ExportInv, NEW n \in Nodes, PostTaken(n)
  PROVE  ExportInv'
<1>1. /\ UNCHANGED <<last, stream, groupLast, owner, listed, idle, batch, events, limit,
                     successes, scan, gone, dropped, forgotten, faults>>
      /\ received' = received \cup events[n] /\ pc' = [pc EXCEPT ![n] = "ack"]
  BY DEF PostTaken, Go, valkey
<1>2. TypeOK'
  BY <1>1, ExportSame DEF ExportInv, TypeOK
<1> QED BY <1>1, <1>2, ExportSame, ExportQuiet

\* A post refused as too large is cut, or given up when it was one event.
LEMMA ExportPostTooLarge ==
  ASSUME ExportInv, NEW n \in Nodes, PostTooLarge(n)
  PROVE  ExportInv'
<1>0. /\ UNCHANGED <<last, stream, groupLast, owner, listed, idle, scan, gone, received,
                     forgotten, faults>>
      /\ \/ /\ Cardinality(events[n]) > 1
            /\ limit' = [limit EXCEPT ![n] = Cardinality(events[n]) \div 2]
            /\ successes' = [successes EXCEPT ![n] = 0]
            /\ batch' = [batch EXCEPT ![n] = {}] /\ events' = [events EXCEPT ![n] = {}]
            /\ pc' = [pc EXCEPT ![n] = "own"]
            /\ dropped' = dropped
         \/ /\ dropped' = dropped \cup events[n]
            /\ pc' = [pc EXCEPT ![n] = "ack"]
            /\ UNCHANGED <<batch, events, limit, successes>>
  BY DEF PostTooLarge, Go, Drop, valkey
<1>1. TypeOK
  BY DEF ExportInv
<1>2. CASE /\ Cardinality(events[n]) > 1
           /\ limit' = [limit EXCEPT ![n] = Cardinality(events[n]) \div 2]
           /\ successes' = [successes EXCEPT ![n] = 0]
           /\ batch' = [batch EXCEPT ![n] = {}] /\ events' = [events EXCEPT ![n] = {}]
           /\ pc' = [pc EXCEPT ![n] = "own"]
           /\ dropped' = dropped
  <2>1. Cardinality(events[n]) \in Nat /\ Cardinality(events[n]) <= BatchSize
    BY ExportSame, EntriesFinite, ExportAssumption
  <2>2. Cardinality(events[n]) \div 2 \in 1 .. BatchSize /\ 0 \in 0 .. GrowAfter
    BY <1>2, <2>1, SMT, ExportAssumption
  <2>3. TypeOK'
    BY <1>0, <1>1, <1>2, <2>2 DEF TypeOK
  <2> QED BY <1>0, <1>2, <2>3, ExportSame, ExportQuiet
<1>3. CASE /\ dropped' = dropped \cup events[n]
           /\ pc' = [pc EXCEPT ![n] = "ack"]
           /\ UNCHANGED <<batch, events, limit, successes>>
  <2>1. TypeOK'
    BY <1>0, <1>1, <1>3, ExportSame DEF TypeOK
  <2>2. /\ batch' = [batch EXCEPT ![n] = batch[n]] /\ events' = [events EXCEPT ![n] = events[n]]
        /\ batch[n] \subseteq 1 .. last /\ batch[n] \cap stream \subseteq events[n]
        /\ Cardinality(events[n]) <= BatchSize
    BY <1>3, ExportSame
  <2>3. dropped \subseteq dropped' /\ events[n] \subseteq received' \cup dropped'
    BY <1>3
  <2> QED BY <1>0, <1>3, <2>1, <2>2, <2>3, ExportQuiet
<1> QED BY <1>0, <1>2, <1>3

\* A failed call, or a crash, keeps the invariant: the entries stay pending.
LEMMA ExportFails ==
  ASSUME ExportInv, NEW n \in Nodes,
         Fail(n) \/ Down(n)
  PROVE  ExportInv'
<1>0. /\ UNCHANGED <<last, stream, groupLast, owner, listed, idle, limit, successes, scan,
                     dropped, forgotten>>
      /\ faults < MaxFaults /\ faults' = faults + 1
      /\ received' = received \/ received' = received \cup events[n]
      /\ batch' = [batch EXCEPT ![n] = {}] /\ events' = [events EXCEPT ![n] = {}]
      /\ gone' = gone \/ gone' = [gone EXCEPT ![n] = None]
      /\ \E state \in {"own", "down"} : pc' = [pc EXCEPT ![n] = state]
  BY DEF Fail, Down, Go, Drop, valkey,
     receiver
<1>1. PICK state \in {"own", "down"} : pc' = [pc EXCEPT ![n] = state]
  BY <1>0
<1>2. TypeOK
  BY DEF ExportInv
<1>3. faults' \in 0 .. MaxFaults
  BY <1>0, <1>2, SMT, ExportAssumption DEF TypeOK
<1>4. received \subseteq received' /\ received' \subseteq Entries
  BY <1>0, <1>2, ExportSame DEF TypeOK
<1>5. gone' \in [Nodes -> Nodes \cup {None}]
  BY <1>0, <1>2 DEF TypeOK
<1>6. TypeOK'
  BY <1>0, <1>1, <1>2, <1>3, <1>4, <1>5 DEF TypeOK
<1> QED BY <1>0, <1>1, <1>4, <1>6, ExportSame, ExportQuiet

\* A restart keeps the invariant.
LEMMA ExportStart ==
  ASSUME ExportInv, NEW n \in Nodes, Start(n)
  PROVE  ExportInv'
<1>0. /\ UNCHANGED <<last, stream, groupLast, owner, listed, idle, batch, events, gone,
                     received, dropped, forgotten, faults>>
      /\ limit' = [limit EXCEPT ![n] = BatchSize] /\ successes' = [successes EXCEPT ![n] = 0]
      /\ scan' = [scan EXCEPT ![n] = 1] /\ pc' = [pc EXCEPT ![n] = "own"]
  BY DEF Start, Go, valkey, receiver
<1>1. BatchSize \in 1 .. BatchSize /\ 0 \in 0 .. GrowAfter /\ 1 \in Entries
  BY SMT, ExportAssumption DEF Entries
<1>2. TypeOK'
  BY <1>0, <1>1 DEF ExportInv, TypeOK
<1> QED BY <1>0, <1>2, ExportSame, ExportQuiet

\* Choosing a consumer to sweep keeps the invariant.
LEMMA ExportSweepLook ==
  ASSUME ExportInv, NEW n \in Nodes, SweepLook(n)
  PROVE  ExportInv'
<1>0. /\ UNCHANGED <<last, stream, groupLast, owner, listed, idle, pc, batch, events, limit,
                     successes, scan, received, dropped, forgotten, faults>>
      /\ \E m \in listed \ {n} : gone' = [gone EXCEPT ![n] = m]
  BY DEF SweepLook, valkey, receiver
<1>1. gone' \in [Nodes -> Nodes \cup {None}]
  <2>1. PICK m \in listed \ {n} : gone' = [gone EXCEPT ![n] = m]
    BY <1>0
  <2> QED BY <2>1 DEF ExportInv, TypeOK
<1>2. TypeOK'
  BY <1>0, <1>1 DEF ExportInv, TypeOK
<1> QED BY <1>0, <1>2 DEF ExportInv, Kept, Numbered, Answered, Batched

\* Time passing keeps the invariant.
LEMMA ExportGrowIdle ==
  ASSUME ExportInv, GrowIdle
  PROVE  ExportInv'
BY DEF GrowIdle, exporter, receiver, ExportInv,
   TypeOK, Kept,
       Numbered, Answered, Batched

\* Claiming the idle entries of another consumer keeps the invariant.
LEMMA ExportClaimStale ==
  ASSUME ExportInv, NEW n \in Nodes, ClaimStale(n)
  PROVE  ExportInv'
<1> DEFINE Listed == {e \in Entries : owner[e] # None /\ e >= scan[n]}
           looked == First(Listed, limit[n])
           stale == looked \cap idle
           rest == Listed \ looked
<1>0. TypeOK /\ Kept /\ Numbered /\ Answered /\ Batched
  BY DEF ExportInv
<1>1. /\ MaxEntries \in Nat /\ BatchSize \in Nat /\ n # None
      /\ limit[n] \in Nat /\ limit[n] \in Int /\ limit[n] <= BatchSize
      /\ 1 \in Entries
  BY <1>0, SMT, ExportAssumption DEF TypeOK, Entries
<1>2. /\ UNCHANGED <<last, stream, groupLast, listed, limit, successes, gone,
                     received, dropped, forgotten, faults>>
      /\ owner' = [e \in Entries |->
                     IF e \in stale THEN IF e \in stream THEN n ELSE None ELSE owner[e]]
      /\ scan' = [scan EXCEPT ![n] = IF rest = {} THEN 1 ELSE Min(rest)]
      /\ \/ pc' = [pc EXCEPT ![n] = "new"] /\ UNCHANGED <<idle, batch, events>>
         \/ Fill(n, stale \cap stream)
  BY DEF ClaimStale, Go, receiver
<1>3. \A e \in Listed : e \in Entries /\ owner[e] # None /\ e \in 1 .. last
  BY <1>0 DEF Numbered
<1> HIDE DEF Listed
<1>4. /\ looked \subseteq Listed
      /\ Cardinality(looked) <= limit[n]
      /\ IsFiniteSet(looked) /\ Cardinality(looked) \in Nat
  BY <1>1, <1>3, ExportFirst, EntriesFinite
<1> HIDE DEF looked
<1>5. stale \subseteq Listed /\ stale \cap stream \subseteq looked /\ rest \subseteq Listed
  BY <1>4
<1> HIDE DEF stale, rest
<1>6. Cardinality(stale \cap stream) <= BatchSize
  <2>1. Cardinality(stale \cap stream) <= Cardinality(looked)
    BY <1>4, <1>5, FS_Subset
  <2>2. Cardinality(stale \cap stream) \in Nat
    BY <1>1, <1>3, <1>5, EntriesFinite
  <2> QED BY <1>1, <1>4, <2>1, <2>2, SMT
<1>7. scan' \in [Nodes -> Entries]
  <2>1. rest # {} => Min(rest) \in rest
    BY <1>3, <1>5, ExportMin
  <2>2. (IF rest = {} THEN 1 ELSE Min(rest)) \in Entries
    BY <1>1, <1>3, <1>5, <2>1
  <2> QED BY <1>0, <1>2, <2>2 DEF TypeOK
<1>8. /\ owner' \in [Entries -> Nodes \cup {None}]
      /\ \A e \in Entries : owner'[e] # None => owner[e] # None
      /\ \A e \in Entries : e \in stream /\ owner[e] # None => owner'[e] # None
  <2>1. \A e \in Entries :
          owner'[e] = IF e \in stale THEN IF e \in stream THEN n ELSE None ELSE owner[e]
    BY <1>2
  <2>2. \A e \in stale : owner[e] # None
    BY <1>3, <1>5
  <2>3. \A e \in Entries : owner[e] \in Nodes \cup {None}
    BY <1>0 DEF TypeOK
  <2>4. owner' \in [Entries -> Nodes \cup {None}]
    BY <1>2, <2>3
  <2> QED BY <1>1, <2>1, <2>2, <2>4
<1>9. PICK B, E \in SUBSET Entries, state \in {"new", "post"} :
        /\ batch' = [batch EXCEPT ![n] = B] /\ events' = [events EXCEPT ![n] = E]
        /\ pc' = [pc EXCEPT ![n] = state]
        /\ B \subseteq Entries
        /\ B \subseteq 1 .. last /\ B \cap stream \subseteq E /\ Cardinality(E) <= BatchSize
        /\ idle' \subseteq Entries
  <2>1. CASE pc' = [pc EXCEPT ![n] = "new"] /\ UNCHANGED <<idle, batch, events>>
    <3>1. idle' \subseteq Entries
      BY <1>0, <2>1 DEF TypeOK
    <3> QED BY <2>1, <3>1, ExportSame
  <2>2. CASE Fill(n, stale \cap stream)
    <3> DEFINE messages == stale \cap stream
    <3>1. messages \in SUBSET Entries /\ messages \subseteq 1 .. last
      BY <1>3, <1>5
    <3>2. Cardinality(messages) <= BatchSize /\ Fill(n, messages)
      BY <1>6, <2>2
    <3> HIDE DEF messages
    <3>3. PICK B \in SUBSET messages, E \in SUBSET Entries :
                /\ batch' = [batch EXCEPT ![n] = B]
                /\ events' = [events EXCEPT ![n] = E]
                /\ B \cap stream \subseteq E
                /\ Cardinality(E) <= BatchSize
      BY <1>0, <1>1, <3>1, <3>2, ExportFill
    <3>4. idle' \subseteq Entries /\ pc' = [pc EXCEPT ![n] = "post"]
      BY <1>0, <1>1, <3>1, <3>2, ExportFill
    <3>5. B \subseteq Entries /\ B \subseteq 1 .. last
      BY <3>1
    <3> QED BY <3>3, <3>4, <3>5
  <2> QED BY <1>2, <2>1, <2>2
<1>10. TypeOK'
  BY <1>0, <1>2, <1>7, <1>8, <1>9 DEF TypeOK
<1>11. Kept'
  <2>1. 1 .. last \subseteq Entries
    BY <1>0, <1>1, SMT DEF TypeOK, Entries
  <2> QED BY <1>0, <1>2, <1>8, <2>1 DEF Kept
<1>12. Numbered'
  BY <1>0, <1>2, <1>8 DEF Numbered
<1>13. Answered'
  BY <1>0, <1>2, <1>9, AnsweredStep
<1>14. Batched'
  BY <1>0, <1>2, <1>9, BatchedStep
<1> QED BY <1>10, <1>11, <1>12, <1>13, <1>14 DEF ExportInv

\* Reading new entries keeps the invariant: what the group passes is pending.
LEMMA ExportReadNew ==
  ASSUME ExportInv, NEW n \in Nodes, ReadNew(n)
  PROVE  ExportInv'
<1> DEFINE new == {e \in stream : e > groupLast}
           messages == First(new, limit[n])
<1>0. TypeOK /\ Kept /\ Numbered /\ Answered /\ Batched
  BY DEF ExportInv
<1>1. /\ MaxEntries \in Nat /\ BatchSize \in Nat /\ n # None
      /\ limit[n] \in Nat /\ limit[n] \in Int /\ limit[n] <= BatchSize
      /\ last \in Nat /\ groupLast \in Nat /\ last <= MaxEntries
  BY <1>0, SMT, ExportAssumption DEF TypeOK
<1>2. /\ UNCHANGED <<last, stream, limit, successes, scan, gone, received, dropped,
                     forgotten, faults>>
      /\ listed' = listed \cup {n}
      /\ \/ pc' = [pc EXCEPT ![n] = "own"] /\ UNCHANGED <<groupLast, owner, idle, batch, events>>
         \/ /\ messages # {}
            /\ groupLast' = Max(messages)
            /\ owner' = [e \in Entries |-> IF e \in messages THEN n ELSE owner[e]]
            /\ Fill(n, messages)
  BY DEF ReadNew, Go, receiver
<1>3. /\ 1 .. last \subseteq Entries /\ stream \subseteq 1 .. last
      /\ new \subseteq stream
      /\ \A e \in stream : e \in Nat /\ (e \in new <=> e > groupLast)
  <2>1. 1 .. last \subseteq Entries /\ \A e \in 1 .. last : e \in Nat
    BY <1>1, SMT DEF Entries
  <2> QED BY <1>0, <2>1 DEF TypeOK
<1> HIDE DEF new
<1>4. /\ messages \subseteq new
      /\ \A e \in messages, d \in new : d <= e => d \in messages
      /\ Cardinality(messages) <= limit[n] /\ Cardinality(messages) \in Nat
  BY <1>1, <1>3, ExportFirst, EntriesFinite
<1> HIDE DEF messages
<1>5. CASE pc' = [pc EXCEPT ![n] = "own"] /\ UNCHANGED <<groupLast, owner, idle, batch, events>>
  <2>1. TypeOK'
    BY <1>0, <1>2, <1>5 DEF TypeOK
  <2> QED BY <1>2, <1>5, <2>1, ExportSame, ExportQuiet
<1>6. CASE /\ messages # {}
           /\ groupLast' = Max(messages)
           /\ owner' = [e \in Entries |-> IF e \in messages THEN n ELSE owner[e]]
           /\ Fill(n, messages)
  <2>1. messages \in SUBSET Entries /\ Cardinality(messages) <= BatchSize
    <3>1. Cardinality(messages) <= BatchSize
      BY <1>1, <1>4, SMT
    <3> QED BY <1>3, <1>4, <3>1
  <2>2. PICK B \in SUBSET messages, E \in SUBSET Entries :
              /\ batch' = [batch EXCEPT ![n] = B]
              /\ events' = [events EXCEPT ![n] = E]
              /\ B \cap stream \subseteq E
              /\ Cardinality(E) <= BatchSize
    BY <1>0, <1>1, <1>6, <2>1, ExportFill
  <2>3. idle' \subseteq Entries /\ pc' = [pc EXCEPT ![n] = "post"]
    BY <1>0, <1>1, <1>6, <2>1, ExportFill
  <2>4. groupLast' \in messages /\ \A e \in messages : e <= groupLast'
    BY <1>1, <1>6, <2>1, ExportMax
  <2>5. groupLast' \in 0 .. last
    BY <1>1, <1>3, <1>4, <2>4, SMT
  <2>6. \A e \in Entries :
          /\ e \in messages => owner'[e] = n
          /\ e \notin messages => owner'[e] = owner[e]
    BY <1>6
  <2>7. owner' \in [Entries -> Nodes \cup {None}]
    BY <1>0, <1>6 DEF TypeOK
  <2>8. TypeOK'
    BY <1>0, <1>2, <1>6, <2>1, <2>2, <2>3, <2>5, <2>7 DEF TypeOK
  <2>9. Kept'
    <3>1. \A e \in stream : e > groupLast => e \in messages \/ e > groupLast'
      <4>1. ASSUME NEW e \in stream, e > groupLast, ~(e > groupLast')
            PROVE  e \in messages
        <5>1. e \in new
          BY <1>3, <4>1
        <5>2. e <= groupLast'
          BY <1>3, <1>4, <2>4, <4>1, SMT
        <5> QED BY <1>4, <2>4, <5>1, <5>2
      <4> QED BY <4>1
    <3>2. \A e \in stream : e \in Entries
      BY <1>3
    <3>3. ASSUME NEW e \in (1 .. last) \ forgotten
          PROVE  e \in received \cup dropped \/ (e \in stream /\ (e > groupLast' \/ owner'[e] # None))
      BY <1>0, <1>1, <2>6, <3>1, <3>2 DEF Kept
    <3> QED BY <1>2, <3>3 DEF Kept
  <2>10. Numbered'
    BY <1>0, <1>2, <1>3, <1>4, <2>6 DEF Numbered
  <2>11. Answered'
    BY <1>0, <1>2, <2>2, <2>3, AnsweredStep
  <2>12. Batched'
    BY <1>0, <1>2, <1>3, <1>4, <2>2, BatchedStep
  <2> QED BY <2>8, <2>9, <2>10, <2>11, <2>12 DEF ExportInv
<1> QED BY <1>2, <1>5, <1>6

\* Acknowledging and deleting keeps the invariant: only answered entries go.
LEMMA ExportAck ==
  ASSUME ExportInv, NEW n \in Nodes, Ack(n)
  PROVE  ExportInv'
<1> DEFINE grown == limit[n] < BatchSize /\ successes[n] + 1 >= GrowAfter
           l == IF ~grown THEN limit[n] ELSE IF 2 * limit[n] > BatchSize THEN BatchSize ELSE 2 * limit[n]
           k == IF limit[n] = BatchSize THEN successes[n] ELSE IF grown THEN 0 ELSE successes[n] + 1
<1>0. TypeOK /\ Kept /\ Numbered /\ Answered /\ Batched
  BY DEF ExportInv
<1>1. /\ UNCHANGED <<last, groupLast, listed, scan, gone, received, dropped, forgotten, faults>>
      /\ owner' = [e \in Entries |-> IF e \in batch[n] THEN None ELSE owner[e]]
      /\ idle' = idle \ batch[n] /\ stream' = stream \ batch[n]
      /\ batch' = [batch EXCEPT ![n] = {}] /\ events' = [events EXCEPT ![n] = {}]
      /\ pc[n] = "ack" /\ pc' = [pc EXCEPT ![n] = "own"]
  BY DEF Ack, Go, Drop, receiver
<1>2. limit' = [limit EXCEPT ![n] = l] /\ successes' = [successes EXCEPT ![n] = k]
  BY DEF Ack
<1>3. l \in 1 .. BatchSize /\ k \in 0 .. GrowAfter
  <2>1. /\ limit[n] \in 1 .. BatchSize /\ successes[n] \in 0 .. GrowAfter
        /\ BatchSize \in Nat /\ GrowAfter \in Nat
    BY <1>0, ExportAssumption DEF TypeOK
  <2> QED BY <2>1, SMT
<1> HIDE DEF l, k
<1>4. \A e \in Entries :
        /\ e \in batch[n] => owner'[e] = None
        /\ e \notin batch[n] => owner'[e] = owner[e]
  BY <1>1
<1>5. owner' \in [Entries -> Nodes \cup {None}]
  BY <1>0, <1>1 DEF TypeOK
<1>6. TypeOK'
  BY <1>0, <1>1, <1>2, <1>3, <1>5 DEF TypeOK
<1>7. Kept'
  <2>1. \A e \in stream \cap batch[n] : e \in received \cup dropped
    BY <1>1, ExportSame
  <2>2. \A e \in 1 .. last : e \in Entries
    BY <1>0, SMT, ExportAssumption DEF TypeOK, Entries
  <2> QED BY <1>0, <1>1, <1>4, <2>1, <2>2 DEF Kept
<1>8. Numbered'
  BY <1>0, <1>1, <1>4 DEF Numbered
<1>9. Answered'
  BY <1>0, <1>1, AnsweredStep
<1>10. Batched'
  BY <1>0, <1>1, ExportSame, BatchedStep
<1> QED BY <1>6, <1>7, <1>8, <1>9, <1>10 DEF ExportInv

\* Sweeping a consumer away forgets what was pending for it.
LEMMA ExportSweepDelete ==
  ASSUME ExportInv, NEW n \in Nodes, SweepDelete(n)
  PROVE  ExportInv'
<1> DEFINE lost == Pending(gone[n])
<1>0. TypeOK /\ Kept /\ Numbered /\ Answered /\ Batched
  BY DEF ExportInv
<1>1. /\ UNCHANGED <<last, stream, groupLast, pc, batch, events, limit, successes, scan,
                     received, dropped, faults>>
      /\ owner' = [e \in Entries |-> IF owner[e] = gone[n] THEN None ELSE owner[e]]
      /\ idle' = idle \ lost /\ forgotten' = forgotten \cup (lost \ received)
      /\ listed' = listed \ {gone[n]} /\ gone' = [gone EXCEPT ![n] = None]
  BY DEF SweepDelete
<1>2. /\ \A e \in Entries : e \in lost <=> owner[e] = gone[n]
      /\ lost \subseteq Entries
  BY DEF Pending
<1> HIDE DEF lost
<1>3. \A e \in Entries :
        /\ e \in lost => owner'[e] = None
        /\ e \notin lost => owner'[e] = owner[e]
  BY <1>1, <1>2
<1>4. owner' \in [Entries -> Nodes \cup {None}]
  BY <1>0, <1>1 DEF TypeOK
<1>5. TypeOK'
  BY <1>0, <1>1, <1>2, <1>4 DEF TypeOK
<1>6. Kept'
  <2>1. \A e \in 1 .. last : e \in Entries
    BY <1>0, SMT, ExportAssumption DEF TypeOK, Entries
  <2>2. ASSUME NEW e \in 1 .. last, e \notin forgotten'
        PROVE  e \in received \cup dropped \/ (e \in stream /\ (e > groupLast \/ owner'[e] # None))
    <3>1. e \notin forgotten /\ (e \in lost => e \in received) /\ e \in Entries
      BY <1>1, <2>1, <2>2
    <3> QED BY <1>0, <1>3, <3>1 DEF Kept
  <2> QED BY <1>1, <2>2 DEF Kept
<1>7. Numbered'
  BY <1>0, <1>1, <1>3 DEF Numbered
<1>8. Answered'
  BY <1>0, <1>1 DEF Answered
<1>9. Batched'
  BY <1>0, <1>1 DEF Batched
<1> QED BY <1>5, <1>6, <1>7, <1>8, <1>9 DEF ExportInv

\* Every step of the exporters keeps the invariant.
LEMMA ExportNext ==
  ASSUME ExportInv, [Next]_vars
  PROVE  ExportInv'
<1>1. CASE UNCHANGED vars
  BY <1>1 DEF vars, valkey, exporter, receiver,
     ExportInv,
     TypeOK, Kept, Numbered, Answered, Batched
<1>2. CASE AppendEntry
  BY <1>2, ExportAppend
<1>3. CASE GrowIdle
  BY <1>3, ExportGrowIdle
<1>4. ASSUME NEW n \in Nodes,
             \/ Export(n) \/ SweepLook(n) \/ SweepDelete(n)
             \/ Fail(n) \/ Down(n) \/ Start(n)
      PROVE  ExportInv'
  BY <1>4, ExportReadOwn, ExportClaimStale, ExportReadNew, ExportPostTaken,
     ExportPostTooLarge,
     ExportAck, ExportFails, ExportStart, ExportSweepLook, ExportSweepDelete DEF Export
<1> QED BY <1>1, <1>2, <1>3, <1>4 DEF Next

\* It holds at first.
LEMMA ExportInit ==
  ASSUME Init
  PROVE  ExportInv
<1>1. /\ 0 \in 0 .. MaxEntries /\ 0 \in 0 .. 0 /\ BatchSize \in 1 .. BatchSize /\ 0 \in 0 .. GrowAfter
      /\ 1 \in Entries /\ 0 \in 0 .. MaxFaults /\ 1 .. 0 = {}
  BY SMT, ExportAssumption DEF Entries
<1>2. TypeOK
  BY <1>1 DEF Init, TypeOK
<1>3. Cardinality({}) <= BatchSize
  <2>1. Cardinality({}) = 0
    BY FS_EmptySet
  <2> QED BY <2>1, SMT, ExportAssumption
<1>4. Kept /\ Numbered /\ Answered /\ Batched
  BY <1>1, <1>3 DEF Init, Kept, Numbered, Answered, Batched
<1> QED BY <1>2, <1>4 DEF ExportInv

\* Every entry appended is received, or was trimmed or refused, or was pending for
\* a consumer swept away, or can still be read from the stream: no interleaving of
\* the nodes' reads, claims, posts and acknowledgements, and no failure of them,
\* loses one.
THEOREM NothingMissedCorrect == Spec => []NothingMissed
<1>1. Init => ExportInv
  BY ExportInit
<1>2. ExportInv /\ [Next]_vars => ExportInv'
  BY ExportNext
<1>3. ExportInv => NothingMissed
  BY DEF ExportInv, Kept, NothingMissed
<1> QED BY <1>1, <1>2, <1>3, PTL DEF Spec
=============================================================================
