---------------------------- MODULE IntakeProofs ----------------------------
(***************************************************************************)
(* Proofs about module Intake, for any requests, keys and number of        *)
(* restarts.  The four invariants are not inductive: each rests on who     *)
(* holds a key's claim and on whose row the store has while a request is   *)
(* between the insert and the hand-over, which IInv adds.                  *)
(***************************************************************************)
EXTENDS Intake, TLAPS

\* The stages at which a request holds the claim of its key.
Claiming(r) == at[r] \in {"insert", "decide"} \/ (at[r] = "dispatch" /\ r \notin Proxy)

\* The stages between the insert of a request's job and its fate.
Undecided == {"decide", "direct", "dispatch"}

\* prepareJob holds the claim from the key's check to the job's fate; only
\* proxy requests make a direct attempt.
ClaimsHeld ==
    \A r \in Requests :
        /\ Claiming(r) => claimed[KeyOf[r]] = r
        /\ at[r] = "direct" => r \in Proxy

\* The store has the row of every job that is undecided or queued, except of
\* one whose insert failed.
RowsKept ==
    \A r \in Requests :
        at[r] \in Undecided \/ r \in queued => row[KeyOf[r]] = r \/ r \in unstored

\* A row is of a job that was inserted and not withdrawn.
RowsLive ==
    \A k \in Keys : row[k] # None => at[row[k]] \in Undecided \cup {"done"} /\ row[k] \notin withdrawn

\* A job has a fate only once its request is through, and is not queued with
\* one; the row of a queued job has not expired.
FatesFinal ==
    /\ \A r \in queued \cup finished \cup withdrawn \cup expired : at[r] = "done"
    /\ queued \cap (finished \cup expired) = {}

\* The job a duplicate of POST /jobs is told of was handed over before.
ToldOfKept ==
    \A r \in Requests :
        of[r] # None /\ of[r] \notin Proxy => at[of[r]] = "done" /\ of[r] \notin withdrawn

IInv ==
    /\ TypeOK
    /\ ClaimsHeld
    /\ RowsKept
    /\ RowsLive
    /\ FatesFinal
    /\ ToldOfKept
    /\ NoGhostRow
    /\ AcceptedKept
-----------------------------------------------------------------------------
\* Every step of a request's handler, of a queue, of the sweep and of a restart
\* preserves IInv.
LEMMA StepKeeps == IInv /\ [Next]_vars => IInv'
<1> SUFFICES ASSUME IInv, [Next]_vars PROVE IInv'
  OBVIOUS
<1> USE IntakeAssumption
<1> USE DEF IInv, vars, reqVars, jobVars, stopVars
<1>1. ASSUME NEW r \in Requests, Arrive(r) PROVE IInv'
  <2>1. TypeOK'
    BY <1>1 DEF Arrive, Reply, TypeOK, Answers
  <2>2. ClaimsHeld'
    BY <1>1 DEF Arrive, Reply, TypeOK, ClaimsHeld, Claiming
  <2>3. RowsKept'
    BY <1>1 DEF Arrive, Reply, TypeOK, RowsKept, FatesFinal, Undecided
  <2>4. RowsLive'
    BY <1>1 DEF Arrive, Reply, TypeOK, RowsLive, RowsKept, Undecided
  <2>5. FatesFinal'
    BY <1>1 DEF Arrive, Reply, TypeOK, FatesFinal, RowsLive, Undecided
  <2>6. ToldOfKept'
    BY <1>1 DEF Arrive, Reply, TypeOK, ToldOfKept, ClaimsHeld, Claiming, RowsLive, RowsKept, Undecided
  <2>7. NoGhostRow'
    BY <1>1 DEF Arrive, Reply, TypeOK, NoGhostRow, RowsLive, Undecided
  <2>8. AcceptedKept'
    BY <1>1 DEF Arrive, Reply, TypeOK, AcceptedKept, RowsKept, FatesFinal, Answers
  <2> QED
    BY <2>1, <2>2, <2>3, <2>4, <2>5, <2>6, <2>7, <2>8
<1>2. ASSUME NEW r \in Requests, Claim(r) PROVE IInv'
  <2>1. TypeOK'
    BY <1>2 DEF Claim, TypeOK, Answers
  <2>2. ClaimsHeld'
    BY <1>2 DEF Claim, TypeOK, ClaimsHeld, Claiming
  <2>3. RowsKept'
    BY <1>2 DEF Claim, TypeOK, RowsKept, FatesFinal, Undecided
  <2>4. RowsLive'
    BY <1>2 DEF Claim, TypeOK, RowsLive, RowsKept, Undecided
  <2>5. FatesFinal'
    BY <1>2 DEF Claim, TypeOK, FatesFinal, RowsLive, Undecided
  <2>6. ToldOfKept'
    BY <1>2 DEF Claim, TypeOK, ToldOfKept, ClaimsHeld, Claiming, RowsLive, RowsKept, Undecided
  <2>7. NoGhostRow'
    BY <1>2 DEF Claim, TypeOK, NoGhostRow, RowsLive, Undecided
  <2>8. AcceptedKept'
    BY <1>2 DEF Claim, TypeOK, AcceptedKept, RowsKept, FatesFinal, Answers
  <2> QED
    BY <2>1, <2>2, <2>3, <2>4, <2>5, <2>6, <2>7, <2>8
<1>3. ASSUME NEW r \in Requests, Duplicate(r) PROVE IInv'
  <2>1. TypeOK'
    BY <1>3 DEF Duplicate, Reply, Release, TypeOK, Answers
  <2>2. ClaimsHeld'
    BY <1>3 DEF Duplicate, Reply, Release, TypeOK, ClaimsHeld, Claiming
  <2>3. RowsKept'
    BY <1>3 DEF Duplicate, Reply, Release, TypeOK, RowsKept, FatesFinal, Undecided
  <2>4. RowsLive'
    BY <1>3 DEF Duplicate, Reply, Release, TypeOK, RowsLive, RowsKept, Undecided
  <2>5. FatesFinal'
    BY <1>3 DEF Duplicate, Reply, Release, TypeOK, FatesFinal, RowsLive, Undecided
  <2>6. ToldOfKept'
    BY <1>3 DEF Duplicate, Reply, Release, TypeOK, ToldOfKept, ClaimsHeld, Claiming, RowsLive, RowsKept, Undecided
  <2>7. NoGhostRow'
    BY <1>3 DEF Duplicate, Reply, Release, TypeOK, NoGhostRow, RowsLive, Undecided
  <2>8. AcceptedKept'
    BY <1>3 DEF Duplicate, Reply, Release, TypeOK, AcceptedKept, RowsKept, FatesFinal, Answers
  <2> QED
    BY <2>1, <2>2, <2>3, <2>4, <2>5, <2>6, <2>7, <2>8
<1>4. ASSUME NEW r \in Requests, Insert(r) PROVE IInv'
  <2>1. TypeOK'
    BY <1>4 DEF Insert, TypeOK, Answers
  <2>2. ClaimsHeld'
    BY <1>4 DEF Insert, TypeOK, ClaimsHeld, Claiming
  <2>3. RowsKept'
    BY <1>4 DEF Insert, TypeOK, RowsKept, FatesFinal, Undecided
  <2>4. RowsLive'
    BY <1>4 DEF Insert, TypeOK, RowsLive, FatesFinal, Undecided
  <2>5. FatesFinal'
    BY <1>4 DEF Insert, TypeOK, FatesFinal, RowsLive, Undecided
  <2>6. ToldOfKept'
    BY <1>4 DEF Insert, TypeOK, ToldOfKept, ClaimsHeld, Claiming, RowsLive, RowsKept, Undecided
  <2>7. NoGhostRow'
    BY <1>4 DEF Insert, TypeOK, NoGhostRow, RowsLive, Undecided
  <2>8. AcceptedKept'
    BY <1>4 DEF Insert, TypeOK, AcceptedKept, RowsKept, FatesFinal, Answers
  <2> QED
    BY <2>1, <2>2, <2>3, <2>4, <2>5, <2>6, <2>7, <2>8
<1>5. ASSUME NEW r \in Requests, RemoteHit(r) PROVE IInv'
  <2>1. TypeOK'
    BY <1>5 DEF RemoteHit, DeleteJob, Release, Reply, TypeOK, Answers
  <2>2. ClaimsHeld'
    BY <1>5 DEF RemoteHit, DeleteJob, Release, Reply, TypeOK, ClaimsHeld, Claiming
  <2>3. RowsKept'
    BY <1>5 DEF RemoteHit, DeleteJob, Release, Reply, TypeOK, RowsKept, FatesFinal, Undecided
  <2>4. RowsLive'
    BY <1>5 DEF RemoteHit, DeleteJob, Release, Reply, TypeOK, RowsLive, RowsKept, Undecided
  <2>5. FatesFinal'
    BY <1>5 DEF RemoteHit, DeleteJob, Release, Reply, TypeOK, FatesFinal, RowsLive, Undecided
  <2>6. ToldOfKept'
    BY <1>5 DEF RemoteHit, DeleteJob, Release, Reply, TypeOK, ToldOfKept, ClaimsHeld, Claiming, RowsLive, RowsKept, Undecided
  <2>7. NoGhostRow'
    BY <1>5 DEF RemoteHit, DeleteJob, Release, Reply, TypeOK, NoGhostRow, RowsLive, Undecided
  <2>8. AcceptedKept'
    BY <1>5 DEF RemoteHit, DeleteJob, Release, Reply, TypeOK, AcceptedKept, RowsKept, FatesFinal, Answers
  <2> QED
    BY <2>1, <2>2, <2>3, <2>4, <2>5, <2>6, <2>7, <2>8
<1>6. ASSUME NEW r \in Requests, Reject(r) PROVE IInv'
  <2>1. TypeOK'
    BY <1>6 DEF Reject, DeleteJob, Release, Reply, TypeOK, Answers
  <2>2. ClaimsHeld'
    BY <1>6 DEF Reject, DeleteJob, Release, Reply, TypeOK, ClaimsHeld, Claiming
  <2>3. RowsKept'
    BY <1>6 DEF Reject, DeleteJob, Release, Reply, TypeOK, RowsKept, FatesFinal, Undecided
  <2>4. RowsLive'
    BY <1>6 DEF Reject, DeleteJob, Release, Reply, TypeOK, RowsLive, RowsKept, Undecided
  <2>5. FatesFinal'
    BY <1>6 DEF Reject, DeleteJob, Release, Reply, TypeOK, FatesFinal, RowsLive, Undecided
  <2>6. ToldOfKept'
    BY <1>6 DEF Reject, DeleteJob, Release, Reply, TypeOK, ToldOfKept, ClaimsHeld, Claiming, RowsLive, RowsKept, Undecided
  <2>7. NoGhostRow'
    BY <1>6 DEF Reject, DeleteJob, Release, Reply, TypeOK, NoGhostRow, RowsLive, Undecided
  <2>8. AcceptedKept'
    BY <1>6 DEF Reject, DeleteJob, Release, Reply, TypeOK, AcceptedKept, RowsKept, FatesFinal, Answers
  <2> QED
    BY <2>1, <2>2, <2>3, <2>4, <2>5, <2>6, <2>7, <2>8
<1>7. ASSUME NEW r \in Requests, Panic(r) PROVE IInv'
  <2>1. TypeOK'
    BY <1>7 DEF Panic, DeleteJob, Release, Reply, TypeOK, Answers
  <2>2. ClaimsHeld'
    BY <1>7 DEF Panic, DeleteJob, Release, Reply, TypeOK, ClaimsHeld, Claiming
  <2>3. RowsKept'
    BY <1>7 DEF Panic, DeleteJob, Release, Reply, TypeOK, RowsKept, FatesFinal, Undecided
  <2>4. RowsLive'
    BY <1>7 DEF Panic, DeleteJob, Release, Reply, TypeOK, RowsLive, RowsKept, Undecided
  <2>5. FatesFinal'
    BY <1>7 DEF Panic, DeleteJob, Release, Reply, TypeOK, FatesFinal, RowsLive, Undecided
  <2>6. ToldOfKept'
    BY <1>7 DEF Panic, DeleteJob, Release, Reply, TypeOK, ToldOfKept, ClaimsHeld, Claiming, RowsLive, RowsKept, Undecided
  <2>7. NoGhostRow'
    BY <1>7 DEF Panic, DeleteJob, Release, Reply, TypeOK, NoGhostRow, RowsLive, Undecided
  <2>8. AcceptedKept'
    BY <1>7 DEF Panic, DeleteJob, Release, Reply, TypeOK, AcceptedKept, RowsKept, FatesFinal, Answers
  <2> QED
    BY <2>1, <2>2, <2>3, <2>4, <2>5, <2>6, <2>7, <2>8
<1>8. ASSUME NEW r \in Requests, Admit(r) PROVE IInv'
  <2>1. TypeOK'
    BY <1>8 DEF Admit, Release, TypeOK, Answers
  <2>2. ClaimsHeld'
    BY <1>8 DEF Admit, Release, TypeOK, ClaimsHeld, Claiming
  <2>3. RowsKept'
    BY <1>8 DEF Admit, Release, TypeOK, RowsKept, FatesFinal, Undecided
  <2>4. RowsLive'
    BY <1>8 DEF Admit, Release, TypeOK, RowsLive, RowsKept, Undecided
  <2>5. FatesFinal'
    BY <1>8 DEF Admit, Release, TypeOK, FatesFinal, RowsLive, Undecided
  <2>6. ToldOfKept'
    BY <1>8 DEF Admit, Release, TypeOK, ToldOfKept, ClaimsHeld, Claiming, RowsLive, RowsKept, Undecided
  <2>7. NoGhostRow'
    BY <1>8 DEF Admit, Release, TypeOK, NoGhostRow, RowsLive, Undecided
  <2>8. AcceptedKept'
    BY <1>8 DEF Admit, Release, TypeOK, AcceptedKept, RowsKept, FatesFinal, Answers
  <2> QED
    BY <2>1, <2>2, <2>3, <2>4, <2>5, <2>6, <2>7, <2>8
<1>9. ASSUME NEW r \in Requests, DirectAnswer(r) PROVE IInv'
  <2>1. TypeOK'
    BY <1>9 DEF DirectAnswer, Reply, TypeOK, Answers
  <2>2. ClaimsHeld'
    BY <1>9 DEF DirectAnswer, Reply, TypeOK, ClaimsHeld, Claiming
  <2>3. RowsKept'
    BY <1>9 DEF DirectAnswer, Reply, TypeOK, RowsKept, FatesFinal, Undecided
  <2>4. RowsLive'
    BY <1>9 DEF DirectAnswer, Reply, TypeOK, RowsLive, RowsKept, Undecided
  <2>5. FatesFinal'
    BY <1>9 DEF DirectAnswer, Reply, TypeOK, FatesFinal, RowsLive, Undecided
  <2>6. ToldOfKept'
    BY <1>9 DEF DirectAnswer, Reply, TypeOK, ToldOfKept, ClaimsHeld, Claiming, RowsLive, RowsKept, Undecided
  <2>7. NoGhostRow'
    BY <1>9 DEF DirectAnswer, Reply, TypeOK, NoGhostRow, RowsLive, Undecided
  <2>8. AcceptedKept'
    BY <1>9 DEF DirectAnswer, Reply, TypeOK, AcceptedKept, RowsKept, FatesFinal, Answers
  <2> QED
    BY <2>1, <2>2, <2>3, <2>4, <2>5, <2>6, <2>7, <2>8
<1>10. ASSUME NEW r \in Requests, Fallback(r) PROVE IInv'
  <2>1. TypeOK'
    BY <1>10 DEF Fallback, DeleteJob, Reply, TypeOK, Answers
  <2>2. ClaimsHeld'
    BY <1>10 DEF Fallback, DeleteJob, Reply, TypeOK, ClaimsHeld, Claiming
  <2>3. RowsKept'
    BY <1>10 DEF Fallback, DeleteJob, Reply, TypeOK, RowsKept, FatesFinal, Undecided
  <2>4. RowsLive'
    BY <1>10 DEF Fallback, DeleteJob, Reply, TypeOK, RowsLive, RowsKept, Undecided
  <2>5. FatesFinal'
    BY <1>10 DEF Fallback, DeleteJob, Reply, TypeOK, FatesFinal, RowsLive, Undecided
  <2>6. ToldOfKept'
    BY <1>10 DEF Fallback, DeleteJob, Reply, TypeOK, ToldOfKept, ClaimsHeld, Claiming, RowsLive, RowsKept, Undecided
  <2>7. NoGhostRow'
    BY <1>10 DEF Fallback, DeleteJob, Reply, TypeOK, NoGhostRow, RowsLive, Undecided
  <2>8. AcceptedKept'
    BY <1>10 DEF Fallback, DeleteJob, Reply, TypeOK, AcceptedKept, RowsKept, FatesFinal, Answers
  <2> QED
    BY <2>1, <2>2, <2>3, <2>4, <2>5, <2>6, <2>7, <2>8
<1>11. ASSUME NEW r \in Requests, Existing(r) PROVE IInv'
  <2>1. TypeOK'
    BY <1>11 DEF Existing, Reply, TypeOK, Answers
  <2>2. ClaimsHeld'
    BY <1>11 DEF Existing, Reply, TypeOK, ClaimsHeld, Claiming
  <2>3. RowsKept'
    BY <1>11 DEF Existing, Reply, TypeOK, RowsKept, FatesFinal, Undecided
  <2>4. RowsLive'
    BY <1>11 DEF Existing, Reply, TypeOK, RowsLive, RowsKept, Undecided
  <2>5. FatesFinal'
    BY <1>11 DEF Existing, Reply, TypeOK, FatesFinal, RowsLive, Undecided
  <2>6. ToldOfKept'
    BY <1>11 DEF Existing, Reply, TypeOK, ToldOfKept, ClaimsHeld, Claiming, RowsLive, RowsKept, Undecided
  <2>7. NoGhostRow'
    BY <1>11 DEF Existing, Reply, TypeOK, NoGhostRow, RowsLive, Undecided
  <2>8. AcceptedKept'
    BY <1>11 DEF Existing, Reply, TypeOK, AcceptedKept, RowsKept, FatesFinal, Answers
  <2> QED
    BY <2>1, <2>2, <2>3, <2>4, <2>5, <2>6, <2>7, <2>8
<1>12. ASSUME NEW r \in Requests, NEW a \in {"elsewhere", "rejected"}, Redirected(r, a) PROVE IInv'
  <2>1. TypeOK'
    BY <1>12 DEF Redirected, DeleteJob, Reply, TypeOK, Answers
  <2>2. ClaimsHeld'
    BY <1>12 DEF Redirected, DeleteJob, Reply, TypeOK, ClaimsHeld, Claiming
  <2>3. RowsKept'
    BY <1>12 DEF Redirected, DeleteJob, Reply, TypeOK, RowsKept, FatesFinal, Undecided
  <2>4. RowsLive'
    BY <1>12 DEF Redirected, DeleteJob, Reply, TypeOK, RowsLive, RowsKept, Undecided
  <2>5. FatesFinal'
    BY <1>12 DEF Redirected, DeleteJob, Reply, TypeOK, FatesFinal, RowsLive, Undecided
  <2>6. ToldOfKept'
    BY <1>12 DEF Redirected, DeleteJob, Reply, TypeOK, ToldOfKept, ClaimsHeld, Claiming, RowsLive, RowsKept, Undecided
  <2>7. NoGhostRow'
    BY <1>12 DEF Redirected, DeleteJob, Reply, TypeOK, NoGhostRow, RowsLive, Undecided
  <2>8. AcceptedKept'
    BY <1>12 DEF Redirected, DeleteJob, Reply, TypeOK, AcceptedKept, RowsKept, FatesFinal, Answers
  <2> QED
    BY <2>1, <2>2, <2>3, <2>4, <2>5, <2>6, <2>7, <2>8
<1>13. ASSUME NEW r \in Requests, Dispatch(r) PROVE IInv'
  <2>1. TypeOK'
    BY <1>13 DEF Dispatch, Release, Reply, TypeOK, Answers
  <2>2. ClaimsHeld'
    BY <1>13 DEF Dispatch, Release, Reply, TypeOK, ClaimsHeld, Claiming
  <2>3. RowsKept'
    BY <1>13 DEF Dispatch, Release, Reply, TypeOK, RowsKept, FatesFinal, Undecided
  <2>4. RowsLive'
    BY <1>13 DEF Dispatch, Release, Reply, TypeOK, RowsLive, RowsKept, Undecided
  <2>5. FatesFinal'
    BY <1>13 DEF Dispatch, Release, Reply, TypeOK, FatesFinal, RowsLive, Undecided
  <2>6. ToldOfKept'
    BY <1>13 DEF Dispatch, Release, Reply, TypeOK, ToldOfKept, ClaimsHeld, Claiming, RowsLive, RowsKept, Undecided
  <2>7. NoGhostRow'
    BY <1>13 DEF Dispatch, Release, Reply, TypeOK, NoGhostRow, RowsLive, Undecided
  <2>8. AcceptedKept'
    BY <1>13 DEF Dispatch, Release, Reply, TypeOK, AcceptedKept, RowsKept, FatesFinal, Answers
  <2> QED
    BY <2>1, <2>2, <2>3, <2>4, <2>5, <2>6, <2>7, <2>8
<1>14. ASSUME NEW r \in Requests, DispatchRefused(r) PROVE IInv'
  <2>1. TypeOK'
    BY <1>14 DEF DispatchRefused, DeleteJob, Release, Reply, TypeOK, Answers
  <2>2. ClaimsHeld'
    BY <1>14 DEF DispatchRefused, DeleteJob, Release, Reply, TypeOK, ClaimsHeld, Claiming
  <2>3. RowsKept'
    BY <1>14 DEF DispatchRefused, DeleteJob, Release, Reply, TypeOK, RowsKept, FatesFinal, Undecided
  <2>4. RowsLive'
    BY <1>14 DEF DispatchRefused, DeleteJob, Release, Reply, TypeOK, RowsLive, RowsKept, Undecided
  <2>5. FatesFinal'
    BY <1>14 DEF DispatchRefused, DeleteJob, Release, Reply, TypeOK, FatesFinal, RowsLive, Undecided
  <2>6. ToldOfKept'
    BY <1>14 DEF DispatchRefused, DeleteJob, Release, Reply, TypeOK, ToldOfKept, ClaimsHeld, Claiming, RowsLive, RowsKept, Undecided
  <2>7. NoGhostRow'
    BY <1>14 DEF DispatchRefused, DeleteJob, Release, Reply, TypeOK, NoGhostRow, RowsLive, Undecided
  <2>8. AcceptedKept'
    BY <1>14 DEF DispatchRefused, DeleteJob, Release, Reply, TypeOK, AcceptedKept, RowsKept, FatesFinal, Answers
  <2> QED
    BY <2>1, <2>2, <2>3, <2>4, <2>5, <2>6, <2>7, <2>8
<1>15. ASSUME NEW r \in Requests, Run(r) PROVE IInv'
  <2>1. TypeOK'
    BY <1>15 DEF Run, TypeOK, Answers
  <2>2. ClaimsHeld'
    BY <1>15 DEF Run, TypeOK, ClaimsHeld, Claiming
  <2>3. RowsKept'
    BY <1>15 DEF Run, TypeOK, RowsKept, FatesFinal, Undecided
  <2>4. RowsLive'
    BY <1>15 DEF Run, TypeOK, RowsLive, RowsKept, Undecided
  <2>5. FatesFinal'
    BY <1>15 DEF Run, TypeOK, FatesFinal, RowsLive, Undecided
  <2>6. ToldOfKept'
    BY <1>15 DEF Run, TypeOK, ToldOfKept, ClaimsHeld, Claiming, RowsLive, RowsKept, Undecided
  <2>7. NoGhostRow'
    BY <1>15 DEF Run, TypeOK, NoGhostRow, RowsLive, Undecided
  <2>8. AcceptedKept'
    BY <1>15 DEF Run, TypeOK, AcceptedKept, RowsKept, FatesFinal, Answers
  <2> QED
    BY <2>1, <2>2, <2>3, <2>4, <2>5, <2>6, <2>7, <2>8
<1>16. ASSUME NEW k \in Keys, Expire(k) PROVE IInv'
  <2>1. TypeOK'
    BY <1>16 DEF Expire, TypeOK, Answers
  <2>2. ClaimsHeld'
    BY <1>16 DEF Expire, TypeOK, ClaimsHeld, Claiming
  <2>3. RowsKept'
    BY <1>16 DEF Expire, TypeOK, RowsKept, FatesFinal, Undecided
  <2>4. RowsLive'
    BY <1>16 DEF Expire, TypeOK, RowsLive, RowsKept, Undecided
  <2>5. FatesFinal'
    BY <1>16 DEF Expire, TypeOK, FatesFinal, RowsLive, Undecided
  <2>6. ToldOfKept'
    BY <1>16 DEF Expire, TypeOK, ToldOfKept, ClaimsHeld, Claiming, RowsLive, RowsKept, Undecided
  <2>7. NoGhostRow'
    BY <1>16 DEF Expire, TypeOK, NoGhostRow, RowsLive, Undecided
  <2>8. AcceptedKept'
    BY <1>16 DEF Expire, TypeOK, AcceptedKept, RowsKept, FatesFinal, Answers
  <2> QED
    BY <2>1, <2>2, <2>3, <2>4, <2>5, <2>6, <2>7, <2>8
<1>17. CASE BeginDrain
  BY <1>17 DEF BeginDrain, TypeOK, ClaimsHeld, Claiming, RowsKept, RowsLive, FatesFinal, ToldOfKept,
                NoGhostRow, AcceptedKept
<1>18. CASE Stop
  BY <1>18 DEF Stop, TypeOK, ClaimsHeld, Claiming, RowsKept, RowsLive, FatesFinal, ToldOfKept,
                NoGhostRow, AcceptedKept
<1>19. ASSUME Crash PROVE IInv'
  <2>1. TypeOK'
    <3>1. answer' \in [Requests -> Answers \cup {None}] /\ crashes' \in 0 .. MaxCrashes
      BY <1>19 DEF Crash, Restart, Pending, TypeOK, Answers
    <3>2. at' \in [Requests -> {"out", "done"}] /\ claimed' \in [Keys -> Requests \cup {None}]
      BY <1>19 DEF Crash, Restart, Pending
    <3>3. /\ queued' \in SUBSET Requests /\ expired' \in SUBSET Requests
          /\ draining' \in BOOLEAN /\ stop' \in BOOLEAN
      BY Zenon, <1>19 DEF Crash, Restart, Pending, TypeOK
    <3>4. UNCHANGED <<of, row, finished, withdrawn, unstored>>
      BY <1>19 DEF Crash, Restart
    <3> QED
      BY <3>1, <3>2, <3>3, <3>4 DEF TypeOK
  <2>2. ClaimsHeld'
    BY <1>19 DEF Crash, Restart, Pending, TypeOK, ClaimsHeld, Claiming
  <2>3. RowsKept'
    BY <1>19 DEF Crash, Restart, Pending, TypeOK, RowsKept, FatesFinal, Undecided
  <2>4. RowsLive'
    BY <1>19 DEF Crash, Restart, Pending, TypeOK, RowsLive, RowsKept, Undecided
  <2>5. FatesFinal'
    BY <1>19 DEF Crash, Restart, Pending, TypeOK, FatesFinal, RowsLive, Undecided
  <2>6. ToldOfKept'
    BY <1>19 DEF Crash, Restart, Pending, TypeOK, ToldOfKept, ClaimsHeld, Claiming, RowsLive, RowsKept, Undecided
  <2>7. NoGhostRow'
    BY <1>19 DEF Crash, Restart, Pending, TypeOK, NoGhostRow, RowsLive, Undecided
  <2>8. AcceptedKept'
    BY <1>19 DEF Crash, Restart, Pending, TypeOK, AcceptedKept, RowsKept, FatesFinal, Answers
  <2> QED
    BY <2>1, <2>2, <2>3, <2>4, <2>5, <2>6, <2>7, <2>8
<1>20. ASSUME NEW r \in Requests, InsertFails(r) PROVE IInv'
  <2>1. TypeOK'
    BY <1>20 DEF InsertFails, TypeOK, Answers
  <2>2. ClaimsHeld'
    BY <1>20 DEF InsertFails, TypeOK, ClaimsHeld, Claiming
  <2>3. RowsKept'
    BY <1>20 DEF InsertFails, TypeOK, RowsKept, FatesFinal, Undecided
  <2>4. RowsLive'
    BY <1>20 DEF InsertFails, TypeOK, RowsLive, RowsKept, FatesFinal, Undecided
  <2>5. FatesFinal'
    BY <1>20 DEF InsertFails, TypeOK, FatesFinal, RowsLive, Undecided
  <2>6. ToldOfKept'
    BY <1>20 DEF InsertFails, TypeOK, ToldOfKept, ClaimsHeld, Claiming, RowsLive, RowsKept, Undecided
  <2>7. NoGhostRow'
    BY <1>20 DEF InsertFails, TypeOK, NoGhostRow, RowsLive, Undecided
  <2>8. AcceptedKept'
    BY <1>20 DEF InsertFails, TypeOK, AcceptedKept, RowsKept, FatesFinal, Answers
  <2> QED
    BY <2>1, <2>2, <2>3, <2>4, <2>5, <2>6, <2>7, <2>8
<1>21. ASSUME NEW r \in Requests, DirectExpired(r) PROVE IInv'
  <2>1. TypeOK'
    BY <1>21 DEF DirectExpired, Reply, TypeOK, Answers
  <2>2. ClaimsHeld'
    BY <1>21 DEF DirectExpired, Reply, TypeOK, ClaimsHeld, Claiming
  <2>3. RowsKept'
    BY <1>21 DEF DirectExpired, Reply, TypeOK, RowsKept, FatesFinal, Undecided
  <2>4. RowsLive'
    BY <1>21 DEF DirectExpired, Reply, TypeOK, RowsLive, RowsKept, FatesFinal, Undecided
  <2>5. FatesFinal'
    BY <1>21 DEF DirectExpired, Reply, TypeOK, FatesFinal, RowsLive, Undecided
  <2>6. ToldOfKept'
    BY <1>21 DEF DirectExpired, Reply, TypeOK, ToldOfKept, ClaimsHeld, Claiming, RowsLive, RowsKept, Undecided
  <2>7. NoGhostRow'
    BY <1>21 DEF DirectExpired, Reply, TypeOK, NoGhostRow, RowsLive, Undecided
  <2>8. AcceptedKept'
    BY <1>21 DEF DirectExpired, Reply, TypeOK, AcceptedKept, RowsKept, FatesFinal, Answers
  <2> QED
    BY <2>1, <2>2, <2>3, <2>4, <2>5, <2>6, <2>7, <2>8
<1>22. ASSUME NEW r \in Requests, Lapse(r) PROVE IInv'
  <2>1. TypeOK'
    BY <1>22 DEF Lapse, TypeOK, Answers
  <2>2. ClaimsHeld'
    BY <1>22 DEF Lapse, TypeOK, ClaimsHeld, Claiming
  <2>3. RowsKept'
    BY <1>22 DEF Lapse, TypeOK, RowsKept, FatesFinal, Undecided
  <2>4. RowsLive'
    BY <1>22 DEF Lapse, TypeOK, RowsLive, RowsKept, FatesFinal, Undecided
  <2>5. FatesFinal'
    BY <1>22 DEF Lapse, TypeOK, FatesFinal, RowsLive, Undecided
  <2>6. ToldOfKept'
    BY <1>22 DEF Lapse, TypeOK, ToldOfKept, ClaimsHeld, Claiming, RowsLive, RowsKept, Undecided
  <2>7. NoGhostRow'
    BY <1>22 DEF Lapse, TypeOK, NoGhostRow, RowsLive, Undecided
  <2>8. AcceptedKept'
    BY <1>22 DEF Lapse, TypeOK, AcceptedKept, RowsKept, FatesFinal, Answers
  <2> QED
    BY <2>1, <2>2, <2>3, <2>4, <2>5, <2>6, <2>7, <2>8
<1>23. CASE UNCHANGED vars
  BY <1>23 DEF TypeOK, ClaimsHeld, Claiming, RowsKept, RowsLive, FatesFinal, ToldOfKept,
                NoGhostRow, AcceptedKept
<1> HIDE DEF IInv, vars, reqVars, jobVars, stopVars
<1>24. ASSUME NEW r \in Requests, Handle(r) PROVE IInv'
  BY Zenon, <1>2, <1>3, <1>4, <1>5, <1>6, <1>7, <1>8, <1>9, <1>10, <1>11, <1>12, <1>13,
     <1>14, <1>20, <1>21, <1>24 DEF Handle
<1> QED
  BY Zenon, <1>1, <1>15, <1>16, <1>17, <1>18, <1>19, <1>22, <1>23, <1>24 DEF Next

-----------------------------------------------------------------------------
\* IInv is an invariant of the intake.
LEMMA Inductive == Spec => []IInv
<1>1. Init => IInv
  <2> SUFFICES ASSUME Init PROVE IInv
    OBVIOUS
  <2> USE IntakeAssumption DEF Init
  <2>1. TypeOK
    <3>1. crashes \in 0 .. MaxCrashes /\ \A k \in Keys : row[k] = None
      OBVIOUS
    <3>2. /\ answer \in [Requests -> Answers \cup {None}] /\ of \in [Requests -> Requests \cup {None}]
          /\ claimed \in [Keys -> Requests \cup {None}] /\ row \in [Keys -> Requests \cup {None}]
      OBVIOUS
    <3>3. /\ queued = {} /\ finished = {} /\ withdrawn = {} /\ expired = {} /\ unstored = {}
          /\ draining \in BOOLEAN /\ stop \in BOOLEAN
      BY Zenon
    <3>4. at \in [Requests -> {"out"}]
      OBVIOUS
    <3> HIDE DEF Init
    <3> QED
      BY <3>1, <3>2, <3>3, <3>4 DEF TypeOK
  <2>2. ClaimsHeld /\ RowsKept /\ RowsLive /\ FatesFinal /\ ToldOfKept /\ NoGhostRow
    BY DEF ClaimsHeld, Claiming, RowsKept, RowsLive, FatesFinal, ToldOfKept, NoGhostRow, Undecided
  <2>3. AcceptedKept
    BY DEF AcceptedKept, Answers
  <2> QED
    BY <2>1, <2>2, <2>3 DEF IInv
<1> QED
  BY <1>1, StepKeeps, PTL DEF Spec

\* The ID a retry of POST /jobs is answered with is never that of a withdrawn
\* job: the claim keeps prepareJob's duplicate answer and the deletion of a
\* rejected job's row apart, for any number of racing requests.
THEOREM DuplicateCorrect == Spec => []DuplicateIsReal
<1>1. IInv => DuplicateIsReal
  BY IntakeAssumption DEF IInv, ToldOfKept, DuplicateIsReal, TypeOK
<1> QED
  BY <1>1, Inductive, PTL

\* No path of prepareJob, fallbackOutcome and Dispatch, failed inserts, panics
\* and restarts included, leaves a live row that nothing will run; the rows that
\* are left are those of redirect hops AttemptDirect found too late.
THEOREM RowsCorrect == Spec => []NoGhostRow
<1>1. IInv => NoGhostRow
  BY DEF IInv
<1> QED
  BY <1>1, Inductive, PTL

\* A job Enqueue accepted is queued until it is finished, through the sweep,
\* shutdown and any number of restarts, unless its row was never written or
\* expired while the process was down.
THEOREM AcceptedCorrect == Spec => []AcceptedKept
<1>1. IInv => AcceptedKept
  BY DEF IInv
<1> QED
  BY <1>1, Inductive, PTL

\* At most one job of an idempotency key that reached the store is queued or
\* attempted, although a proxy request lets the claim go before its attempt:
\* every such job has the key's one row.
THEOREM OneLiveCorrect == Spec => []OneLivePerKey
<1>1. IInv => OneLivePerKey
  BY DEF IInv, RowsKept, Undecided, OneLivePerKey
<1> QED
  BY <1>1, Inductive, PTL
=============================================================================
