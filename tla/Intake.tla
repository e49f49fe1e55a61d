------------------------------- MODULE Intake -------------------------------
(***************************************************************************)
(* Taking a job in: idempotency keys, the row in the store, admission, and *)
(* the hand-over to the queue.  Requests of both entry points race for the *)
(* same key: POST /jobs (Enqueue) holds the key's claim until the job is   *)
(* queued or deleted, POST /proxy (AttemptDirect) lets go of it before the *)
(* direct attempt.  The job a request creates has the request's name.      *)
(*                                                                         *)
(* One action is one store call or one step of keyClaims; what the request *)
(* does before the next such call is part of it.                           *)
(***************************************************************************)
EXTENDS Integers, FiniteSets

CONSTANTS
    Requests,
    Keys,
    KeyOf,        \* IdempotencyHash of each request
    Proxy,        \* the requests that come in at POST /proxy
    DirectOnly,   \* those of them that are a redirect hop
    None,
    MaxCrashes    \* restarts of the process, a bound

Answers == {"draining", "accepted", "duplicate", "remote", "rejected", "direct",
            "elsewhere", "tooLate", "noJob", "error", "cut"}

ASSUME IntakeAssumption ==
    /\ KeyOf \in [Requests -> Keys]
    /\ Proxy \subseteq Requests
    /\ DirectOnly \subseteq Proxy
    /\ None \notin Requests \cup Answers
    /\ MaxCrashes \in Nat

VARIABLES
    at,         \* where the handler of each request is
    answer,     \* what the caller was told
    of,         \* the job a duplicate was told of
    claimed,    \* keyClaims.held: who holds each key
    row,        \* the job the store holds for each key
    queued,     \* jobs handed to a queue and not finished
    finished,   \* jobs with an outcome
    withdrawn,  \* jobs DeleteJob removed
    expired,    \* jobs whose row is past its ExpiresAt
    unstored,   \* jobs whose insert failed, which CheckOrInsert does not tell
    draining, stop,
    crashes

reqVars == <<at, answer, of>>
jobVars == <<row, queued, finished, withdrawn, expired, unstored>>
stopVars == <<draining, stop, crashes>>
vars == <<reqVars, claimed, jobVars, stopVars>>

\* One type invariant.  The row CheckOrInsert finds under a key is of that key.
TypeOK ==
    /\ at \in [Requests -> {"out", "claim", "insert", "decide", "direct",
                            "dispatch", "existing", "done"}]
    /\ answer \in [Requests -> Answers \cup {None}]
    /\ of \in [Requests -> Requests \cup {None}]
    /\ claimed \in [Keys -> Requests \cup {None}]
    /\ row \in [Keys -> Requests \cup {None}]
    /\ queued \in SUBSET Requests
    /\ finished \in SUBSET Requests
    /\ withdrawn \in SUBSET Requests
    /\ expired \in SUBSET Requests
    /\ unstored \in SUBSET Requests
    /\ draining \in BOOLEAN
    /\ stop \in BOOLEAN
    /\ crashes \in 0 .. MaxCrashes
    /\ \A k \in Keys : row[k] # None => KeyOf[row[k]] = k

-----------------------------------------------------------------------------
Reply(r, a) ==
    /\ at' = [at EXCEPT ![r] = "done"]
    /\ answer' = [answer EXCEPT ![r] = a]

\* keyClaims' release, run once: by Enqueue when it returns, by PrepareJob
\* when prepareJob returns.
Release(r) ==
    claimed' = [claimed EXCEPT ![KeyOf[r]] = IF @ = r THEN None ELSE @]

\* Store.DeleteJob: the row and its idempotency entry.
DeleteJob(r) ==
    /\ row' = [row EXCEPT ![KeyOf[r]] = IF @ = r THEN None ELSE @]
    /\ withdrawn' = withdrawn \cup {r}
    /\ UNCHANGED <<queued, finished, expired, unstored>>

Arrive(r) ==
    /\ at[r] = "out"
    /\ IF draining
       THEN Reply(r, "draining")
       ELSE at' = [at EXCEPT ![r] = "claim"] /\ UNCHANGED answer
    /\ UNCHANGED <<of, claimed, jobVars, stopVars>>

Claim(r) ==
    /\ at[r] = "claim"
    /\ claimed[KeyOf[r]] = None
    /\ claimed' = [claimed EXCEPT ![KeyOf[r]] = r]
    /\ at' = [at EXCEPT ![r] = "insert"]
    /\ UNCHANGED <<answer, of, jobVars, stopVars>>

\* CheckOrInsert finds a job under the key.
Duplicate(r) ==
    /\ at[r] = "insert" /\ row[KeyOf[r]] # None
    /\ of' = [of EXCEPT ![r] = row[KeyOf[r]]]
    /\ IF r \in Proxy
       THEN at' = [at EXCEPT ![r] = "existing"] /\ UNCHANGED answer
       ELSE Reply(r, "duplicate")
    /\ Release(r)
    /\ UNCHANGED <<jobVars, stopVars>>

Insert(r) ==
    /\ at[r] = "insert" /\ row[KeyOf[r]] = None
    /\ row' = [row EXCEPT ![KeyOf[r]] = r]
    /\ at' = [at EXCEPT ![r] = "decide"]
    /\ UNCHANGED <<answer, of, claimed, queued, finished, withdrawn, expired, unstored, stopVars>>

\* The record cannot be marshalled or the batch cannot be committed:
\* CheckOrInsert answers as it does for a fresh job, and there is no row.
InsertFails(r) ==
    /\ at[r] = "insert" /\ row[KeyOf[r]] = None
    /\ unstored' = unstored \cup {r}
    /\ at' = [at EXCEPT ![r] = "decide"]
    /\ UNCHANGED <<answer, of, claimed, row, queued, finished, withdrawn, expired, stopVars>>

\* The remote ledger knows the key.
RemoteHit(r) ==
    /\ at[r] = "decide"
    /\ DeleteJob(r)
    /\ Release(r)
    /\ Reply(r, "remote")
    /\ UNCHANGED <<of, stopVars>>

\* A slip: a rejected job keeps its row.
RejectKeepsRow(r) ==
    /\ at[r] = "decide"
    /\ Release(r)
    /\ Reply(r, "rejected")
    /\ UNCHANGED <<of, jobVars, stopVars>>

\* Schema validation or admission control refuses the job.
Reject(r) ==
    /\ at[r] = "decide"
    /\ DeleteJob(r)
    /\ Release(r)
    /\ Reply(r, "rejected")
    /\ UNCHANGED <<of, stopVars>>

\* A slip: the recovery forgets the claim.
PanicKeepsClaim(r) ==
    /\ at[r] \in {"insert", "decide"}
    /\ IF at[r] = "decide" THEN DeleteJob(r) ELSE UNCHANGED jobVars
    /\ Reply(r, "error")
    /\ UNCHANGED <<of, claimed, stopVars>>

\* prepareJob panics with the key claimed and recovers; a job it inserted is
\* deleted.
Panic(r) ==
    /\ at[r] \in {"insert", "decide"}
    /\ IF at[r] = "decide" THEN DeleteJob(r) ELSE UNCHANGED jobVars
    /\ Release(r)
    /\ Reply(r, "error")
    /\ UNCHANGED <<of, stopVars>>

\* A slip: Enqueue lets the key go as PrepareJob does.
AdmitReleases(r) ==
    /\ at[r] = "decide"
    /\ at' = [at EXCEPT ![r] = IF r \in Proxy THEN "direct" ELSE "dispatch"]
    /\ Release(r)
    /\ UNCHANGED <<answer, of, jobVars, stopVars>>

\* prepareJob returns the job: Enqueue keeps the claim, PrepareJob does not.
Admit(r) ==
    /\ at[r] = "decide"
    /\ IF r \in Proxy
       THEN at' = [at EXCEPT ![r] = "direct"] /\ Release(r)
       ELSE at' = [at EXCEPT ![r] = "dispatch"] /\ UNCHANGED claimed
    /\ UNCHANGED <<answer, of, jobVars, stopVars>>

-----------------------------------------------------------------------------
(* Proxy mode between PrepareJob and Dispatch. *)

DirectAnswer(r) ==
    /\ at[r] = "direct"
    /\ finished' = finished \cup {r}
    /\ Reply(r, "direct")
    /\ UNCHANGED <<of, claimed, row, queued, withdrawn, expired, unstored, stopVars>>

\* The job's execution deadline has passed before the attempt: AttemptDirect
\* returns without fallbackOutcome.  A redirect hop is answered 503 and its row
\* stays; any other job goes on to the queue.
DirectExpired(r) ==
    /\ at[r] = "direct"
    /\ IF r \in DirectOnly
       THEN Reply(r, "tooLate")
       ELSE at' = [at EXCEPT ![r] = "dispatch"] /\ UNCHANGED answer
    /\ UNCHANGED <<of, claimed, jobVars, stopVars>>

\* fallbackOutcome without a redirect.
Fallback(r) ==
    /\ at[r] = "direct"
    /\ IF r \in DirectOnly
       THEN DeleteJob(r) /\ Reply(r, "rejected")
       ELSE /\ at' = [at EXCEPT ![r] = "dispatch"]
            /\ UNCHANGED <<answer, jobVars>>
    /\ UNCHANGED <<of, claimed, stopVars>>

\* Another region took the job, or all of them failed; a hop never redirects.
Redirected(r, a) ==
    /\ at[r] = "direct" /\ r \notin DirectOnly
    /\ DeleteJob(r)
    /\ Reply(r, a)
    /\ UNCHANGED <<of, claimed, stopVars>>

\* A duplicate proxy request fetches the job it was told of; GetJob does not
\* give one whose row has expired.
Existing(r) ==
    /\ at[r] = "existing"
    /\ Reply(r, IF row[KeyOf[r]] = of[r] /\ of[r] \notin expired THEN "duplicate" ELSE "noJob")
    /\ UNCHANGED <<of, claimed, jobVars, stopVars>>

-----------------------------------------------------------------------------
(* The hand-over, and what becomes of the job. *)

Dispatch(r) ==
    /\ at[r] = "dispatch" /\ ~stop
    /\ queued' = queued \cup {r}
    /\ Release(r)
    /\ Reply(r, "accepted")
    /\ UNCHANGED <<of, row, finished, withdrawn, expired, unstored, stopVars>>

\* AdmitAndEnqueue refuses: fairness, webhook backlog, or the node stopping.
DispatchRefused(r) ==
    /\ at[r] = "dispatch"
    /\ DeleteJob(r)
    /\ Release(r)
    /\ Reply(r, "rejected")
    /\ UNCHANGED <<of, stopVars>>

Run(r) ==
    /\ r \in queued /\ ~stop
    /\ queued' = queued \ {r}
    /\ finished' = finished \cup {r}
    /\ UNCHANGED <<reqVars, claimed, row, withdrawn, expired, unstored, stopVars>>

\* ExpiresAt of a row passes while the process runs.  A pending job's row
\* outlives its QueueDeadline by PendingRowGrace, and the queue that holds the
\* job, in memory or on disk, fails it at that deadline: the job of such a row
\* is not on a queue.
Lapse(r) ==
    /\ row[KeyOf[r]] = r /\ at[r] = "done"
    /\ r \notin queued \cup expired
    /\ expired' = expired \cup {r}
    /\ UNCHANGED <<reqVars, claimed, row, queued, finished, withdrawn, unstored, stopVars>>

\* A slip: the sweep takes rows that have not expired.
ExpireAny(k) ==
    /\ row[k] # None
    /\ row' = [row EXCEPT ![k] = None]
    /\ UNCHANGED <<reqVars, claimed, queued, finished, withdrawn, expired, unstored, stopVars>>

\* The sweep of expired rows, whatever their status.
Expire(k) ==
    /\ row[k] \in expired
    /\ row' = [row EXCEPT ![k] = None]
    /\ UNCHANGED <<reqVars, claimed, queued, finished, withdrawn, expired, unstored, stopVars>>

BeginDrain ==
    /\ ~draining
    /\ draining' = TRUE
    /\ UNCHANGED <<reqVars, claimed, jobVars, stop, crashes>>

Stop ==
    /\ draining /\ ~stop
    /\ stop' = TRUE
    /\ UNCHANGED <<reqVars, claimed, jobVars, draining, crashes>>

Restart ==
    /\ crashes < MaxCrashes
    /\ crashes' = crashes + 1
    /\ draining' = FALSE /\ stop' = FALSE
    /\ claimed' = [k \in Keys |-> None]
    /\ at' = [r \in Requests |-> IF at[r] = "out" THEN "out" ELSE "done"]
    /\ answer' = [r \in Requests |-> IF at[r] \in {"out", "done"} THEN answer[r] ELSE "cut"]
    /\ UNCHANGED <<of, row, finished, withdrawn, unstored>>

\* The jobs whose rows forEachJob and QueuedPage give to a recovery.
Pending == {r \in Requests : row[KeyOf[r]] = r} \ (finished \cup expired)

\* The process ends and starts again.  Rows may expire while it is down, and
\* RecoverQueuedJobs queues every other row that has no outcome.
Crash ==
    /\ Restart
    /\ \E late \in SUBSET Pending : queued' = Pending \ late /\ expired' = expired \cup late

Init ==
    /\ at = [r \in Requests |-> "out"]
    /\ answer = [r \in Requests |-> None]
    /\ of = [r \in Requests |-> None]
    /\ claimed = [k \in Keys |-> None]
    /\ row = [k \in Keys |-> None]
    /\ queued = {} /\ finished = {} /\ withdrawn = {} /\ expired = {} /\ unstored = {}
    /\ draining = FALSE /\ stop = FALSE /\ crashes = 0

Handle(r) ==
    \/ Claim(r) \/ Duplicate(r) \/ Insert(r) \/ InsertFails(r)
    \/ RemoteHit(r) \/ Reject(r) \/ Panic(r) \/ Admit(r)
    \/ DirectAnswer(r) \/ DirectExpired(r) \/ Fallback(r) \/ Existing(r)
    \/ \E a \in {"elsewhere", "rejected"} : Redirected(r, a)
    \/ Dispatch(r) \/ DispatchRefused(r)

Next ==
    \/ \E r \in Requests : Arrive(r) \/ Handle(r) \/ Run(r) \/ Lapse(r)
    \/ \E k \in Keys : Expire(k)
    \/ BeginDrain \/ Stop \/ Crash

Spec == Init /\ [][Next]_vars

\* Handlers run, and a waiter of a released key gets to take it.
FairSpec == Spec /\ \A r \in Requests : WF_vars(Handle(r))

-----------------------------------------------------------------------------
(* Properties. *)

\* A caller answered with the ID of a job of POST /jobs has the ID of a job that
\* was not withdrawn: prepareJob's claim keeps a retry from seeing a row that a
\* rejection is about to delete.  PrepareJob lets the claim of a proxy request go
\* before its outcome is known, so nothing of the kind holds for its job.
DuplicateIsReal ==
    \A r \in Requests : answer[r] = "duplicate" /\ of[r] \notin Proxy => of[r] \notin withdrawn

\* Every row whose request is through is of a job that is on a queue, finished,
\* or past its ExpiresAt: no path of prepareJob, fallbackOutcome or Dispatch
\* leaves a queued row that nothing will ever dispatch.  The one path that does
\* is AttemptDirect's early return for a redirect hop whose deadline has passed:
\* the caller is told 503 and the row stays, until a restart queues it or it
\* expires.
NoGhostRow ==
    \A k \in Keys :
        row[k] # None /\ at[row[k]] = "done"
        => row[k] \in queued \cup finished \cup expired \/ answer[row[k]] = "tooLate"

\* A job the caller was told is accepted stays queued until it is finished,
\* through rejections of its duplicates, the sweep of expired rows, shutdown and
\* restart.  Two things end it otherwise: its row expired while the process was
\* down, so that recovery passes it over, or the row was never written.
AcceptedKept ==
    \A r \in Requests :
        answer[r] = "accepted" => r \in queued \cup finished \cup expired \cup unstored

\* At most one job of a key is queued or being attempted at any time, unless
\* the insert of one failed: with no row, nothing tells the next request of it.
OneLivePerKey ==
    /\ TypeOK
    /\ \A r, q \in Requests \ unstored :
          /\ KeyOf[r] = KeyOf[q]
          /\ r \in queued \/ at[r] \in {"direct", "dispatch"}
          /\ q \in queued \/ at[q] \in {"direct", "dispatch"}
          => r = q

\* Every request is answered: a claim is released on every path, a rejection,
\* a duplicate and a panic included.
Answered == \A r \in Requests : at[r] = "claim" ~> at[r] = "done"
=============================================================================
