--------------------------- MODULE TaskRepository ---------------------------
(***************************************************************************)
(* PostgresTaskRepository: one row of the tasks table, and what each of    *)
(* the repository's SQL statements does to a row.  The operators are pure; *)
(* TaskLifecycle turns them into steps.                                    *)
(*                                                                         *)
(* Time is abstracted to what the statements compare with now():           *)
(*   lease    "none"    lease_deadline IS NULL                             *)
(*            "valid"   lease_deadline >= now()                            *)
(*            "expired" lease_deadline <  now()                            *)
(*   backoff  TRUE iff next_retry_at > now()                               *)
(* dead is TRUE once dead_lettered_at or quarantined_at has been set (no   *)
(* statement ever clears them).  error holds a message of RetryPolicy, or  *)
(* NoError for NULL.                                                       *)
(***************************************************************************)
EXTENDS RetryPolicy

CONSTANTS
  Tasks,      \* task ids
  Daemons,    \* worker daemons, each with its own name
  Errors,     \* the error messages the runs tell apart
  ProductOf,  \* the project column of each task
  ProductConcurrencyLimit,
  NoError,    \* NULL in the error column
  NoOwner,    \* NULL in the lease_owner column
  Reclaimer   \* 'worker-startup', the name reclaimStuck leaves behind

ASSUME RepositoryAssumption ==
  /\ Errors \subseteq SUBSET Features
  /\ {} \in Errors /\ {"governance"} \in Errors
  /\ NoError \notin Errors
  /\ NoOwner \notin Daemons /\ Reclaimer \notin Daemons
  /\ ProductConcurrencyLimit \in Nat

Active == {"ASSIGNED", "RUNNING", "TESTING"}
Settled == {"COMPLETED", "FAILED", "BLOCKED", "CANCELLED", "QUARANTINED"}
Statuses == {"ABSENT", "QUEUED"} \cup Active \cup Settled

Leases == {"none", "valid", "expired"}

Rows == [status : Statuses, owner : Daemons \cup {NoOwner, Reclaimer},
         lease : Leases, backoff : BOOLEAN, retry : Nat,
         error : Errors \cup {NoError}, dead : BOOLEAN]

AbsentRow ==
  [status |-> "ABSENT", owner |-> NoOwner, lease |-> "none", backoff |-> FALSE,
   retry |-> 0, error |-> NoError, dead |-> FALSE]

\* INSERT INTO tasks: the column defaults.
CreatedRow == [AbsentRow EXCEPT !.status = "QUEUED"]

Expired(row) == row.lease = "expired"

\* How many tasks of the product hold a live lease.
ActiveCount(rows, product) ==
  Cardinality({ t \in Tasks : /\ ProductOf[t] = product
                              /\ rows[t].status \in Active
                              /\ rows[t].lease = "valid" })

\* Mutant: takes any active task, its lease live or not.
Claimable_IgnoringLease(rows, t) ==
  /\ rows[t].status \in {"QUEUED"} \cup Active
  /\ ~ rows[t].backoff

\* Mutant: forgets the tasks an owner abandoned.
Claimable_QueuedOnly(rows, t) == rows[t].status = "QUEUED" /\ ~ rows[t].backoff

\* The candidate of claim().  ORDER BY priority is a choice among candidates.
Claimable(rows, t) ==
  /\ \/ rows[t].status = "QUEUED"
     \/ rows[t].status \in Active /\ Expired(rows[t])
  /\ ~ rows[t].backoff
  /\ ActiveCount(rows, ProductOf[t]) < ProductConcurrencyLimit

\* UPDATE of claim(): retry_count is left alone.
ClaimedBy(row, d) ==
  [row EXCEPT !.status = "ASSIGNED", !.owner = d, !.lease = "valid"]

\* heartbeat(): by id and status, whoever calls it.
Heartbeaten(row) ==
  IF row.status \in Active THEN [row EXCEPT !.lease = "valid"] ELSE row

\* update() with { status, leaseOwner, leaseDeadline }, as the worker's RUNNING
\* and TESTING writes do.
HeldAs(row, status, d) ==
  [row EXCEPT !.status = status, !.owner = d, !.lease = "valid"]

\* update() with { status, error, leaseOwner: null, leaseDeadline: null }.
ReleasedAs(row, status, error) ==
  [row EXCEPT !.status = status, !.error = error, !.owner = NoOwner, !.lease = "none"]

\* Mutant: a status the table does not know.
RequeuedForRetry_UnknownStatus(row, retryCount) ==
  [row EXCEPT !.status = "RETRYING", !.retry = retryCount]

\* Mutant: the retry is not counted.
RequeuedForRetry_Uncounted(row, retryCount) ==
  [row EXCEPT !.status = "QUEUED", !.backoff = TRUE, !.owner = NoOwner, !.lease = "none"]

\* The update the scheduler and the reaper make for a retry ...
RequeuedForRetry(row, retryCount) ==
  [row EXCEPT !.status = "QUEUED", !.retry = retryCount, !.backoff = TRUE,
              !.owner = NoOwner, !.lease = "none"]

\* ... and for a quarantine or a dead letter.
DeadLetteredAs(row, status) ==
  [row EXCEPT !.status = status, !.dead = TRUE, !.owner = NoOwner, !.lease = "none"]

\* cancel() and retry() are update() by id, whatever the row holds.
CancelledRow(row) == [row EXCEPT !.status = "CANCELLED"]
RetriedRow(row) ==
  [row EXCEPT !.status = "QUEUED", !.owner = NoOwner, !.lease = "none"]

\* Mutant: reclaims live leases too.
ReclaimedRow_LiveToo(row) ==
  IF row.status \in Active
  THEN [row EXCEPT !.status = "QUEUED", !.owner = Reclaimer, !.lease = "valid"]
  ELSE row

\* reclaimStuck() requeues an expired task under a fresh lease of its own.
ReclaimedRow(row) ==
  IF row.status \in Active /\ Expired(row)
  THEN [row EXCEPT !.status = "QUEUED", !.owner = Reclaimer, !.lease = "valid"]
  ELSE row

\* Mutant: compares with the current time instead of the cycle's.
Recoverable_AtCurrentTime(row, overdue) == row.status \in Active /\ Expired(row)

\* The WHERE clause of recoverStaleTask(); overdue is what
\* lease_deadline < now gives for the now the reaper's cycle started with.
Recoverable(row, overdue) == row.status \in Active /\ Expired(row) /\ overdue
=============================================================================
