--------------------------- MODULE TaskLifecycle ----------------------------
(***************************************************************************)
(* The life of a task between the API, the worker daemons and the reapers. *)
(*                                                                         *)
(* A daemon runs PdlContinuousScheduler.runLoop around                     *)
(* PdlCorrectionWorker.executeOnce, and a PdlTaskReaper beside it; all of  *)
(* them, and the API, share nothing but the tasks table and the dead-      *)
(* letter table.  Each action below is the stretch of one handler between  *)
(* two awaits that touch a table.  Governance gates are the environment's  *)
(* choice here (Governance models them): a denied Gate A changes nothing   *)
(* and is a stuttering step.                                               *)
(***************************************************************************)
EXTENDS TaskRepository

CONSTANTS
  Reapers,       \* the daemons whose reaper is running
  NoTask,        \* an unset lastExecutedTask or task
  MaxLapses,     \* bound: how many times a lease may run out
  MaxCrashes,    \* bound: how many times a daemon process may die
  MaxOperations  \* bound: operator calls of /cancel and /retry

ASSUME LifecycleAssumption ==
  /\ Reapers \subseteq Daemons
  /\ NoTask \notin Tasks /\ NoTask \notin Tasks \X Nat
  /\ MaxLapses \in Nat /\ MaxCrashes \in Nat /\ MaxOperations \in Nat

VARIABLES
  rows,      \* the tasks table
  deadLetters, \* the pdl_dead_letters table: its (task_id, attempt_count) keys
  pc,        \* where each daemon is in runLoop / executeOnce
  last,      \* worker.lastExecutedTask: the claimed row, then its outcome
  completed, \* worker.lastFinalizeStatus = 'COMPLETED', all anyone reads of it
  batch,     \* the rows the reaper's cycle still has to process
  overdue,   \* tasks whose lease_deadline precedes the `now` of the cycle
  pending,   \* the dead letter the reaper has still to record
  lapsed,    \* history: tasks whose lease ran out or an operator touched
  lapses, crashes, operations

daemonVars == << pc, last, completed >>
reaperVars == << batch, pending >>
bounds == << lapses, crashes, operations >>
vars == << rows, deadLetters, daemonVars, reaperVars, overdue, lapsed, bounds >>

\* What executeOnce and runOnce keep of a row they have read.
Snapshot(t) == [id |-> t, retry |-> rows[t].retry, error |-> rows[t].error]

Snapshots == [id : Tasks, retry : Nat, error : Errors \cup {NoError}]
Outcomes == [id : Tasks, retry : Nat, error : Errors \cup {NoError},
             status : {"ASSIGNED", "BLOCKED", "FAILED", "COMPLETED"}]

\* Where the heartbeat timer of executeOnce is running.
Executing == {"running", "testing", "persisting"}

TypeOK ==
  /\ rows \in [Tasks -> Rows]
  /\ deadLetters \subseteq Tasks \X Nat
  /\ pc \in [Daemons -> {"idle", "claimed", "outcome", "deadLetter"} \cup Executing]
  /\ last \in [Daemons -> Outcomes \cup {NoTask}]
  /\ completed \in [Daemons -> BOOLEAN]
  /\ batch \in [Reapers -> SUBSET Snapshots]
  /\ overdue \in [Reapers -> SUBSET Tasks]
  /\ pending \in [Reapers -> (Tasks \X Nat) \cup {NoTask}]
  /\ lapsed \subseteq Tasks
  /\ lapses \in Nat /\ crashes \in Nat /\ operations \in Nat

Init ==
  /\ rows = [t \in Tasks |-> AbsentRow]
  /\ deadLetters = {}
  /\ pc = [d \in Daemons |-> "idle"]
  /\ last = [d \in Daemons |-> NoTask]
  /\ completed = [d \in Daemons |-> FALSE]
  /\ batch = [r \in Reapers |-> {}]
  /\ overdue = [r \in Reapers |-> {}]
  /\ pending = [r \in Reapers |-> NoTask]
  /\ lapsed = {}
  /\ lapses = 0 /\ crashes = 0 /\ operations = 0

-----------------------------------------------------------------------------
(* The worker: PdlCorrectionWorker.executeOnce *)

Goto(d, label) == pc' = [pc EXCEPT ![d] = label]

\* UPDATE tasks SET ... WHERE id = t.  A deadline written now lies after the
\* `now` of every reaper cycle that is under way.
Write(t, row) ==
  /\ rows' = [rows EXCEPT ![t] = row]
  /\ overdue' = [r \in Reapers |-> IF Expired(row) THEN overdue[r] ELSE overdue[r] \ {t}]

\* The task executeOnce works on: its local `task` and lastExecutedTask share
\* the id and the retry count.
Attempt(d) == last[d].id

\* What executeOnce leaves in lastExecutedTask when it writes the outcome.
Outcome(d, status, error) ==
  last' = [last EXCEPT ![d] = [@ EXCEPT !.status = status, !.error = error]]

\* Gate A allowed, claim() returned a row.
Claim(d) ==
  /\ pc[d] = "idle"
  /\ \E t \in Tasks :
       /\ Claimable(rows, t)
       /\ Write(t, ClaimedBy(rows[t], d))
       /\ last' = [last EXCEPT ![d] = [id |-> t, retry |-> rows[t].retry,
                                       error |-> rows[t].error, status |-> "ASSIGNED"]]
  /\ Goto(d, "claimed")
  /\ UNCHANGED << deadLetters, completed, reaperVars, lapsed, bounds >>

\* Gate B denied: the message always names governance.  lastFinalizeStatus is
\* not touched.
GateBDenied(d) ==
  /\ pc[d] = "claimed"
  /\ Write(Attempt(d), ReleasedAs(rows[Attempt(d)], "BLOCKED", {"governance"}))
  /\ Outcome(d, "BLOCKED", {"governance"})
  /\ Goto(d, "outcome")
  /\ UNCHANGED << deadLetters, completed, reaperVars, lapsed, bounds >>

StartRunning(d) ==
  /\ pc[d] = "claimed"
  /\ Write(Attempt(d), HeldAs(rows[Attempt(d)], "RUNNING", d))
  /\ Goto(d, "running")
  /\ UNCHANGED << deadLetters, last, completed, reaperVars, lapsed, bounds >>

\* The heartbeat timer; it does not ask who owns the row.
Heartbeat(d) ==
  /\ pc[d] \in Executing
  /\ Write(Attempt(d), Heartbeaten(rows[Attempt(d)]))
  /\ UNCHANGED << deadLetters, daemonVars, reaperVars, lapsed, bounds >>

\* No SEALED ExecutionSpec, or one whose hash does not match: FAILED with a
\* message no rule matches, and neither lastExecutedTask nor
\* lastFinalizeStatus is updated.
SpecRejected(d) ==
  /\ pc[d] = "running"
  /\ Write(Attempt(d), ReleasedAs(rows[Attempt(d)], "FAILED", {}))
  /\ Goto(d, "outcome")
  /\ UNCHANGED << deadLetters, last, completed, reaperVars, lapsed, bounds >>

\* The provider returned FAILED: lastExecutedTask stays the claimed row.
AgentFailed(d) ==
  /\ pc[d] = "running"
  /\ \E e \in Errors : Write(Attempt(d), ReleasedAs(rows[Attempt(d)], "FAILED", e))
  /\ completed' = [completed EXCEPT ![d] = FALSE]
  /\ Goto(d, "outcome")
  /\ UNCHANGED << deadLetters, last, reaperVars, lapsed, bounds >>

EnterTesting(d) ==
  /\ pc[d] = "running"
  /\ Write(Attempt(d), HeldAs(rows[Attempt(d)], "TESTING", d))
  /\ Goto(d, "testing")
  /\ UNCHANGED << deadLetters, last, completed, reaperVars, lapsed, bounds >>

\* Finalization, correction loop and review, up to the assignment of
\* lastFinalizeStatus.
Finalize(d) ==
  /\ pc[d] = "testing"
  /\ \E ok \in BOOLEAN : completed' = [completed EXCEPT ![d] = ok]
  /\ Goto(d, "persisting")
  /\ UNCHANGED << rows, overdue, deadLetters, last, reaperVars, lapsed, bounds >>

\* Gate D, remote persistence and the persistence gate may each turn a
\* COMPLETED finalization into a failure; then the result is written.
RecordResult(d) ==
  /\ pc[d] = "persisting"
  /\ \E ok \in BOOLEAN, e \in Errors :
       LET status == IF ok /\ completed[d] THEN "COMPLETED" ELSE "FAILED"
           error == IF status = "FAILED" THEN e ELSE NoError
       IN  /\ completed' = [completed EXCEPT ![d] = ok /\ @]
           /\ Outcome(d, status, error)
           /\ Write(Attempt(d), ReleasedAs(rows[Attempt(d)], status, error))
  /\ Goto(d, "outcome")
  /\ UNCHANGED << deadLetters, reaperVars, lapsed, bounds >>

\* The catch block.  lastFinalizeStatus keeps whatever value it had.
AttemptThrows(d) ==
  /\ pc[d] \in Executing
  /\ \E e \in Errors :
       /\ Outcome(d, "FAILED", e)
       /\ Write(Attempt(d), ReleasedAs(rows[Attempt(d)], "FAILED", e))
  /\ Goto(d, "outcome")
  /\ UNCHANGED << deadLetters, completed, reaperVars, lapsed, bounds >>

-----------------------------------------------------------------------------
(* The scheduler: what runLoop does with the outcome of executeOnce.  The    *)
(* outcome is read once; the next claim() overwrites lastExecutedTask,       *)
(* which is therefore dropped here already.                                  *)

\* retryPolicy.evaluate(lastTask, lastTask.error || 'Task failed ...').
Decision(d) ==
  Evaluate(IF last[d].error = NoError THEN {} ELSE last[d].error, last[d].retry)

Succeeded(d) ==
  /\ pc[d] = "outcome" /\ completed[d]
  /\ Goto(d, "idle")
  /\ last' = [last EXCEPT ![d] = NoTask]
  /\ UNCHANGED << rows, overdue, deadLetters, completed, reaperVars, lapsed, bounds >>

ScheduleRetry(d) ==
  /\ pc[d] = "outcome" /\ ~ completed[d] /\ Decision(d) = "RETRY"
  /\ Write(last[d].id, RequeuedForRetry(rows[last[d].id], last[d].retry + 1))
  /\ Goto(d, "idle")
  /\ last' = [last EXCEPT ![d] = NoTask]
  /\ UNCHANGED << deadLetters, completed, reaperVars, lapsed, bounds >>

\* A quarantined task, or a dead letter: BLOCKED if Gate B blocked it.
DeadLetterStatus(d) ==
  CASE Decision(d) = "QUARANTINE" -> "QUARANTINED"
    [] last[d].status = "BLOCKED" /\ Decision(d) # "QUARANTINE" -> "BLOCKED"
    [] OTHER -> "FAILED"

DeadLetter(d) ==
  /\ pc[d] = "outcome" /\ ~ completed[d] /\ Decision(d) # "RETRY"
  /\ Write(last[d].id, DeadLetteredAs(rows[last[d].id], DeadLetterStatus(d)))
  /\ Goto(d, "deadLetter")
  /\ UNCHANGED << deadLetters, last, completed, reaperVars, lapsed, bounds >>

\* dlq.record(): idempotent on (task, attempt).
RecordDeadLetter(d) ==
  /\ pc[d] = "deadLetter"
  /\ deadLetters' = deadLetters \cup {<< last[d].id, last[d].retry + 1 >>}
  /\ Goto(d, "idle")
  /\ last' = [last EXCEPT ![d] = NoTask]
  /\ UNCHANGED << rows, overdue, completed, reaperVars, lapsed, bounds >>

-----------------------------------------------------------------------------
(* The reaper: PdlTaskReaper.runOnce *)

ReaperIdle(r) == batch[r] = {} /\ pending[r] = NoTask

\* A cycle starts: its now, and the rows findStaleTasks returns.  batchSize
\* (10) exceeds the number of tasks of every run.
ReaperFind(r) ==
  /\ ReaperIdle(r)
  /\ overdue' = [overdue EXCEPT ![r] = { t \in Tasks : Expired(rows[t]) }]
  /\ batch' = [batch EXCEPT ![r] =
                 { Snapshot(t) : t \in { u \in Tasks : /\ rows[u].status \in Active
                                                       /\ Expired(rows[u]) } }]
  /\ UNCHANGED << rows, deadLetters, daemonVars, pending, lapsed, bounds >>

\* effectiveError: the error column of an EARLIER attempt, if there is one.
ReaperDecision(s) ==
  Evaluate(IF s.error = NoError THEN {"timeout"} ELSE s.error, s.retry)

Recovered(s, row) ==
  CASE ReaperDecision(s) = "RETRY" -> RequeuedForRetry(row, s.retry + 1)
    [] ReaperDecision(s) = "QUARANTINE" -> DeadLetteredAs(row, "QUARANTINED")
    [] OTHER -> DeadLetteredAs(row, "FAILED")

RecoveryApplies(r, s) == Recoverable(rows[s.id], s.id \in overdue[r])

\* recoverStaleTask(): guarded by status and deadline; a row that moved on is
\* left alone.
ReaperRecover(r) ==
  /\ pending[r] = NoTask
  /\ \E s \in batch[r] :
       /\ batch' = [batch EXCEPT ![r] = @ \ {s}]
       /\ IF RecoveryApplies(r, s)
          THEN /\ Write(s.id, Recovered(s, rows[s.id]))
               /\ pending' = [pending EXCEPT ![r] =
                    IF ReaperDecision(s) = "RETRY" THEN NoTask ELSE << s.id, s.retry + 1 >>]
          ELSE UNCHANGED << rows, overdue, pending >>
  /\ UNCHANGED << deadLetters, daemonVars, lapsed, bounds >>

\* A product outside limits.allowedProducts is skipped.
ReaperSkip(r) ==
  /\ pending[r] = NoTask
  /\ \E s \in batch[r] : batch' = [batch EXCEPT ![r] = @ \ {s}]
  /\ UNCHANGED << rows, overdue, deadLetters, daemonVars, pending, lapsed, bounds >>

\* Mutant: the record is dropped.
ReaperRecordDeadLetter_Dropped(r) ==
  /\ pending[r] # NoTask
  /\ pending' = [pending EXCEPT ![r] = NoTask]
  /\ UNCHANGED << rows, overdue, deadLetters, daemonVars, batch, lapsed, bounds >>

ReaperRecordDeadLetter(r) ==
  /\ pending[r] # NoTask
  /\ deadLetters' = deadLetters \cup {pending[r]}
  /\ pending' = [pending EXCEPT ![r] = NoTask]
  /\ UNCHANGED << rows, overdue, daemonVars, batch, lapsed, bounds >>

-----------------------------------------------------------------------------
(* The API, the legacy worker's start-up, time and crashes *)

Create(t) ==
  /\ rows[t].status = "ABSENT"
  /\ Write(t, CreatedRow)
  /\ UNCHANGED << deadLetters, daemonVars, reaperVars, lapsed, bounds >>

Operate(t, row) ==
  /\ rows[t].status # "ABSENT"
  /\ operations < MaxOperations /\ operations' = operations + 1
  /\ Write(t, row)
  /\ lapsed' = lapsed \cup {t}
  /\ UNCHANGED << deadLetters, daemonVars, reaperVars, lapses, crashes >>

\* POST /tasks/:id/cancel and POST /tasks/:id/retry
Cancel(t) == Operate(t, CancelledRow(rows[t]))
Retry(t) == Operate(t, RetriedRow(rows[t]))

\* startupRecovery() of the legacy entry point, in a process of its own.
ReclaimStuck ==
  /\ rows' = [t \in Tasks |-> ReclaimedRow(rows[t])]
  /\ overdue' = [r \in Reapers |-> { t \in overdue[r] : Expired(ReclaimedRow(rows[t])) }]
  /\ UNCHANGED << deadLetters, daemonVars, reaperVars, lapsed, bounds >>

Lapse(t) ==
  /\ rows[t].lease = "valid"
  /\ Write(t, [rows[t] EXCEPT !.lease = "expired"])
  /\ lapsed' = lapsed \cup {t}

Attempted(t) == \E d \in Daemons : pc[d] \in {"claimed"} \cup Executing /\ Attempt(d) = t

\* Heartbeats of a live attempt stop reaching the table: a blocked event loop
\* (execSync), or failing queries, whose errors the timer swallows.
LeaseExpires(t) ==
  /\ Attempted(t)
  /\ lapses < MaxLapses /\ lapses' = lapses + 1
  /\ Lapse(t)
  /\ UNCHANGED << deadLetters, daemonVars, reaperVars, crashes, operations >>

\* A lease nobody renews any more runs out.
AbandonedLeaseExpires(t) ==
  /\ ~ Attempted(t)
  /\ Lapse(t)
  /\ UNCHANGED << deadLetters, daemonVars, reaperVars, bounds >>

BackoffElapses(t) ==
  /\ rows[t].backoff
  /\ Write(t, [rows[t] EXCEPT !.backoff = FALSE])
  /\ UNCHANGED << deadLetters, daemonVars, reaperVars, lapsed, bounds >>

\* The daemon's process dies, with its worker and its reaper, and is started
\* again.  A graceful shutdown does the same: stop() does not wait for
\* executeOnce before the process exits.
Crash(d) ==
  /\ crashes < MaxCrashes /\ crashes' = crashes + 1
  /\ Goto(d, "idle")
  /\ last' = [last EXCEPT ![d] = NoTask]
  /\ completed' = [completed EXCEPT ![d] = FALSE]
  /\ batch' = [r \in Reapers |-> IF r = d THEN {} ELSE batch[r]]
  /\ pending' = [r \in Reapers |-> IF r = d THEN NoTask ELSE pending[r]]
  /\ UNCHANGED << rows, overdue, deadLetters, lapsed, lapses, operations >>

-----------------------------------------------------------------------------

\* What a session does with a task from the claim on.
DaemonAttempt(d) ==
  \/ GateBDenied(d) \/ StartRunning(d)
  \/ SpecRejected(d) \/ AgentFailed(d) \/ EnterTesting(d) \/ Finalize(d)
  \/ RecordResult(d) \/ AttemptThrows(d)
  \/ Succeeded(d) \/ ScheduleRetry(d) \/ DeadLetter(d) \/ RecordDeadLetter(d)

DaemonStep(d) == Claim(d) \/ DaemonAttempt(d) \/ Heartbeat(d) \/ Crash(d)

ReaperStep(r) ==
  ReaperFind(r) \/ ReaperRecover(r) \/ ReaperSkip(r) \/ ReaperRecordDeadLetter(r)

TaskStep(t) ==
  \/ Create(t) \/ Cancel(t) \/ Retry(t)
  \/ LeaseExpires(t) \/ AbandonedLeaseExpires(t) \/ BackoffElapses(t)

Next ==
  \/ \E d \in Daemons : DaemonStep(d)
  \/ \E r \in Reapers : ReaperStep(r)
  \/ \E t \in Tasks : TaskStep(t)
  \/ ReclaimStuck

Spec == Init /\ [][Next]_vars

\* A daemon that has claimed a task carries its attempt through, and time
\* passes.  Nothing is assumed of operators, of reapers (governance may keep
\* them from every cycle), of crashes, or of what an attempt returns.
Fairness ==
  /\ \A d \in Daemons : WF_vars(DaemonAttempt(d))
  /\ \A t \in Tasks : /\ WF_vars(BackoffElapses(t))
                       /\ WF_vars(AbandonedLeaseExpires(t))

FairSpec == Spec /\ Fairness

-----------------------------------------------------------------------------
(* Properties *)

\* No path (worker, scheduler or reaper, however they interleave) retries a
\* task more often than max_retries.
RetryBound == \A t \in Tasks : rows[t].retry <= MaxRetries

\* Until a lease runs out or an operator interferes, one daemon at a time is
\* between claim() and the handling of its outcome.
ExclusiveWhileLeased ==
  \A c, d \in Daemons :
    (pc[c] # "idle" /\ pc[d] # "idle" /\ Attempt(c) = Attempt(d)
       /\ Attempt(c) \notin lapsed) => c = d

\* What the row of an attempt looks like at each point of executeOnce.
OwnedAs(d, label, retryCount, row) ==
  /\ row.retry = retryCount
  /\ label \in {"claimed"} \cup Executing =>
       /\ row.owner = d
       /\ row.status = CASE label = "claimed" -> "ASSIGNED"
                         [] label = "running" -> "RUNNING"
                         [] OTHER -> "TESTING"
  /\ label \in {"outcome", "deadLetter"} => row.status \in Settled

\* ... its row says so, and the retry count it will write back is current.
\* (update() and heartbeat() check neither the owner nor the count.)
OwnershipWhileLeased ==
  \A d \in Daemons :
    (pc[d] # "idle" /\ Attempt(d) \notin lapsed) =>
      OwnedAs(d, pc[d], last[d].retry, rows[Attempt(d)])

\* When recoverStaleTask() lets a recovery through, the row still holds the
\* retry count and the error the reaper decided on, whatever the daemons,
\* the other reapers and the operators did since findStaleTasks().
RecoveryDecidedOnCurrentRow ==
  \A r \in Reapers : \A s \in batch[r] :
    RecoveryApplies(r, s) => rows[s.id].retry = s.retry /\ rows[s.id].error = s.error

\* A dead-lettered or quarantined task has its record, or somebody is about to
\* write it.  (Row and record are two writes in no transaction: a process that
\* dies between them leaves the task without one.)
DeadLettersRecorded ==
  \A t \in Tasks : rows[t].dead /\ crashes = 0 =>
    \/ \E n \in 1 .. MaxRetries + 1 : << t, n >> \in deadLetters
    \/ \E d \in Daemons : pc[d] = "deadLetter" /\ last[d].id = t
    \/ \E r \in Reapers : pending[r] # NoTask /\ pending[r][1] = t

\* A session ends after max_consecutive_tasks or max_consecutive_failures and
\* only an operator, or the start of a daemon process, begins another one.
\* Somebody always does: the queue is polled for ever.
QueueIsPolled == \A d \in Daemons : WF_vars(Claim(d))

\* In a queue that is polled, every task comes to rest for good: crashes,
\* lapsed leases and failures are retried a bounded number of times, and a
\* task waiting for its product's concurrency limit is not forgotten.
EverythingSettles ==
  QueueIsPolled => \A t \in Tasks : <>[](rows[t].status \in Settled \cup {"ABSENT"})

-----------------------------------------------------------------------------
(* TaskLifecycle implements TaskQueue: the status column is the state, the *)
(* daemons that have claimed a row and not yet let go of its outcome hold  *)
(* the task.                                                               *)

StateOf(row) ==
  CASE row.status = "ABSENT" -> "absent"
    [] row.status = "QUEUED" -> "waiting"
    [] row.status \in Active -> "busy"
    [] row.status \in Settled -> "closed"

HoldersOf(t) == {d \in Daemons : pc[d] # "idle" /\ Attempt(d) = t}

Queue == INSTANCE TaskQueue WITH
           Workers <- Daemons,
           state <- [t \in Tasks |-> StateOf(rows[t])],
           holders <- [t \in Tasks |-> HoldersOf(t)],
           used <- [t \in Tasks |-> rows[t].retry],
           disturbed <- lapsed

\* However workers, reapers, operators and crashes interleave, a task whose lease
\* holds is given to one daemon, ended and requeued by that daemon alone, and each
\* requeueing costs exactly one retry (claim, update and the retry of the scheduler
\* together, which no single statement of the repository guarantees).
ImplementsQueue == Queue!Spec
=============================================================================
