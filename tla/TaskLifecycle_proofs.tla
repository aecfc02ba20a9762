------------------------ MODULE TaskLifecycle_proofs ------------------------
(***************************************************************************)
(* Tasks and the processes that work on them: the lifecycle, for every set of*)
(* tasks, daemons and reapers; and what the supervisor and the retry policy*)
(* promise, for every set of services, messages and operator commands and  *)
(* every configuration of the policy.                                      *)
(***************************************************************************)
EXTENDS TaskLifecycle, Supervisor, FiniteSetTheorems, SequenceTheorems, TLAPS

\* Everything an update of the repository makes of a row is a row.
LEMMA RowOperations ==
  ASSUME NEW row \in Rows
  PROVE  /\ \A d \in Daemons : ClaimedBy(row, d) \in Rows
         /\ Heartbeaten(row) \in Rows
         /\ \A d \in Daemons, s \in Statuses : HeldAs(row, s, d) \in Rows
         /\ \A s \in Statuses, e \in Errors \cup {NoError} : ReleasedAs(row, s, e) \in Rows
         /\ \A n \in Nat : RequeuedForRetry(row, n) \in Rows
         /\ \A s \in Statuses : DeadLetteredAs(row, s) \in Rows
         /\ CancelledRow(row) \in Rows
         /\ RetriedRow(row) \in Rows
         /\ ReclaimedRow(row) \in Rows
         /\ [row EXCEPT !.lease = "expired"] \in Rows
         /\ [row EXCEPT !.backoff = FALSE] \in Rows
  <1>1. \A d \in Daemons : ClaimedBy(row, d) \in Rows
    BY DEF Rows, Statuses, Active, Settled, Leases, ClaimedBy
  <1>2. Heartbeaten(row) \in Rows
    BY DEF Rows, Statuses, Active, Settled, Leases, Heartbeaten
  <1>3. \A d \in Daemons, s \in Statuses : HeldAs(row, s, d) \in Rows
    BY DEF Rows, Statuses, Active, Settled, Leases, HeldAs
  <1>4. \A s \in Statuses, e \in Errors \cup {NoError} : ReleasedAs(row, s, e) \in Rows
    BY DEF Rows, Statuses, Active, Settled, Leases, ReleasedAs
  <1>5. \A n \in Nat : RequeuedForRetry(row, n) \in Rows
    BY DEF Rows, Statuses, Active, Settled, Leases, RequeuedForRetry
  <1>6. \A s \in Statuses : DeadLetteredAs(row, s) \in Rows
    BY DEF Rows, Statuses, Active, Settled, Leases, DeadLetteredAs
  <1>7. CancelledRow(row) \in Rows
    BY DEF Rows, Statuses, Active, Settled, Leases, CancelledRow
  <1>8. RetriedRow(row) \in Rows
    BY DEF Rows, Statuses, Active, Settled, Leases, RetriedRow
  <1>9. ReclaimedRow(row) \in Rows
    BY DEF Rows, Statuses, Active, Settled, Leases, ReclaimedRow, Expired
  <1>10. [row EXCEPT !.lease = "expired"] \in Rows
    BY DEF Rows, Statuses, Active, Settled, Leases
  <1>11. [row EXCEPT !.backoff = FALSE] \in Rows
    BY DEF Rows, Statuses, Active, Settled, Leases
  <1> QED BY <1>1, <1>2, <1>3, <1>4, <1>5, <1>6, <1>7, <1>8, <1>9, <1>10, <1>11

\* An UPDATE keeps the table and the reapers' deadlines well typed.
LEMMA WriteTyped ==
  ASSUME rows \in [Tasks -> Rows], overdue \in [Reapers -> SUBSET Tasks],
         NEW t \in Tasks, NEW row \in Rows, Write(t, row)
  PROVE  rows' \in [Tasks -> Rows] /\ overdue' \in [Reapers -> SUBSET Tasks]
  BY DEF Write

-----------------------------------------------------------------------------
(* Type correctness *)

\* A daemon that is busy has claimed a task.
Busy == \A d \in Daemons : pc[d] # "idle" => last[d] \in Outcomes

TypeInv == TypeOK /\ Busy

LEMMA TypeInitial == Init => TypeInv
  <1> SUFFICES ASSUME Init PROVE TypeInv
    OBVIOUS
  <1>1. AbsentRow \in Rows
    BY DEF AbsentRow, Rows, Statuses, Leases
  <1> QED BY <1>1 DEF Init, TypeInv, TypeOK, Busy

\* A step of a daemon that executes its attempt.
LEMMA TypeWorker ==
  ASSUME TypeInv, NEW d \in Daemons,
         \/ Claim(d) \/ GateBDenied(d) \/ StartRunning(d) \/ Heartbeat(d)
         \/ SpecRejected(d) \/ AgentFailed(d) \/ EnterTesting(d) \/ Finalize(d)
         \/ RecordResult(d) \/ AttemptThrows(d)
  PROVE  TypeInv'
  <1> USE RepositoryAssumption DEF TypeInv, TypeOK, Busy, Executing, Goto, Outcomes
  <1> DEFINE t == Attempt(d)
  <1>0. pc[d] # "idle" => t \in Tasks /\ last[d] \in Outcomes
    BY DEF Attempt
  <1>1. CASE Claim(d)
    <2>1. PICK u \in Tasks :
            /\ Write(u, ClaimedBy(rows[u], d))
            /\ last' = [last EXCEPT ![d] = [id |-> u, retry |-> rows[u].retry,
                                            error |-> rows[u].error, status |-> "ASSIGNED"]]
      BY <1>1 DEF Claim
    <2>2. rows' \in [Tasks -> Rows] /\ overdue' \in [Reapers -> SUBSET Tasks]
      BY <2>1, RowOperations, WriteTyped
    <2>3. [id |-> u, retry |-> rows[u].retry, error |-> rows[u].error,
           status |-> "ASSIGNED"] \in Outcomes
      BY DEF Rows
    <2> QED BY <1>1, <2>1, <2>2, <2>3 DEF Claim, reaperVars, bounds
  <1>2. CASE GateBDenied(d)
    <2>1. rows' \in [Tasks -> Rows] /\ overdue' \in [Reapers -> SUBSET Tasks]
      BY <1>0, <1>2, RowOperations, WriteTyped DEF GateBDenied, Statuses, Active, Settled
    <2> QED BY <1>0, <1>2, <2>1 DEF GateBDenied, Outcome, reaperVars, daemonVars, bounds
  <1>3. CASE StartRunning(d)
    <2>1. rows' \in [Tasks -> Rows] /\ overdue' \in [Reapers -> SUBSET Tasks]
      BY <1>0, <1>3, RowOperations, WriteTyped DEF StartRunning, Statuses, Active, Settled
    <2> QED BY <1>0, <1>3, <2>1 DEF StartRunning, Outcome, reaperVars, daemonVars, bounds
  <1>4. CASE Heartbeat(d)
    <2>1. rows' \in [Tasks -> Rows] /\ overdue' \in [Reapers -> SUBSET Tasks]
      BY <1>0, <1>4, RowOperations, WriteTyped DEF Heartbeat, Statuses, Active, Settled
    <2> QED BY <1>0, <1>4, <2>1 DEF Heartbeat, Outcome, reaperVars, daemonVars, bounds
  <1>5. CASE SpecRejected(d)
    <2>1. rows' \in [Tasks -> Rows] /\ overdue' \in [Reapers -> SUBSET Tasks]
      BY <1>0, <1>5, RowOperations, WriteTyped DEF SpecRejected, Statuses, Active, Settled
    <2> QED BY <1>0, <1>5, <2>1 DEF SpecRejected, Outcome, reaperVars, daemonVars, bounds
  <1>6. CASE AgentFailed(d)
    <2>1. rows' \in [Tasks -> Rows] /\ overdue' \in [Reapers -> SUBSET Tasks]
      BY <1>0, <1>6, RowOperations, WriteTyped DEF AgentFailed, Statuses, Active, Settled
    <2> QED BY <1>0, <1>6, <2>1 DEF AgentFailed, Outcome, reaperVars, daemonVars, bounds
  <1>7. CASE EnterTesting(d)
    <2>1. rows' \in [Tasks -> Rows] /\ overdue' \in [Reapers -> SUBSET Tasks]
      BY <1>0, <1>7, RowOperations, WriteTyped DEF EnterTesting, Statuses, Active, Settled
    <2> QED BY <1>0, <1>7, <2>1 DEF EnterTesting, Outcome, reaperVars, daemonVars, bounds
  <1>8. CASE Finalize(d)
    <2>1. PICK ok \in BOOLEAN : completed' = [completed EXCEPT ![d] = ok]
      BY <1>8 DEF Finalize
    <2>2. completed' \in [Daemons -> BOOLEAN]
      BY <2>1, Zenon
    <2> QED BY <1>0, <1>8, <2>2 DEF Finalize, reaperVars, bounds
  <1>9. CASE RecordResult(d)
    <2>1. rows' \in [Tasks -> Rows] /\ overdue' \in [Reapers -> SUBSET Tasks]
      BY <1>0, <1>9, RowOperations, WriteTyped DEF RecordResult, Statuses, Active, Settled
    <2>2. completed' \in [Daemons -> BOOLEAN]
      <3>1. PICK ok \in BOOLEAN : completed' = [completed EXCEPT ![d] = ok /\ completed[d]]
        BY <1>9 DEF RecordResult
      <3> QED BY <3>1, Zenon
    <2>3. PICK s \in {"COMPLETED", "FAILED"}, e \in Errors \cup {NoError} : Outcome(d, s, e)
      BY <1>9 DEF RecordResult
    <2>4. last[d] \in Outcomes
      BY <1>0, <1>9 DEF RecordResult
    <2>5. last' \in [Daemons -> Outcomes \cup {NoTask}] /\ last'[d] \in Outcomes
      BY <2>3, <2>4 DEF Outcome
    <2> QED BY <1>0, <1>9, <2>1, <2>2, <2>3, <2>5 DEF RecordResult, Outcome, reaperVars, bounds
  <1>10. CASE AttemptThrows(d)
    <2>1. rows' \in [Tasks -> Rows] /\ overdue' \in [Reapers -> SUBSET Tasks]
      BY <1>0, <1>10, RowOperations, WriteTyped DEF AttemptThrows, Statuses, Active, Settled
    <2>2. PICK e \in Errors : Outcome(d, "FAILED", e)
      BY <1>10 DEF AttemptThrows
    <2>3. last' \in [Daemons -> Outcomes \cup {NoTask}] /\ last'[d] \in Outcomes
      BY <1>0, <1>10, <2>2 DEF AttemptThrows, Outcome
    <2> QED BY <1>0, <1>10, <2>1, <2>2, <2>3 DEF AttemptThrows, Outcome, reaperVars, bounds
  <1> QED BY <1>1, <1>2, <1>3, <1>4, <1>5, <1>6, <1>7, <1>8, <1>9, <1>10

\* A step of the scheduler, which handles the outcome of the attempt.
LEMMA TypeScheduler ==
  ASSUME TypeInv, NEW d \in Daemons,
         Succeeded(d) \/ ScheduleRetry(d) \/ DeadLetter(d) \/ RecordDeadLetter(d)
  PROVE  TypeInv'
  <1> USE DEF TypeInv, TypeOK, Busy, Executing, Goto
  <1>0. pc[d] # "idle" => last[d] \in Outcomes /\ last[d].id \in Tasks /\ last[d].retry \in Nat
    BY DEF Outcomes
  <1>1. CASE Succeeded(d)
    BY <1>1 DEF Succeeded, reaperVars, bounds
  <1>2. CASE ScheduleRetry(d)
    <2>a. last[d].id \in Tasks /\ last[d].retry + 1 \in Nat
      BY <1>0, <1>2 DEF ScheduleRetry
    <2>b. RequeuedForRetry(rows[last[d].id], last[d].retry + 1) \in Rows
      BY <2>a, RowOperations
    <2>1. rows' \in [Tasks -> Rows] /\ overdue' \in [Reapers -> SUBSET Tasks]
      BY <1>2, <2>a, <2>b, WriteTyped DEF ScheduleRetry
    <2> QED BY <1>2, <2>1 DEF ScheduleRetry, reaperVars, bounds
  <1>3. CASE DeadLetter(d)
    <2>1. DeadLetterStatus(d) \in Statuses
      BY DEF DeadLetterStatus, Statuses, Settled
    <2>2. rows' \in [Tasks -> Rows] /\ overdue' \in [Reapers -> SUBSET Tasks]
      BY <1>0, <1>3, <2>1, RowOperations, WriteTyped DEF DeadLetter
    <2> QED BY <1>3, <2>2 DEF DeadLetter, reaperVars, bounds
  <1>4. CASE RecordDeadLetter(d)
    BY <1>0, <1>4 DEF RecordDeadLetter, reaperVars, bounds
  <1> QED BY <1>1, <1>2, <1>3, <1>4

\* A step of a reaper.
LEMMA TypeReaper ==
  ASSUME TypeInv, NEW r \in Reapers, ReaperStep(r)
  PROVE  TypeInv'
  <1> USE DEF TypeInv, TypeOK, Busy
  <1>1. CASE ReaperFind(r)
    <2>1. \A t \in Tasks : Snapshot(t) \in Snapshots
      BY DEF Snapshot, Snapshots, Rows
    <2> QED BY <1>1, <2>1 DEF ReaperFind, daemonVars, bounds
  <1>2. CASE ReaperRecover(r)
    <2>1. PICK s \in batch[r] :
            /\ batch' = [batch EXCEPT ![r] = @ \ {s}]
            /\ \/ /\ Write(s.id, Recovered(s, rows[s.id]))
                  /\ pending' = [pending EXCEPT ![r] =
                       IF ReaperDecision(s) = "RETRY" THEN NoTask ELSE << s.id, s.retry + 1 >>]
               \/ UNCHANGED << rows, overdue, pending >>
      BY <1>2 DEF ReaperRecover
    <2>2. s \in Snapshots /\ s.id \in Tasks /\ s.retry \in Nat
      BY DEF Snapshots
    <2>3. Recovered(s, rows[s.id]) \in Rows
      <3>1. rows[s.id] \in Rows /\ s.retry + 1 \in Nat
        BY <2>2
      <3>2. /\ RequeuedForRetry(rows[s.id], s.retry + 1) \in Rows
            /\ DeadLetteredAs(rows[s.id], "QUARANTINED") \in Rows
            /\ DeadLetteredAs(rows[s.id], "FAILED") \in Rows
        BY <3>1, RowOperations DEF Statuses, Settled
      <3> QED BY <3>2 DEF Recovered
    <2>4. rows' \in [Tasks -> Rows] /\ overdue' \in [Reapers -> SUBSET Tasks]
      BY <2>1, <2>2, <2>3, WriteTyped
    <2>5. pending' \in [Reapers -> (Tasks \X Nat) \cup {NoTask}]
      <3>1. << s.id, s.retry + 1 >> \in Tasks \X Nat
        BY <2>2
      <3> QED BY <2>1, <3>1
    <2>6. batch' \in [Reapers -> SUBSET Snapshots]
      BY <2>1
    <2> QED BY <1>2, <2>4, <2>5, <2>6 DEF ReaperRecover, daemonVars, bounds
  <1>3. CASE ReaperSkip(r)
    BY <1>3 DEF ReaperSkip, daemonVars, bounds
  <1>4. CASE ReaperRecordDeadLetter(r)
    BY <1>4 DEF ReaperRecordDeadLetter, daemonVars, bounds
  <1> QED BY <1>1, <1>2, <1>3, <1>4 DEF ReaperStep

\* A step of the API, of time, of the legacy start-up or a crash.
LEMMA TypeEnvironment ==
  ASSUME TypeInv, (\E t \in Tasks : TaskStep(t)) \/ ReclaimStuck \/ (\E d \in Daemons : Crash(d))
  PROVE  TypeInv'
  <1> USE DEF TypeInv, TypeOK, Busy
  <1>1. ASSUME NEW t \in Tasks, TaskStep(t) PROVE TypeInv'
    <2>1. PICK row \in Rows : Write(t, row)
      <3>1. CreatedRow \in Rows
        BY DEF CreatedRow, AbsentRow, Rows, Statuses, Leases
      <3> QED BY <1>1, <3>1, RowOperations
              DEF TaskStep, Create, Cancel, Retry, Operate, LeaseExpires,
                  AbandonedLeaseExpires, Lapse, BackoffElapses
    <2>2. rows' \in [Tasks -> Rows] /\ overdue' \in [Reapers -> SUBSET Tasks]
      BY <2>1, WriteTyped
    <2>3. UNCHANGED << deadLetters, pc, last, completed, batch, pending, crashes >>
      BY <1>1 DEF TaskStep, Create, Cancel, Retry, Operate, LeaseExpires,
                  AbandonedLeaseExpires, BackoffElapses, daemonVars, reaperVars, bounds
    <2>4. lapsed' \subseteq Tasks /\ lapses' \in Nat /\ operations' \in Nat
      BY <1>1 DEF TaskStep, Create, Cancel, Retry, Operate, LeaseExpires, Lapse,
                  AbandonedLeaseExpires, BackoffElapses, bounds
    <2> QED BY <2>2, <2>3, <2>4
  <1>2. ASSUME ReclaimStuck PROVE TypeInv'
    BY <1>2, RowOperations DEF ReclaimStuck, daemonVars, reaperVars, bounds
  <1>3. ASSUME NEW d \in Daemons, Crash(d) PROVE TypeInv'
    BY <1>3 DEF Crash, Goto
  <1> QED BY <1>1, <1>2, <1>3

LEMMA TypeInductive == TypeInv /\ [Next]_vars => TypeInv'
  <1> SUFFICES ASSUME TypeInv, [Next]_vars PROVE TypeInv'
    OBVIOUS
  <1>1. CASE UNCHANGED vars
    BY <1>1 DEF vars, daemonVars, reaperVars, bounds, TypeInv, TypeOK, Busy
  <1>2. CASE Next
    BY <1>2, TypeWorker, TypeScheduler, TypeReaper, TypeEnvironment
    DEF Next, DaemonStep, DaemonAttempt
  <1> QED BY <1>1, <1>2

\* Every reachable state is well typed: the rows, what the daemons keep in
\* lastExecutedTask, the reapers' batches and the dead letters.
THEOREM TypeCorrect == Spec => []TypeOK
  <1>1. TypeInv => TypeOK
    BY DEF TypeInv
  <1> QED BY <1>1, TypeInitial, TypeInductive, PTL DEF Spec

-----------------------------------------------------------------------------
(* Retries are bounded *)

\* No copy of a retry count, in the table or in a snapshot, exceeds the bound.
RetryInv ==
  /\ RetryBound
  /\ \A d \in Daemons : pc[d] # "idle" => last[d].retry <= MaxRetries
  /\ \A r \in Reapers : \A s \in batch[r] : s.retry <= MaxRetries

\* The policy answers RETRY only below the limit.
LEMMA RetryBelowLimit ==
  ASSUME NEW msg, NEW n \in Nat, Evaluate(msg, n) = "RETRY"
  PROVE  n + 1 <= MaxRetries
  BY RetryConfigAssumption DEF Evaluate

\* What the worker, the operators and time write keeps the retry count.
LEMMA RetryKept ==
  ASSUME NEW row \in Rows
  PROVE  /\ \A d \in Daemons : ClaimedBy(row, d).retry = row.retry
         /\ Heartbeaten(row).retry = row.retry
         /\ \A d \in Daemons, s \in Statuses : HeldAs(row, s, d).retry = row.retry
         /\ \A s \in Statuses, e \in Errors \cup {NoError} : ReleasedAs(row, s, e).retry = row.retry
         /\ \A s \in Statuses : DeadLetteredAs(row, s).retry = row.retry
         /\ \A n \in Nat : RequeuedForRetry(row, n).retry = n
         /\ CancelledRow(row).retry = row.retry
         /\ RetriedRow(row).retry = row.retry
         /\ ReclaimedRow(row).retry = row.retry
         /\ [row EXCEPT !.lease = "expired"].retry = row.retry
         /\ [row EXCEPT !.backoff = FALSE].retry = row.retry
  BY DEF Rows, ClaimedBy, Heartbeaten, HeldAs, ReleasedAs, DeadLetteredAs, RequeuedForRetry,
         CancelledRow, RetriedRow, ReclaimedRow

LEMMA RetryWrite ==
  ASSUME TypeInv, RetryInv, NEW t \in Tasks, NEW row \in Rows, Write(t, row),
         row.retry <= MaxRetries
  PROVE  RetryBound'
  BY DEF TypeInv, TypeOK, RetryInv, RetryBound, Write

\* A worker or scheduler step keeps the retry count of lastExecutedTask.
LEMMA RetryOutcome ==
  ASSUME TypeInv, RetryInv, NEW d \in Daemons, pc[d] # "idle",
         NEW status, NEW error, Outcome(d, status, error)
  PROVE  \A c \in Daemons : pc[c] # "idle" => last'[c].retry <= MaxRetries
  BY DEF TypeInv, TypeOK, Busy, RetryInv, Outcome, Outcomes

LEMMA RetryInductive == TypeInv /\ RetryInv /\ [Next]_vars => RetryInv'
  <1> SUFFICES ASSUME TypeInv, RetryInv, [Next]_vars PROVE RetryInv'
    OBVIOUS
  <1>t. TypeInv'
    BY TypeInductive
  <1>0. \A t \in Tasks : rows[t] \in Rows /\ rows[t].retry \in Nat /\ rows[t].retry <= MaxRetries
    BY DEF Rows, TypeInv, TypeOK, RetryInv, RetryBound
  <1>a. \A d \in Daemons : pc[d] # "idle" =>
          last[d].id \in Tasks /\ last[d].retry \in Nat /\ last[d].retry <= MaxRetries
    BY DEF TypeInv, TypeOK, Busy, Outcomes, RetryInv
  <1>b. \A r \in Reapers : \A s \in batch[r] :
          s.id \in Tasks /\ s.retry \in Nat /\ s.retry <= MaxRetries
    BY DEF TypeInv, TypeOK, Snapshots, RetryInv
  <1>c. /\ pc \in [Daemons -> {"idle", "claimed", "outcome", "deadLetter"} \cup Executing]
        /\ last \in [Daemons -> Outcomes \cup {NoTask}]
        /\ batch \in [Reapers -> SUBSET Snapshots]
    BY DEF TypeInv, TypeOK
  <1>s. /\ {"RUNNING", "TESTING", "FAILED", "BLOCKED", "COMPLETED", "QUARANTINED"} \subseteq Statuses
        /\ {} \in Errors /\ {"governance"} \in Errors
    BY RepositoryAssumption DEF Statuses, Active, Settled
  <1>1. ASSUME NEW d \in Daemons, Claim(d) \/ DaemonAttempt(d) PROVE RetryInv'
    <2>1. CASE Claim(d)
      <3>1. PICK t \in Tasks :
              /\ Write(t, ClaimedBy(rows[t], d))
              /\ last' = [last EXCEPT ![d] = [id |-> t, retry |-> rows[t].retry,
                                              error |-> rows[t].error, status |-> "ASSIGNED"]]
        BY <2>1 DEF Claim
      <3>2. RetryBound'
        <4>1. ClaimedBy(rows[t], d) \in Rows /\ ClaimedBy(rows[t], d).retry = rows[t].retry
          BY <1>0, RowOperations, RetryKept
        <4> QED BY <1>0, <3>1, <4>1, RetryWrite
      <3>3. \A c \in Daemons : pc'[c] # "idle" => last'[c].retry <= MaxRetries
        BY <1>0, <1>a, <1>c, <2>1, <3>1 DEF Claim, Goto
      <3> QED BY <2>1, <3>2, <3>3 DEF RetryInv, Claim, reaperVars
    <2>2. CASE GateBDenied(d) \/ RecordResult(d) \/ AttemptThrows(d)
      <3>0. pc[d] # "idle"
        BY <2>2 DEF GateBDenied, RecordResult, AttemptThrows, Executing
      <3>1. PICK s \in {"FAILED", "BLOCKED", "COMPLETED"}, e \in Errors \cup {NoError} :
              Outcome(d, s, e) /\ Write(Attempt(d), ReleasedAs(rows[Attempt(d)], s, e))
        BY <1>s, <2>2 DEF GateBDenied, RecordResult, AttemptThrows
      <3>2. RetryBound'
        <4>1. Attempt(d) \in Tasks /\ rows[Attempt(d)] \in Rows /\ s \in Statuses
          BY <1>0, <1>a, <1>s, <3>0 DEF Attempt
        <4>2. /\ ReleasedAs(rows[Attempt(d)], s, e) \in Rows
              /\ ReleasedAs(rows[Attempt(d)], s, e).retry = rows[Attempt(d)].retry
          BY <4>1, RowOperations, RetryKept, ZenonT(60)
        <4> QED BY <1>0, <3>1, <4>1, <4>2, RetryWrite
      <3>3. \A c \in Daemons : pc[c] # "idle" => last'[c].retry <= MaxRetries
        BY <3>0, <3>1, RetryOutcome
      <3>4. \A c \in Daemons : pc'[c] # "idle" => pc[c] # "idle"
        BY <1>c, <2>2, <3>0 DEF GateBDenied, RecordResult, AttemptThrows, Goto
      <3>5. batch' = batch
        BY <2>2 DEF GateBDenied, RecordResult, AttemptThrows, reaperVars
      <3> QED BY <3>2, <3>3, <3>4, <3>5 DEF RetryInv
    <2>moves. CASE \/ StartRunning(d) \/ EnterTesting(d) \/ SpecRejected(d) \/ AgentFailed(d)
               \/ DeadLetter(d)
      <3>1. pc[d] # "idle" /\ last' = last /\ batch' = batch
        BY <2>moves DEF StartRunning, EnterTesting, SpecRejected, AgentFailed, DeadLetter, reaperVars
      <3>2. \A c \in Daemons : pc'[c] # "idle" => pc[c] # "idle"
        BY <1>c, <2>moves, <3>1 DEF StartRunning, EnterTesting, SpecRejected, AgentFailed,
                                DeadLetter, Goto
      <3>3. DeadLetterStatus(d) \in Statuses
        BY <1>s DEF DeadLetterStatus
      <3>4. RetryBound'
        <4>1. Attempt(d) \in Tasks /\ rows[Attempt(d)] \in Rows
          BY <1>0, <1>a, <3>1 DEF Attempt
        <4>2. \E row \in Rows : Write(Attempt(d), row) /\ row.retry = rows[Attempt(d)].retry
          <5>1. CASE StartRunning(d) \/ EnterTesting(d)
            <6>1. PICK s \in Statuses : Write(Attempt(d), HeldAs(rows[Attempt(d)], s, d))
              BY <1>s, <5>1 DEF StartRunning, EnterTesting
            <6>2. HeldAs(rows[Attempt(d)], s, d) \in Rows
              BY <4>1, RowOperations
            <6>3. HeldAs(rows[Attempt(d)], s, d).retry = rows[Attempt(d)].retry
              BY <4>1, RetryKept
            <6> QED BY <6>1, <6>2, <6>3
          <5>2. CASE SpecRejected(d) \/ AgentFailed(d)
            <6>1. PICK e \in Errors \cup {NoError} :
                    Write(Attempt(d), ReleasedAs(rows[Attempt(d)], "FAILED", e))
              BY <1>s, <5>2 DEF SpecRejected, AgentFailed
            <6>2. ReleasedAs(rows[Attempt(d)], "FAILED", e) \in Rows
              BY <1>s, <4>1, RowOperations
            <6>3. ReleasedAs(rows[Attempt(d)], "FAILED", e).retry = rows[Attempt(d)].retry
              BY <1>s, <4>1, RetryKept
            <6> QED BY <6>1, <6>2, <6>3
          <5>3. CASE DeadLetter(d)
            <6> DEFINE row == DeadLetteredAs(rows[Attempt(d)], DeadLetterStatus(d))
            <6>1. row \in Rows
              BY <3>3, <4>1, RowOperations
            <6>2. row.retry = rows[Attempt(d)].retry
              BY <3>3, <4>1, RetryKept
            <6>3. Write(Attempt(d), row)
              BY <5>3 DEF DeadLetter, Attempt
            <6> QED BY <6>1, <6>2, <6>3
          <5> QED BY <2>moves, <5>1, <5>2, <5>3
        <4> QED BY <1>0, <4>1, <4>2, RetryWrite
      <3> QED BY <3>1, <3>2, <3>4 DEF RetryInv
    <2>4. CASE Finalize(d) \/ Succeeded(d) \/ RecordDeadLetter(d)
      BY <1>c, <2>4 DEF Finalize, Succeeded, RecordDeadLetter, reaperVars, RetryInv, RetryBound, Goto
    <2>5. CASE ScheduleRetry(d)
      <3>1. last[d].id \in Tasks /\ last[d].retry + 1 \in Nat /\ last[d].retry + 1 <= MaxRetries
        BY <1>a, <2>5, RetryBelowLimit DEF ScheduleRetry, Decision
      <3>2. RetryBound'
        <4> DEFINE row == RequeuedForRetry(rows[last[d].id], last[d].retry + 1)
        <4>1. row \in Rows /\ row.retry = last[d].retry + 1
          BY <1>0, <3>1, RowOperations, RetryKept
        <4>2. Write(last[d].id, row)
          BY <2>5 DEF ScheduleRetry
        <4> HIDE DEF row
        <4> QED BY <3>1, <4>1, <4>2, RetryWrite
      <3> QED BY <1>c, <2>5, <3>2 DEF ScheduleRetry, reaperVars, RetryInv, Goto
    <2> QED BY <1>1, <2>1, <2>2, <2>moves, <2>4, <2>5 DEF DaemonAttempt
  <1>2. ASSUME NEW d \in Daemons, Heartbeat(d) PROVE RetryInv'
    <2>1. RetryBound'
      <3>1. Attempt(d) \in Tasks /\ rows[Attempt(d)] \in Rows
        BY <1>0, <1>a, <1>2 DEF Heartbeat, Executing, Attempt
      <3>2. /\ Heartbeaten(rows[Attempt(d)]) \in Rows
            /\ Heartbeaten(rows[Attempt(d)]).retry = rows[Attempt(d)].retry
        BY <3>1, RowOperations, RetryKept
      <3> QED BY <1>0, <1>2, <3>1, <3>2, RetryWrite DEF Heartbeat
    <2> QED BY <1>2, <2>1 DEF Heartbeat, daemonVars, reaperVars, RetryInv
  <1>3. ASSUME NEW d \in Daemons, Crash(d) PROVE RetryInv'
    BY <1>c, <1>3 DEF Crash, Goto, RetryInv, RetryBound
  <1>4. ASSUME NEW r \in Reapers, ReaperStep(r) PROVE RetryInv'
    <2>1. CASE ReaperFind(r)
      BY <1>0, <1>c, <2>1 DEF ReaperFind, Snapshot, daemonVars, RetryInv, RetryBound
    <2>2. CASE ReaperRecover(r)
      <3>1. PICK s \in batch[r] :
              /\ batch' = [batch EXCEPT ![r] = @ \ {s}]
              /\ Write(s.id, Recovered(s, rows[s.id])) \/ UNCHANGED rows
        BY <2>2 DEF ReaperRecover
      <3>2. RetryBound'
        <4>1. CASE UNCHANGED rows
          BY <4>1 DEF RetryInv, RetryBound
        <4>2. CASE Write(s.id, Recovered(s, rows[s.id]))
          <5>1. rows[s.id] \in Rows /\ s.retry + 1 \in Nat /\ s.id \in Tasks
            BY <1>0, <1>b
          <5>2. CASE ReaperDecision(s) = "RETRY"
            <6>1. s.retry + 1 <= MaxRetries
              BY <1>b, <5>2, RetryBelowLimit DEF ReaperDecision
            <6>2. /\ Recovered(s, rows[s.id]) \in Rows
                  /\ Recovered(s, rows[s.id]).retry = s.retry + 1
              BY <5>1, <5>2, RowOperations, RetryKept DEF Recovered
            <6> QED BY <4>2, <5>1, <6>1, <6>2, RetryWrite
          <5>3. CASE ReaperDecision(s) # "RETRY"
            <6>1. PICK st \in Statuses : Recovered(s, rows[s.id]) = DeadLetteredAs(rows[s.id], st)
              BY <1>s, <5>3 DEF Recovered
            <6>2. DeadLetteredAs(rows[s.id], st) \in Rows
              BY <5>1, RowOperations
            <6>3. DeadLetteredAs(rows[s.id], st).retry = rows[s.id].retry
              BY <5>1, RetryKept
            <6> QED BY <1>0, <4>2, <5>1, <6>1, <6>2, <6>3, RetryWrite
          <5> QED BY <5>2, <5>3
        <4> QED BY <3>1, <4>1, <4>2
      <3> QED BY <1>c, <2>2, <3>1, <3>2 DEF ReaperRecover, daemonVars, RetryInv
    <2>3. CASE ReaperSkip(r) \/ ReaperRecordDeadLetter(r)
      BY <1>c, <2>3 DEF ReaperSkip, ReaperRecordDeadLetter, daemonVars, RetryInv, RetryBound
    <2> QED BY <1>4, <2>1, <2>2, <2>3 DEF ReaperStep
  <1>5. ASSUME NEW t \in Tasks, TaskStep(t) PROVE RetryInv'
    <2>1. PICK row \in Rows : Write(t, row) /\ (row.retry = rows[t].retry \/ row.retry = 0)
      <3>1. CreatedRow \in Rows /\ CreatedRow.retry = 0
        BY DEF CreatedRow, AbsentRow, Rows, Statuses, Leases
      <3> QED BY <1>0, <1>5, <3>1, RowOperations, RetryKept
              DEF TaskStep, Create, Cancel, Retry, Operate, LeaseExpires,
                  AbandonedLeaseExpires, Lapse, BackoffElapses
    <2>2. RetryBound'
      BY <1>0, <2>1, RetryWrite, RetryConfigAssumption
    <2>3. UNCHANGED << pc, last, batch >>
      BY <1>5 DEF TaskStep, Create, Cancel, Retry, Operate, LeaseExpires,
                  AbandonedLeaseExpires, BackoffElapses, daemonVars, reaperVars
    <2> QED BY <2>2, <2>3 DEF RetryInv
  <1>6. CASE ReclaimStuck
    BY <1>0, <1>6, RetryKept DEF ReclaimStuck, daemonVars, reaperVars, RetryInv, RetryBound
  <1>7. CASE UNCHANGED vars
    BY <1>7 DEF vars, daemonVars, reaperVars, RetryInv, RetryBound
  <1> QED BY <1>1, <1>2, <1>3, <1>4, <1>5, <1>6, <1>7 DEF Next, DaemonStep

\* However daemons, reapers, operators and crashes interleave, and however old
\* the snapshots they decide on, no task is retried more than max_retries times.
THEOREM RetriesBounded == Spec => []RetryBound
  <1>1. Init => RetryInv
    BY RetryConfigAssumption DEF Init, RetryInv, RetryBound, AbsentRow
  <1>2. TypeInv /\ RetryInv /\ [Next]_vars => (TypeInv /\ RetryInv)'
    BY TypeInductive, RetryInductive
  <1>3. RetryInv => RetryBound
    BY DEF RetryInv
  <1> QED BY <1>1, <1>2, <1>3, TypeInitial, PTL DEF Spec

-----------------------------------------------------------------------------
(* A task belongs to one daemon until its lease runs out *)

LeaseInv ==
  /\ \A t \in Tasks : t \notin lapsed => ~ Expired(rows[t])
  /\ ExclusiveWhileLeased
  /\ OwnershipWhileLeased

\* A busy daemon writes the row of its own attempt and moves on to label.
LEMMA LeaseOwnerStep ==
  ASSUME TypeInv, LeaseInv, NEW d \in Daemons, pc[d] # "idle", NEW label, NEW row,
         rows' = [rows EXCEPT ![Attempt(d)] = row],
         Attempt(d) \notin lapsed => ~ Expired(row),
         pc' = [pc EXCEPT ![d] = label],
         lapsed' = lapsed,
         \A c \in Daemons : c # d => last'[c] = last[c],
         label # "idle" => /\ last'[d].id = last[d].id
                           /\ last'[d].retry = last[d].retry
                           /\ Attempt(d) \notin lapsed => OwnedAs(d, label, last[d].retry, row)
  PROVE  LeaseInv'
  <1> DEFINE t == Attempt(d)
  <1>1. t \in Tasks
    BY DEF TypeInv, Busy, Outcomes, Attempt
  <1>2. /\ rows \in [Tasks -> Rows]
        /\ pc \in [Daemons -> {"idle", "claimed", "outcome", "deadLetter"} \cup Executing]
    BY DEF TypeInv, TypeOK
  <1>3. /\ rows'[t] = row
        /\ \A u \in Tasks : u # t => rows'[u] = rows[u]
        /\ pc'[d] = label
        /\ \A c \in Daemons : c # d => pc'[c] = pc[c]
    BY <1>1, <1>2
  <1>4. \A c \in Daemons : pc'[c] # "idle" =>
          /\ pc[c] # "idle"
          /\ last'[c].id = last[c].id
          /\ last'[c].retry = last[c].retry
    BY <1>3
  <1>5. (\A u \in Tasks : u \notin lapsed => ~ Expired(rows[u]))'
    BY <1>1, <1>3 DEF LeaseInv, Expired
  <1>6. ExclusiveWhileLeased'
    BY <1>4 DEF LeaseInv, ExclusiveWhileLeased, Attempt
  <1>7. ASSUME NEW c \in Daemons, pc'[c] # "idle", last'[c].id \notin lapsed
        PROVE  OwnedAs(c, pc'[c], last'[c].retry, rows'[last'[c].id])
    <2>1. last'[c].id = last[c].id /\ last'[c].retry = last[c].retry /\ pc[c] # "idle"
      BY <1>4, <1>7
    <2>2. CASE c = d
      BY <1>3, <1>7, <2>1, <2>2 DEF Attempt
    <2>3. CASE c # d
      <3>1. last[c].id \in Tasks
        BY <2>1 DEF TypeInv, Busy, Outcomes
      <3>2. last[c].id # t
        BY <1>7, <2>1, <2>3 DEF LeaseInv, ExclusiveWhileLeased, Attempt
      <3>3. OwnedAs(c, pc[c], last[c].retry, rows[last[c].id])
        BY <1>7, <2>1 DEF LeaseInv, OwnershipWhileLeased, Attempt
      <3> QED BY <1>3, <2>1, <2>3, <3>1, <3>2, <3>3
    <2> QED BY <2>2, <2>3
  <1>8. OwnershipWhileLeased'
    BY <1>7 DEF OwnershipWhileLeased, Attempt
  <1> QED BY <1>5, <1>6, <1>8 DEF LeaseInv

\* A row whose lease has run out, or that is nobody's attempt, may be written
\* by anyone.
LEMMA LeaseOtherStep ==
  ASSUME TypeInv, LeaseInv, NEW t \in Tasks, NEW row,
         rows' = [rows EXCEPT ![t] = row],
         lapsed' = lapsed \/ lapsed' = lapsed \cup {t},
         UNCHANGED << pc, last >>,
         t \in lapsed' \/ (/\ ~ Expired(row)
                           /\ \A d \in Daemons : pc[d] # "idle" => Attempt(d) # t)
  PROVE  LeaseInv'
  <1>1. \A u \in Tasks : u # t => rows'[u] = rows[u]
    BY DEF TypeInv, TypeOK
  <1>2. rows'[t] = row
    BY DEF TypeInv, TypeOK
  <1>3. \A u : u \notin lapsed' => u \notin lapsed
    OBVIOUS
  <1>4. (\A u \in Tasks : u \notin lapsed => ~ Expired(rows[u]))'
    BY <1>1, <1>2, <1>3 DEF LeaseInv, Expired
  <1>5. ExclusiveWhileLeased'
    BY <1>3 DEF LeaseInv, ExclusiveWhileLeased, Attempt
  <1>6. ASSUME NEW d \in Daemons, pc[d] # "idle", Attempt(d) \notin lapsed'
        PROVE  OwnedAs(d, pc[d], last[d].retry, rows'[Attempt(d)])
    <2>1. Attempt(d) # t /\ Attempt(d) \in Tasks
      BY <1>6 DEF TypeInv, Busy, Outcomes, Attempt
    <2>2. OwnedAs(d, pc[d], last[d].retry, rows[Attempt(d)])
      BY <1>3, <1>6 DEF LeaseInv, OwnershipWhileLeased
    <2> QED BY <1>1, <2>1, <2>2
  <1>7. OwnershipWhileLeased'
    BY <1>6 DEF OwnershipWhileLeased, Attempt
  <1> QED BY <1>4, <1>5, <1>7 DEF LeaseInv

\* What each update leaves of the row of an attempt.
LEMMA OwnedRows ==
  ASSUME NEW row \in Rows, NEW d
  PROVE  /\ ~ Expired(HeldAs(row, "RUNNING", d))
         /\ OwnedAs(d, "running", row.retry, HeldAs(row, "RUNNING", d))
         /\ ~ Expired(HeldAs(row, "TESTING", d))
         /\ OwnedAs(d, "testing", row.retry, HeldAs(row, "TESTING", d))
         /\ \A e : \A s \in {"COMPLETED", "FAILED", "BLOCKED"} :
              /\ ~ Expired(ReleasedAs(row, s, e))
              /\ OwnedAs(d, "outcome", row.retry, ReleasedAs(row, s, e))
         /\ \A n : ~ Expired(RequeuedForRetry(row, n))
         /\ \A s \in {"QUARANTINED", "FAILED", "BLOCKED"} :
              /\ ~ Expired(DeadLetteredAs(row, s))
              /\ OwnedAs(d, "deadLetter", row.retry, DeadLetteredAs(row, s))
  BY DEF Rows, Expired, HeldAs, ReleasedAs, RequeuedForRetry, DeadLetteredAs, OwnedAs,
         Executing, Settled

\* lastExecutedTask keeps its id and its retry count.
LEMMA OutcomeKeeps ==
  ASSUME TypeInv, NEW d \in Daemons, pc[d] # "idle",
         NEW status, NEW error, Outcome(d, status, error)
  PROVE  /\ \A c \in Daemons : c # d => last'[c] = last[c]
         /\ last'[d].id = last[d].id
         /\ last'[d].retry = last[d].retry
  BY DEF TypeInv, TypeOK, Busy, Outcomes, Outcome

LEMMA LeaseDaemon ==
  ASSUME TypeInv, LeaseInv, NEW d \in Daemons, DaemonStep(d)
  PROVE  LeaseInv'
  <1> DEFINE t == Attempt(d)
  <1>0. pc[d] # "idle" =>
          /\ t \in Tasks /\ rows[t] \in Rows
          /\ t \notin lapsed => OwnedAs(d, pc[d], last[d].retry, rows[t])
          /\ t \notin lapsed => rows[t].retry = last[d].retry
    BY DEF TypeInv, TypeOK, Busy, Outcomes, Attempt, LeaseInv, OwnershipWhileLeased, OwnedAs
  <1>a. /\ rows \in [Tasks -> Rows]
        /\ pc \in [Daemons -> {"idle", "claimed", "outcome", "deadLetter"} \cup Executing]
        /\ last \in [Daemons -> Outcomes \cup {NoTask}]
    BY DEF TypeInv, TypeOK
  <1>1. CASE Claim(d)
    <2>1. PICK u \in Tasks :
            /\ Claimable(rows, u)
            /\ rows' = [rows EXCEPT ![u] = ClaimedBy(rows[u], d)]
            /\ last' = [last EXCEPT ![d] = [id |-> u, retry |-> rows[u].retry,
                                            error |-> rows[u].error, status |-> "ASSIGNED"]]
      BY <1>1 DEF Claim, Write
    <2>2. pc[d] = "idle" /\ pc' = [pc EXCEPT ![d] = "claimed"] /\ lapsed' = lapsed
      BY <1>1 DEF Claim, Goto
    <2>3. /\ ~ Expired(ClaimedBy(rows[u], d))
          /\ OwnedAs(d, "claimed", rows[u].retry, ClaimedBy(rows[u], d))
      BY <1>a DEF Rows, Expired, ClaimedBy, OwnedAs, Executing
    <2>4. u \notin lapsed => \A c \in Daemons : pc[c] # "idle" => last[c].id # u
      <3>1. u \notin lapsed => rows[u].status = "QUEUED"
        BY <2>1 DEF Claimable, LeaseInv
      <3> QED BY <1>a, <3>1 DEF LeaseInv, OwnershipWhileLeased, OwnedAs, Attempt, Settled, Executing
    <2>5. /\ last'[d].id = u /\ last'[d].retry = rows[u].retry /\ pc'[d] = "claimed"
          /\ \A c \in Daemons : c # d => last'[c] = last[c] /\ pc'[c] = pc[c]
          /\ rows'[u] = ClaimedBy(rows[u], d)
          /\ \A v \in Tasks : v # u => rows'[v] = rows[v]
      BY <1>a, <2>1, <2>2
    <2>6. (\A v \in Tasks : v \notin lapsed => ~ Expired(rows[v]))'
      BY <2>2, <2>3, <2>5 DEF LeaseInv, Expired
    <2>7. ExclusiveWhileLeased'
      BY <2>2, <2>4, <2>5 DEF LeaseInv, ExclusiveWhileLeased, Attempt
    <2>8. ASSUME NEW c \in Daemons, pc'[c] # "idle", last'[c].id \notin lapsed
          PROVE  OwnedAs(c, pc'[c], last'[c].retry, rows'[last'[c].id])
      <3>1. CASE c = d
        BY <2>3, <2>5, <3>1
      <3>2. CASE c # d
        <4>1. pc[c] # "idle" /\ last[c].id \notin lapsed /\ last'[c] = last[c] /\ pc'[c] = pc[c]
          BY <2>5, <2>8, <3>2
        <4>2. last[c].id \in Tasks /\ last[c].id # u
          BY <2>4, <4>1 DEF TypeInv, Busy, Outcomes
        <4>3. OwnedAs(c, pc[c], last[c].retry, rows[last[c].id])
          BY <4>1 DEF LeaseInv, OwnershipWhileLeased, Attempt
        <4> QED BY <2>5, <4>1, <4>2, <4>3
      <3> QED BY <3>1, <3>2
    <2>9. OwnershipWhileLeased'
      BY <2>2, <2>8 DEF OwnershipWhileLeased, Attempt
    <2> QED BY <2>6, <2>7, <2>9 DEF LeaseInv
  <1>2. CASE GateBDenied(d) \/ RecordResult(d) \/ AttemptThrows(d)
    <2>1. pc[d] # "idle" /\ lapsed' = lapsed /\ pc' = [pc EXCEPT ![d] = "outcome"]
      BY <1>2 DEF GateBDenied, RecordResult, AttemptThrows, Executing, Goto
    <2>2. PICK s \in {"COMPLETED", "FAILED", "BLOCKED"}, e \in Errors \cup {NoError} :
            Outcome(d, s, e) /\ rows' = [rows EXCEPT ![t] = ReleasedAs(rows[t], s, e)]
      BY <1>2, RepositoryAssumption DEF GateBDenied, RecordResult, AttemptThrows, Write
    <2>lease. /\ ~ Expired(ReleasedAs(rows[t], s, e))
          /\ OwnedAs(d, "outcome", rows[t].retry, ReleasedAs(rows[t], s, e))
      BY <1>0, <2>1, OwnedRows
    <2>4. /\ \A c \in Daemons : c # d => last'[c] = last[c]
          /\ last'[d].id = last[d].id /\ last'[d].retry = last[d].retry
      BY <2>1, <2>2, OutcomeKeeps
    <2> QED BY <1>0, <2>1, <2>2, <2>lease, <2>4, LeaseOwnerStep
  <1>3. CASE SpecRejected(d) \/ AgentFailed(d)
    <2>1. pc[d] # "idle" /\ lapsed' = lapsed /\ last' = last /\ pc' = [pc EXCEPT ![d] = "outcome"]
      BY <1>3 DEF SpecRejected, AgentFailed, Goto
    <2>2. PICK e : rows' = [rows EXCEPT ![t] = ReleasedAs(rows[t], "FAILED", e)]
      BY <1>3 DEF SpecRejected, AgentFailed, Write
    <2>3. /\ ~ Expired(ReleasedAs(rows[t], "FAILED", e))
          /\ OwnedAs(d, "outcome", rows[t].retry, ReleasedAs(rows[t], "FAILED", e))
      BY <1>0, <2>1, OwnedRows
    <2> QED BY <1>0, <2>1, <2>2, <2>3, LeaseOwnerStep
  <1>4. CASE StartRunning(d)
    <2>1. /\ pc[d] # "idle" /\ lapsed' = lapsed /\ last' = last
          /\ pc' = [pc EXCEPT ![d] = "running"]
          /\ rows' = [rows EXCEPT ![t] = HeldAs(rows[t], "RUNNING", d)]
      BY <1>4 DEF StartRunning, Goto, Write
    <2>2. /\ ~ Expired(HeldAs(rows[t], "RUNNING", d))
          /\ OwnedAs(d, "running", rows[t].retry, HeldAs(rows[t], "RUNNING", d))
      BY <1>0, <2>1, OwnedRows
    <2> QED BY <1>0, <2>1, <2>2, LeaseOwnerStep
  <1>5. CASE EnterTesting(d)
    <2>1. /\ pc[d] # "idle" /\ lapsed' = lapsed /\ last' = last
          /\ pc' = [pc EXCEPT ![d] = "testing"]
          /\ rows' = [rows EXCEPT ![t] = HeldAs(rows[t], "TESTING", d)]
      BY <1>5 DEF EnterTesting, Goto, Write
    <2>2. /\ ~ Expired(HeldAs(rows[t], "TESTING", d))
          /\ OwnedAs(d, "testing", rows[t].retry, HeldAs(rows[t], "TESTING", d))
      BY <1>0, <2>1, OwnedRows
    <2> QED BY <1>0, <2>1, <2>2, LeaseOwnerStep
  <1>6. CASE Finalize(d)
    <2>1. /\ pc[d] = "testing" /\ lapsed' = lapsed /\ last' = last
          /\ pc' = [pc EXCEPT ![d] = "persisting"] /\ rows' = rows
      BY <1>6 DEF Finalize, Goto
    <2>2. rows' = [rows EXCEPT ![t] = rows[t]]
      BY <1>a, <2>1
    <2>3. t \notin lapsed => ~ Expired(rows[t]) /\ OwnedAs(d, "persisting", last[d].retry, rows[t])
      BY <1>0, <2>1 DEF LeaseInv, OwnedAs, Executing
    <2> QED BY <2>1, <2>2, <2>3, LeaseOwnerStep
  <1>7. CASE Heartbeat(d)
    <2>1. /\ pc[d] \in Executing /\ pc[d] # "idle" /\ lapsed' = lapsed /\ last' = last /\ pc' = pc
          /\ rows' = [rows EXCEPT ![t] = Heartbeaten(rows[t])]
      BY <1>7 DEF Heartbeat, daemonVars, Write, Executing
    <2>2. pc' = [pc EXCEPT ![d] = pc[d]]
      BY <1>a, <2>1
    <2>3. /\ t \notin lapsed => ~ Expired(Heartbeaten(rows[t]))
          /\ t \notin lapsed => OwnedAs(d, pc[d], last[d].retry, Heartbeaten(rows[t]))
      BY <1>0, <2>1 DEF LeaseInv, Rows, Heartbeaten, Expired, OwnedAs, Executing
    <2> QED BY <2>1, <2>2, <2>3, LeaseOwnerStep
  <1>8. CASE DeadLetter(d)
    <2> DEFINE s == DeadLetterStatus(d)
    <2>1. /\ pc[d] # "idle" /\ lapsed' = lapsed /\ last' = last
          /\ pc' = [pc EXCEPT ![d] = "deadLetter"]
          /\ rows' = [rows EXCEPT ![t] = DeadLetteredAs(rows[t], s)]
      BY <1>8 DEF DeadLetter, Goto, Write, Attempt
    <2>2. s \in {"QUARANTINED", "FAILED", "BLOCKED"}
      BY DEF DeadLetterStatus
    <2> HIDE DEF s
    <2>3. /\ ~ Expired(DeadLetteredAs(rows[t], s))
          /\ OwnedAs(d, "deadLetter", rows[t].retry, DeadLetteredAs(rows[t], s))
      BY <1>0, <2>1, <2>2, OwnedRows
    <2> QED BY <1>0, <2>1, <2>3, LeaseOwnerStep
  <1>9. CASE ScheduleRetry(d)
    <2>1. /\ pc[d] # "idle" /\ lapsed' = lapsed
          /\ pc' = [pc EXCEPT ![d] = "idle"]
          /\ last' = [last EXCEPT ![d] = NoTask]
          /\ rows' = [rows EXCEPT ![t] = RequeuedForRetry(rows[t], last[d].retry + 1)]
      BY <1>9 DEF ScheduleRetry, Goto, Write, Attempt
    <2>2. ~ Expired(RequeuedForRetry(rows[t], last[d].retry + 1))
      BY <1>0, <2>1, OwnedRows
    <2>3. \A c \in Daemons : c # d => last'[c] = last[c]
      BY <1>a, <2>1
    <2> QED BY <2>1, <2>2, <2>3, LeaseOwnerStep
  <1>10. CASE Succeeded(d) \/ RecordDeadLetter(d) \/ Crash(d)
    <2>1. /\ lapsed' = lapsed /\ rows' = rows
          /\ pc' = [pc EXCEPT ![d] = "idle"]
          /\ last' = [last EXCEPT ![d] = NoTask]
      BY <1>10 DEF Succeeded, RecordDeadLetter, Crash, Goto
    <2>2. \A c \in Daemons : pc'[c] # "idle" => last'[c] = last[c] /\ pc'[c] = pc[c]
      BY <1>a, <2>1
    <2> QED BY <2>1, <2>2 DEF LeaseInv, ExclusiveWhileLeased, OwnershipWhileLeased, Attempt
  <1> QED BY <1>1, <1>2, <1>3, <1>4, <1>5, <1>6, <1>7, <1>8, <1>9, <1>10
          DEF DaemonStep, DaemonAttempt

LEMMA LeaseInductive == TypeInv /\ LeaseInv /\ [Next]_vars => LeaseInv'
  <1> SUFFICES ASSUME TypeInv, LeaseInv, [Next]_vars PROVE LeaseInv'
    OBVIOUS
  <1>0. rows \in [Tasks -> Rows]
    BY DEF TypeInv, TypeOK
  <1>1. ASSUME NEW r \in Reapers, ReaperStep(r) PROVE LeaseInv'
    <2>1. UNCHANGED << pc, last, lapsed >>
      BY <1>1 DEF ReaperStep, ReaperFind, ReaperRecover, ReaperSkip, ReaperRecordDeadLetter,
                  daemonVars
    <2>2. CASE UNCHANGED rows
      BY <2>1, <2>2 DEF LeaseInv, ExclusiveWhileLeased, OwnershipWhileLeased, Attempt
    <2>3. CASE ReaperRecover(r) /\ rows' # rows
      <3>1. PICK s \in batch[r] :
              /\ RecoveryApplies(r, s)
              /\ Write(s.id, Recovered(s, rows[s.id]))
        BY <2>3 DEF ReaperRecover
      <3>2. s.id \in Tasks
        BY DEF TypeInv, TypeOK, Snapshots
      <3>3. s.id \in lapsed
        BY <3>1, <3>2 DEF RecoveryApplies, Recoverable, LeaseInv
      <3>4. rows' = [rows EXCEPT ![s.id] = Recovered(s, rows[s.id])]
        BY <3>1 DEF Write
      <3> QED BY <2>1, <3>2, <3>3, <3>4, LeaseOtherStep
    <2> QED BY <1>1, <2>2, <2>3 DEF ReaperStep, ReaperFind, ReaperSkip, ReaperRecordDeadLetter
  <1>2. ASSUME NEW t \in Tasks, TaskStep(t) PROVE LeaseInv'
    <2>1. UNCHANGED << pc, last >>
      BY <1>2 DEF TaskStep, Create, Cancel, Retry, Operate, LeaseExpires, AbandonedLeaseExpires,
                  BackoffElapses, daemonVars
    <2>2. CASE Create(t)
      <3>1. /\ rows' = [rows EXCEPT ![t] = CreatedRow] /\ lapsed' = lapsed
            /\ rows[t].status = "ABSENT"
        BY <2>2 DEF Create, Write
      <3>2. ~ Expired(CreatedRow)
        BY DEF Expired, CreatedRow, AbsentRow
      <3>3. t \in lapsed \/ \A d \in Daemons : pc[d] # "idle" => Attempt(d) # t
        BY <3>1 DEF LeaseInv, OwnershipWhileLeased, OwnedAs, Settled, Executing, TypeInv, TypeOK
      <3> QED BY <2>1, <3>1, <3>2, <3>3, LeaseOtherStep
    <2>3. CASE Cancel(t) \/ Retry(t) \/ LeaseExpires(t) \/ AbandonedLeaseExpires(t)
      <3>1. lapsed' = lapsed \cup {t} /\ \E row : rows' = [rows EXCEPT ![t] = row]
        BY <2>3 DEF Cancel, Retry, Operate, LeaseExpires, AbandonedLeaseExpires, Lapse, Write
      <3> QED BY <2>1, <3>1, LeaseOtherStep
    <2>4. CASE BackoffElapses(t)
      <3> DEFINE row == [rows[t] EXCEPT !.backoff = FALSE]
      <3>1. rows' = [rows EXCEPT ![t] = row] /\ lapsed' = lapsed
        BY <2>4 DEF BackoffElapses, Write
      <3>2. /\ row.status = rows[t].status /\ row.owner = rows[t].owner
            /\ row.lease = rows[t].lease /\ row.retry = rows[t].retry
        BY <1>0 DEF Rows
      <3> HIDE DEF row
      <3>3. /\ \A u \in Tasks : u # t => rows'[u] = rows[u]
            /\ rows'[t] = row
        BY <1>0, <3>1
      <3>4. \A u \in Tasks : Expired(rows'[u]) <=> Expired(rows[u])
        BY <3>2, <3>3 DEF Expired
      <3>5. \A u \in Tasks : \A d, label, n :
              OwnedAs(d, label, n, rows[u]) => OwnedAs(d, label, n, rows'[u])
        BY <3>2, <3>3 DEF OwnedAs
      <3>6. \A d \in Daemons : pc[d] # "idle" => Attempt(d) \in Tasks
        BY DEF TypeInv, Busy, Outcomes, Attempt
      <3>7. (\A u \in Tasks : u \notin lapsed => ~ Expired(rows[u]))'
        BY <3>1, <3>4 DEF LeaseInv, Expired
      <3>8. ExclusiveWhileLeased'
        BY <2>1, <3>1 DEF LeaseInv, ExclusiveWhileLeased, Attempt
      <3>9. OwnershipWhileLeased'
        BY <2>1, <3>1, <3>5, <3>6 DEF LeaseInv, OwnershipWhileLeased, Attempt
      <3> QED BY <3>7, <3>8, <3>9 DEF LeaseInv
    <2> QED BY <1>2, <2>2, <2>3, <2>4 DEF TaskStep
  <1>3. CASE ReclaimStuck
    <2>1. UNCHANGED << pc, last, lapsed >> /\ rows' = [t \in Tasks |-> ReclaimedRow(rows[t])]
      BY <1>3 DEF ReclaimStuck, daemonVars
    <2>2. \A t \in Tasks : t \notin lapsed => rows'[t] = rows[t]
      BY <2>1 DEF LeaseInv, ReclaimedRow
    <2>3. \A d \in Daemons : pc[d] # "idle" => Attempt(d) \in Tasks
      BY DEF TypeInv, Busy, Outcomes, Attempt
    <2>4. (\A u \in Tasks : u \notin lapsed => ~ Expired(rows[u]))'
      BY <2>1, <2>2 DEF LeaseInv, Expired
    <2>5. ExclusiveWhileLeased'
      BY <2>1 DEF LeaseInv, ExclusiveWhileLeased, Attempt
    <2>6. OwnershipWhileLeased'
      BY <2>1, <2>2, <2>3 DEF LeaseInv, OwnershipWhileLeased, Attempt
    <2> QED BY <2>4, <2>5, <2>6 DEF LeaseInv
  <1>4. CASE UNCHANGED vars
    BY <1>4 DEF vars, daemonVars, LeaseInv, ExclusiveWhileLeased, OwnershipWhileLeased,
                Attempt, Expired
  <1> QED BY <1>1, <1>2, <1>3, <1>4, LeaseDaemon DEF Next

LEMMA LeaseInitial == Init => LeaseInv
  BY DEF Init, LeaseInv, ExclusiveWhileLeased, OwnershipWhileLeased, AbsentRow, Expired

\* claim() gives a task to one daemon at a time, for any number of daemons,
\* reapers and crashes, as long as its lease has not run out and no operator
\* has cancelled or retried it.
THEOREM LeaseIsExclusive == Spec => []ExclusiveWhileLeased
  <1>1. LeaseInv => ExclusiveWhileLeased
    BY DEF LeaseInv
  <1> QED BY <1>1, TypeInitial, LeaseInitial, TypeInductive, LeaseInductive, PTL DEF Spec

\* Under the same condition the row belongs to the daemon that executes it, and
\* nobody else changes its status or its retry count.
THEOREM LeaseIsOwned == Spec => []OwnershipWhileLeased
  <1>1. LeaseInv => OwnershipWhileLeased
    BY DEF LeaseInv
  <1> QED BY <1>1, TypeInitial, LeaseInitial, TypeInductive, LeaseInductive, PTL DEF Spec

-----------------------------------------------------------------------------
(* A recovery is decided on the current row *)

RecoveryInv ==
  \A r \in Reapers : \A s \in batch[r] :
    s.id \in overdue[r] => rows[s.id].retry = s.retry /\ rows[s.id].error = s.error

\* Every update that changes the retry count or the error clears the lease.
LEMMA RecoveryWrite ==
  ASSUME TypeInv, RecoveryInv, NEW t \in Tasks, NEW row, Write(t, row),
         Expired(row) => row.retry = rows[t].retry /\ row.error = rows[t].error,
         \A r \in Reapers : batch'[r] \subseteq batch[r]
  PROVE  RecoveryInv'
  <1> SUFFICES ASSUME NEW r \in Reapers, NEW s \in batch'[r], s.id \in overdue'[r]
               PROVE  rows'[s.id].retry = s.retry /\ rows'[s.id].error = s.error
    BY DEF RecoveryInv
  <1>1. s \in batch[r] /\ s.id \in Tasks /\ rows \in [Tasks -> Rows]
    BY DEF TypeInv, TypeOK, Snapshots
  <1>2. s.id \in overdue[r] /\ (s.id = t => Expired(row))
    BY DEF Write
  <1> QED BY <1>1, <1>2 DEF RecoveryInv, Write

\* The rows a write may leave expired.
LEMMA ExpiredRows ==
  ASSUME NEW row \in Rows
  PROVE  /\ \A d : ~ Expired(ClaimedBy(row, d))
         /\ \A d, s : ~ Expired(HeldAs(row, s, d))
         /\ \A s, e : ~ Expired(ReleasedAs(row, s, e))
         /\ \A n : ~ Expired(RequeuedForRetry(row, n))
         /\ \A s : ~ Expired(DeadLetteredAs(row, s))
         /\ ~ Expired(RetriedRow(row))
         /\ ~ Expired(CreatedRow)
         /\ Heartbeaten(row).retry = row.retry /\ Heartbeaten(row).error = row.error
         /\ CancelledRow(row).retry = row.retry /\ CancelledRow(row).error = row.error
         /\ ReclaimedRow(row).retry = row.retry /\ ReclaimedRow(row).error = row.error
         /\ [row EXCEPT !.lease = "expired"].retry = row.retry
         /\ [row EXCEPT !.lease = "expired"].error = row.error
         /\ [row EXCEPT !.backoff = FALSE].retry = row.retry
         /\ [row EXCEPT !.backoff = FALSE].error = row.error
  BY DEF Rows, Expired, ClaimedBy, HeldAs, ReleasedAs, RequeuedForRetry, DeadLetteredAs,
         RetriedRow, CreatedRow, AbsentRow, Heartbeaten, CancelledRow, ReclaimedRow

LEMMA RecoveryInductive == TypeInv /\ RecoveryInv /\ [Next]_vars => RecoveryInv'
  <1> SUFFICES ASSUME TypeInv, RecoveryInv, [Next]_vars PROVE RecoveryInv'
    OBVIOUS
  <1>0. /\ rows \in [Tasks -> Rows]
        /\ batch \in [Reapers -> SUBSET Snapshots]
        /\ overdue \in [Reapers -> SUBSET Tasks]
        /\ \A d \in Daemons : pc[d] # "idle" => Attempt(d) \in Tasks
    BY DEF TypeInv, TypeOK, Busy, Outcomes, Attempt
  <1>1. ASSUME NEW d \in Daemons, DaemonStep(d) PROVE RecoveryInv'
    <2>1. CASE Claim(d)
      <3>1. PICK t \in Tasks : Write(t, ClaimedBy(rows[t], d))
        BY <2>1 DEF Claim
      <3>2. ~ Expired(ClaimedBy(rows[t], d))
        BY <1>0, ExpiredRows
      <3> QED BY <2>1, <3>1, <3>2, RecoveryWrite DEF Claim, reaperVars
    <2>2. CASE \/ GateBDenied(d) \/ SpecRejected(d) \/ AgentFailed(d)
               \/ RecordResult(d) \/ AttemptThrows(d)
      <3>1. /\ Attempt(d) \in Tasks /\ batch' = batch
            /\ \E s, e : Write(Attempt(d), ReleasedAs(rows[Attempt(d)], s, e))
        BY <1>0, <2>2 DEF GateBDenied, SpecRejected, AgentFailed, RecordResult, AttemptThrows,
                          Executing, reaperVars
      <3>2. PICK s, e : Write(Attempt(d), ReleasedAs(rows[Attempt(d)], s, e))
        BY <3>1
      <3>3. ~ Expired(ReleasedAs(rows[Attempt(d)], s, e))
        BY <1>0, <3>1, ExpiredRows
      <3> QED BY <3>1, <3>2, <3>3, RecoveryWrite
    <2>runs. CASE StartRunning(d) \/ EnterTesting(d)
      <3>1. Attempt(d) \in Tasks /\ batch' = batch
        BY <1>0, <2>runs DEF StartRunning, EnterTesting, reaperVars
      <3>2. PICK s : Write(Attempt(d), HeldAs(rows[Attempt(d)], s, d))
        BY <2>runs DEF StartRunning, EnterTesting
      <3>3. ~ Expired(HeldAs(rows[Attempt(d)], s, d))
        BY <1>0, <3>1, ExpiredRows
      <3> QED BY <3>1, <3>2, <3>3, RecoveryWrite
    <2>4. CASE Heartbeat(d)
      <3>1. Attempt(d) \in Tasks /\ batch' = batch
        BY <1>0, <2>4 DEF Heartbeat, Executing, reaperVars
      <3>2. /\ Heartbeaten(rows[Attempt(d)]).retry = rows[Attempt(d)].retry
            /\ Heartbeaten(rows[Attempt(d)]).error = rows[Attempt(d)].error
        BY <1>0, <3>1, ExpiredRows
      <3> QED BY <2>4, <3>1, <3>2, RecoveryWrite DEF Heartbeat
    <2>5. CASE ScheduleRetry(d)
      <3>1. Attempt(d) \in Tasks /\ batch' = batch
        BY <1>0, <2>5 DEF ScheduleRetry, reaperVars
      <3>2. PICK n : Write(Attempt(d), RequeuedForRetry(rows[Attempt(d)], n))
        BY <2>5 DEF ScheduleRetry, Attempt
      <3>3. ~ Expired(RequeuedForRetry(rows[Attempt(d)], n))
        BY <1>0, <3>1, ExpiredRows
      <3> QED BY <3>1, <3>2, <3>3, RecoveryWrite
    <2>6. CASE DeadLetter(d)
      <3>1. Attempt(d) \in Tasks /\ batch' = batch
        BY <1>0, <2>6 DEF DeadLetter, reaperVars
      <3>2. PICK s : Write(Attempt(d), DeadLetteredAs(rows[Attempt(d)], s))
        BY <2>6 DEF DeadLetter, Attempt
      <3>3. ~ Expired(DeadLetteredAs(rows[Attempt(d)], s))
        BY <1>0, <3>1, ExpiredRows
      <3> QED BY <3>1, <3>2, <3>3, RecoveryWrite
    <2>7. CASE Finalize(d) \/ Succeeded(d) \/ RecordDeadLetter(d) \/ Crash(d)
      <3>1. UNCHANGED << rows, overdue >> /\ \A r \in Reapers : batch'[r] \subseteq batch[r]
        BY <2>7 DEF Finalize, Succeeded, RecordDeadLetter, Crash, reaperVars
      <3> QED BY <3>1 DEF RecoveryInv
    <2> QED BY <1>1, <2>1, <2>2, <2>runs, <2>4, <2>5, <2>6, <2>7 DEF DaemonStep, DaemonAttempt
  <1>2. ASSUME NEW r \in Reapers, ReaperStep(r) PROVE RecoveryInv'
    <2>1. CASE ReaperFind(r)
      <3>1. rows' = rows /\ \A q \in Reapers : q # r => batch'[q] = batch[q] /\ overdue'[q] = overdue[q]
        BY <1>0, <2>1 DEF ReaperFind
      <3>2. \A s \in batch'[r] : rows[s.id].retry = s.retry /\ rows[s.id].error = s.error
        BY <1>0, <2>1 DEF ReaperFind, Snapshot
      <3> QED BY <3>1, <3>2 DEF RecoveryInv
    <2>2. CASE ReaperRecover(r)
      <3>1. PICK s \in batch[r] :
              /\ batch' = [batch EXCEPT ![r] = @ \ {s}]
              /\ Write(s.id, Recovered(s, rows[s.id])) \/ UNCHANGED << rows, overdue >>
        BY <2>2 DEF ReaperRecover
      <3>2. s.id \in Tasks /\ \A q \in Reapers : batch'[q] \subseteq batch[q]
        BY <1>0, <3>1 DEF Snapshots
      <3>3. ~ Expired(Recovered(s, rows[s.id]))
        BY <1>0, <3>2, ExpiredRows DEF Recovered
      <3>4. CASE UNCHANGED << rows, overdue >>
        BY <3>2, <3>4 DEF RecoveryInv
      <3> QED BY <3>1, <3>2, <3>3, <3>4, RecoveryWrite
    <2>3. CASE ReaperSkip(r) \/ ReaperRecordDeadLetter(r)
      <3>1. UNCHANGED << rows, overdue >> /\ \A q \in Reapers : batch'[q] \subseteq batch[q]
        BY <1>0, <2>3 DEF ReaperSkip, ReaperRecordDeadLetter
      <3> QED BY <3>1 DEF RecoveryInv
    <2> QED BY <1>2, <2>1, <2>2, <2>3 DEF ReaperStep
  <1>3. ASSUME NEW t \in Tasks, TaskStep(t) PROVE RecoveryInv'
    <2>1. batch' = batch
      BY <1>3 DEF TaskStep, Create, Cancel, Retry, Operate, LeaseExpires, AbandonedLeaseExpires,
                  BackoffElapses, reaperVars
    <2>2. PICK row : /\ Write(t, row)
                     /\ Expired(row) => row.retry = rows[t].retry /\ row.error = rows[t].error
      BY <1>0, <1>3, ExpiredRows DEF TaskStep, Create, Cancel, Retry, Operate, LeaseExpires,
                  AbandonedLeaseExpires, Lapse, BackoffElapses
    <2> QED BY <2>1, <2>2, RecoveryWrite
  <1>4. CASE ReclaimStuck
    <2>1. \A t \in Tasks : rows'[t].retry = rows[t].retry /\ rows'[t].error = rows[t].error
      BY <1>0, <1>4, ExpiredRows DEF ReclaimStuck
    <2>2. batch' = batch /\ \A r \in Reapers : overdue'[r] \subseteq overdue[r]
      BY <1>0, <1>4 DEF ReclaimStuck, reaperVars
    <2>3. \A r \in Reapers : \A s \in batch[r] : s.id \in Tasks
      BY <1>0 DEF Snapshots
    <2> QED BY <2>1, <2>2, <2>3 DEF RecoveryInv
  <1>5. CASE UNCHANGED vars
    BY <1>5 DEF vars, reaperVars, RecoveryInv
  <1> QED BY <1>1, <1>2, <1>3, <1>4, <1>5 DEF Next

\* The deadline guard of recoverStaleTask() makes the reaper's old snapshot
\* safe: what it decided on is what the row holds when the update goes through.
THEOREM RecoveryIsCurrent == Spec => []RecoveryDecidedOnCurrentRow
  <1>1. Init => RecoveryInv
    BY DEF Init, RecoveryInv
  <1>2. RecoveryInv => RecoveryDecidedOnCurrentRow
    BY DEF RecoveryInv, RecoveryDecidedOnCurrentRow, RecoveryApplies, Recoverable
  <1> QED BY <1>1, <1>2, TypeInitial, TypeInductive, RecoveryInductive, PTL DEF Spec

-----------------------------------------------------------------------------
(* Dead letters are recorded *)

\* ... and what a reaper has still to record bears an attempt that was made.
DeadInv ==
  /\ DeadLettersRecorded
  /\ \A r \in Reapers : pending[r] # NoTask => pending[r][2] \in 1 .. MaxRetries + 1

\* A step that marks no task and loses no record, written or under way.
LEMMA DeadStep ==
  ASSUME DeadInv, crashes' = 0 => crashes = 0, deadLetters \subseteq deadLetters',
         \A t \in Tasks : rows'[t].dead => rows[t].dead,
         \A d \in Daemons : pc[d] = "deadLetter" => pc'[d] = "deadLetter" /\ last'[d].id = last[d].id,
         pending' = pending
  PROVE  DeadInv'
  BY DEF DeadInv, DeadLettersRecorded

\* Which updates mark a row.
LEMMA DeadRows ==
  ASSUME NEW row \in Rows
  PROVE  /\ \A d : ClaimedBy(row, d).dead = row.dead
         /\ Heartbeaten(row).dead = row.dead
         /\ \A n : RequeuedForRetry(row, n).dead = row.dead
         /\ CreatedRow.dead = FALSE
         /\ CancelledRow(row).dead = row.dead /\ RetriedRow(row).dead = row.dead
         /\ ReclaimedRow(row).dead = row.dead
         /\ [row EXCEPT !.lease = "expired"].dead = row.dead
         /\ [row EXCEPT !.backoff = FALSE].dead = row.dead
  BY DEF Rows, ClaimedBy, Heartbeaten, RequeuedForRetry, CreatedRow, AbsentRow, CancelledRow,
         RetriedRow, ReclaimedRow

LEMMA DeadDaemon ==
  ASSUME TypeInv, RetryInv, DeadInv, NEW d \in Daemons, DaemonStep(d)
  PROVE  DeadInv'
  <1>0. /\ rows \in [Tasks -> Rows]
        /\ pc \in [Daemons -> {"idle", "claimed", "outcome", "deadLetter"} \cup Executing]
        /\ last \in [Daemons -> Outcomes \cup {NoTask}]
        /\ crashes \in Nat
        /\ pc[d] # "idle" => last[d] \in Outcomes /\ last[d].id \in Tasks
    BY DEF TypeInv, TypeOK, Busy, Outcomes
  <1>1. CASE Claim(d)
    <2>1. PICK t \in Tasks : rows' = [rows EXCEPT ![t] = ClaimedBy(rows[t], d)]
      BY <1>1 DEF Claim, Write
    <2>2. \A u \in Tasks : rows'[u].dead = rows[u].dead
      <3>1. ClaimedBy(rows[t], d).dead = rows[t].dead
        BY <1>0, <2>1, DeadRows
      <3> QED BY <1>0, <2>1, <3>1
    <2> QED BY <1>0, <1>1, <2>2, DeadStep DEF Claim, Goto, reaperVars, bounds
  <1>2. CASE \/ GateBDenied(d) \/ SpecRejected(d) \/ AgentFailed(d)
             \/ RecordResult(d) \/ AttemptThrows(d)
    <2>0. PICK t \in Tasks : \E s, e : rows' = [rows EXCEPT ![t] = ReleasedAs(rows[t], s, e)]
      BY <1>0, <1>2 DEF GateBDenied, SpecRejected, AgentFailed, RecordResult, AttemptThrows, Write,
                        Attempt, Executing
    <2>1. PICK s, e : rows' = [rows EXCEPT ![t] = ReleasedAs(rows[t], s, e)]
      BY <2>0
    <2>2. \A u \in Tasks : rows'[u].dead = rows[u].dead
      <3>1. ReleasedAs(rows[t], s, e).dead = rows[t].dead
        BY <1>0 DEF ReleasedAs, Rows
      <3> QED BY <1>0, <2>1, <3>1
    <2>3. pc[d] # "deadLetter" /\ UNCHANGED <<crashes, deadLetters, pending>>
      BY <1>2 DEF GateBDenied, SpecRejected, AgentFailed, RecordResult, AttemptThrows, Executing,
                  reaperVars, bounds
    <2>4. \A c \in Daemons : c # d => pc'[c] = pc[c] /\ last'[c] = last[c]
      BY <1>0, <1>2 DEF GateBDenied, SpecRejected, AgentFailed, RecordResult, AttemptThrows, Goto,
                        Outcome
    <2> QED BY <2>2, <2>3, <2>4, DeadStep
  <1>3. CASE StartRunning(d) \/ EnterTesting(d)
    <2>0. PICK t \in Tasks : \E s : rows' = [rows EXCEPT ![t] = HeldAs(rows[t], s, d)]
      BY <1>0, <1>3 DEF StartRunning, EnterTesting, Write, Attempt
    <2>1. PICK s : rows' = [rows EXCEPT ![t] = HeldAs(rows[t], s, d)]
      BY <2>0
    <2>2. \A u \in Tasks : rows'[u].dead = rows[u].dead
      <3>1. HeldAs(rows[t], s, d).dead = rows[t].dead
        BY <1>0 DEF HeldAs, Rows
      <3> QED BY <1>0, <2>1, <3>1
    <2> QED BY <1>0, <1>3, <2>2, DeadStep DEF StartRunning, EnterTesting, Goto, reaperVars, bounds
  <1>4. CASE Heartbeat(d)
    <2>1. PICK t \in Tasks : rows' = [rows EXCEPT ![t] = Heartbeaten(rows[t])]
      BY <1>0, <1>4 DEF Heartbeat, Write, Attempt, Executing
    <2>2. \A u \in Tasks : rows'[u].dead = rows[u].dead
      <3>1. Heartbeaten(rows[t]).dead = rows[t].dead
        BY <1>0, <2>1, DeadRows
      <3> QED BY <1>0, <2>1, <3>1
    <2> QED BY <1>4, <2>2, DeadStep DEF Heartbeat, daemonVars, reaperVars, bounds
  <1>5. CASE ScheduleRetry(d)
    <2>0. PICK t \in Tasks : \E n : rows' = [rows EXCEPT ![t] = RequeuedForRetry(rows[t], n)]
      BY <1>0, <1>5 DEF ScheduleRetry, Write
    <2>1. PICK n : rows' = [rows EXCEPT ![t] = RequeuedForRetry(rows[t], n)]
      BY <2>0
    <2>2. \A u \in Tasks : rows'[u].dead = rows[u].dead
      <3>1. RequeuedForRetry(rows[t], n).dead = rows[t].dead
        BY <1>0, <2>1, DeadRows
      <3> QED BY <1>0, <2>1, <3>1
    <2> QED BY <1>0, <1>5, <2>2, DeadStep DEF ScheduleRetry, Goto, reaperVars, bounds
  <1>6. CASE Finalize(d) \/ Succeeded(d)
    BY <1>0, <1>6, DeadStep DEF Finalize, Succeeded, Goto, reaperVars, bounds
  <1>7. CASE DeadLetter(d)
    <2>1. /\ \A u \in Tasks : u # last[d].id => rows'[u] = rows[u]
          /\ pc'[d] = "deadLetter" /\ UNCHANGED <<last, pending, deadLetters, crashes>>
          /\ \A c \in Daemons : c # d => pc'[c] = pc[c]
      BY <1>0, <1>7 DEF DeadLetter, Write, Goto, reaperVars, bounds
    <2>2. DeadLettersRecorded'
      BY <1>7, <2>1 DEF DeadInv, DeadLettersRecorded, DeadLetter
    <2> QED BY <2>1, <2>2 DEF DeadInv
  <1>8. CASE RecordDeadLetter(d)
    <2>1. /\ deadLetters' = deadLetters \cup {<< last[d].id, last[d].retry + 1 >>}
          /\ UNCHANGED <<rows, pending, crashes>>
          /\ \A c \in Daemons : c # d => pc'[c] = pc[c] /\ last'[c] = last[c]
      BY <1>0, <1>8 DEF RecordDeadLetter, Goto, reaperVars, bounds
    <2>2. last[d].retry + 1 \in 1 .. MaxRetries + 1
      BY <1>0, <1>8, RetryConfigAssumption DEF RecordDeadLetter, RetryInv, Outcomes
    <2>3. DeadLettersRecorded'
      BY <2>1, <2>2 DEF DeadInv, DeadLettersRecorded
    <2> QED BY <2>1, <2>3 DEF DeadInv
  <1>9. CASE Crash(d)
    <2>1. crashes' # 0
      BY <1>0, <1>9 DEF Crash
    <2>2. \A r \in Reapers : pending'[r] # NoTask => pending'[r] = pending[r]
      BY <1>9 DEF Crash
    <2> QED BY <2>1, <2>2 DEF DeadInv, DeadLettersRecorded
  <1>10. \/ Claim(d) \/ GateBDenied(d) \/ SpecRejected(d) \/ AgentFailed(d) \/ RecordResult(d)
         \/ AttemptThrows(d) \/ StartRunning(d) \/ EnterTesting(d) \/ Heartbeat(d)
         \/ ScheduleRetry(d) \/ Finalize(d) \/ Succeeded(d) \/ DeadLetter(d)
         \/ RecordDeadLetter(d) \/ Crash(d)
    BY DEF DaemonStep, DaemonAttempt
  <1> QED BY <1>1, <1>2, <1>3, <1>4, <1>5, <1>6, <1>7, <1>8, <1>9, <1>10

LEMMA DeadReaper ==
  ASSUME TypeInv, RetryInv, DeadInv, NEW r \in Reapers, ReaperStep(r)
  PROVE  DeadInv'
  <1>0. /\ rows \in [Tasks -> Rows] /\ batch \in [Reapers -> SUBSET Snapshots]
        /\ pending \in [Reapers -> (Tasks \X Nat) \cup {NoTask}]
    BY DEF TypeInv, TypeOK
  <1>1. UNCHANGED <<pc, last, crashes>> /\ deadLetters \subseteq deadLetters'
    BY DEF ReaperStep, ReaperFind, ReaperRecover, ReaperSkip, ReaperRecordDeadLetter, daemonVars,
           bounds
  <1>2. CASE ReaperFind(r) \/ ReaperSkip(r)
    BY <1>1, <1>2, DeadStep DEF ReaperFind, ReaperSkip
  <1>3. CASE ReaperRecover(r)
    <2>1. PICK s \in batch[r] :
            IF RecoveryApplies(r, s)
            THEN /\ Write(s.id, Recovered(s, rows[s.id]))
                 /\ pending' = [pending EXCEPT ![r] =
                      IF ReaperDecision(s) = "RETRY" THEN NoTask ELSE << s.id, s.retry + 1 >>]
            ELSE UNCHANGED << rows, overdue, pending >>
      BY <1>3 DEF ReaperRecover
    <2>2. s.id \in Tasks /\ s.retry \in Nat /\ s.retry <= MaxRetries
      BY <1>0 DEF Snapshots, RetryInv
    <2>3. pending[r] = NoTask
      BY <1>3 DEF ReaperRecover
    <2>4. CASE ~ RecoveryApplies(r, s)
      BY <1>1, <2>1, <2>4, DeadStep
    <2>5. CASE RecoveryApplies(r, s) /\ ReaperDecision(s) = "RETRY"
      <3>1. rows' = [rows EXCEPT ![s.id] = RequeuedForRetry(rows[s.id], s.retry + 1)]
        BY <2>1, <2>5 DEF Write, Recovered
      <3>2. \A u \in Tasks : rows'[u].dead = rows[u].dead
        <4>1. RequeuedForRetry(rows[s.id], s.retry + 1).dead = rows[s.id].dead
          BY <1>0, <2>2, <3>1, DeadRows
        <4> QED BY <1>0, <2>2, <3>1, <4>1
      <3>3. pending' = pending
        BY <1>0, <2>1, <2>3, <2>5
      <3> QED BY <1>1, <3>2, <3>3, DeadStep
    <2>6. CASE RecoveryApplies(r, s) /\ ReaperDecision(s) # "RETRY"
      <3>1. \A u \in Tasks : u # s.id => rows'[u] = rows[u]
        BY <1>0, <2>1, <2>6 DEF Write
      <3>2. /\ pending'[r] = << s.id, s.retry + 1 >>
            /\ \A q \in Reapers : q # r => pending'[q] = pending[q]
        BY <1>0, <2>1, <2>6
      <3>3. pending'[r] # NoTask /\ pending'[r][1] = s.id /\ pending'[r][2] \in 1 .. MaxRetries + 1
        BY <2>2, <3>2, LifecycleAssumption, RetryConfigAssumption
      <3>4. DeadLettersRecorded'
        BY <1>1, <2>2, <2>3, <3>1, <3>2, <3>3 DEF DeadInv, DeadLettersRecorded
      <3> QED BY <3>2, <3>3, <3>4 DEF DeadInv
    <2> QED BY <2>4, <2>5, <2>6
  <1>4. CASE ReaperRecordDeadLetter(r)
    <2>1. /\ pending[r] \in Tasks \X Nat /\ pending[r][2] \in 1 .. MaxRetries + 1
          /\ deadLetters' = deadLetters \cup {pending[r]} /\ rows' = rows
          /\ pending'[r] = NoTask /\ \A q \in Reapers : q # r => pending'[q] = pending[q]
      BY <1>0, <1>4 DEF ReaperRecordDeadLetter, DeadInv
    <2>2. pending[r] = << pending[r][1], pending[r][2] >>
      BY <2>1
    <2>3. << pending[r][1], pending[r][2] >> \in deadLetters'
      BY <2>1, <2>2
    <2>4. DeadLettersRecorded'
      BY <1>1, <2>1, <2>3 DEF DeadInv, DeadLettersRecorded
    <2> QED BY <2>1, <2>4 DEF DeadInv
  <1> QED BY <1>2, <1>3, <1>4 DEF ReaperStep

LEMMA DeadInductive == TypeInv /\ RetryInv /\ DeadInv /\ [Next]_vars => DeadInv'
  <1> SUFFICES ASSUME TypeInv, RetryInv, DeadInv, [Next]_vars PROVE DeadInv'
    OBVIOUS
  <1>0. rows \in [Tasks -> Rows]
    BY DEF TypeInv, TypeOK
  <1>1. ASSUME NEW t \in Tasks, TaskStep(t) PROVE DeadInv'
    <2>1. PICK row : /\ rows' = [rows EXCEPT ![t] = row]
                     /\ \/ row = CreatedRow
                        \/ row = CancelledRow(rows[t])
                        \/ row = RetriedRow(rows[t])
                        \/ row = [rows[t] EXCEPT !.lease = "expired"]
                        \/ row = [rows[t] EXCEPT !.backoff = FALSE]
      BY <1>1 DEF TaskStep, Create, Cancel, Retry, Operate, LeaseExpires, AbandonedLeaseExpires,
                  Lapse, BackoffElapses, Write
    <2>2. row.dead => rows[t].dead
      BY <1>0, <2>1, DeadRows
    <2>3. \A u \in Tasks : rows'[u].dead => rows[u].dead
      BY <1>0, <2>1, <2>2
    <2>4. UNCHANGED <<pc, last, crashes, deadLetters, pending>>
      BY <1>1 DEF TaskStep, Create, Cancel, Retry, Operate, LeaseExpires, AbandonedLeaseExpires,
                  BackoffElapses, daemonVars, reaperVars, bounds
    <2> QED BY <2>3, <2>4, DeadStep
  <1>2. CASE ReclaimStuck
    <2>1. \A u \in Tasks : rows'[u].dead = rows[u].dead
      BY <1>0, <1>2, DeadRows DEF ReclaimStuck
    <2> QED BY <1>2, <2>1, DeadStep DEF ReclaimStuck, daemonVars, reaperVars, bounds
  <1>3. CASE UNCHANGED vars
    BY <1>3, DeadStep DEF vars, daemonVars, reaperVars, bounds
  <1> QED BY <1>1, <1>2, <1>3, DeadDaemon, DeadReaper DEF Next

\* As long as no process has died between the two writes, every dead-lettered or
\* quarantined task has its record, or the daemon or reaper that is about to
\* write it.
THEOREM DeadLettersAreRecorded == Spec => []DeadLettersRecorded
  <1>1. Init => RetryInv /\ DeadInv
    BY RetryConfigAssumption
    DEF Init, RetryInv, RetryBound, AbsentRow, DeadInv, DeadLettersRecorded
  <1>2. DeadInv => DeadLettersRecorded
    BY DEF DeadInv
  <1> QED BY <1>1, <1>2, TypeInitial, TypeInductive, RetryInductive, DeadInductive, PTL DEF Spec

-----------------------------------------------------------------------------
(* TaskLifecycle implements TaskQueue, for every set of tasks and daemons:  *)
(* each step is a step of the queue, or leaves the undisturbed tasks alone. *)

\* A task that does not exist has not been retried.
AbsentInv == \A t \in Tasks : rows[t].status = "ABSENT" => rows[t].retry = 0

\* The invariants the refinement rests on.
QueueInv == TypeInv /\ RetryInv /\ LeaseInv /\ AbsentInv

\* What the queue sees of a task.
SameTask(u) ==
  /\ StateOf(rows'[u]) = StateOf(rows[u])
  /\ rows'[u].retry = rows[u].retry
  /\ HoldersOf(u)' = HoldersOf(u)

\* Every status has its place in the queue.
LEMMA StateTyped ==
  ASSUME NEW row \in Rows
  PROVE  /\ StateOf(row) \in Queue!States
         /\ row.status = "QUEUED" <=> StateOf(row) = "waiting"
         /\ row.status \in Active <=> StateOf(row) = "busy"
         /\ row.status \in Settled <=> StateOf(row) = "closed"
  BY DEF Rows, Statuses, Active, Settled, StateOf, Queue!States

\* A step that leaves every undisturbed task as it is.
LEMMA QuietStep ==
  ASSUME TypeInv', RetryInv',
         lapsed' = lapsed \/ \E t \in Tasks : lapsed' = lapsed \cup {t},
         \A u \in Tasks : u \notin lapsed' => SameTask(u)
  PROVE  Queue!Next
  <1>1. \A u \in Tasks : rows'[u] \in Rows /\ rows'[u].retry \in 0..MaxRetries
    BY RetryConfigAssumption DEF TypeInv, TypeOK, RetryInv, RetryBound, Rows
  <1>2. \A u \in Tasks : StateOf(rows'[u]) \in Queue!States
    <2> SUFFICES ASSUME NEW u \in Tasks PROVE StateOf(rows'[u]) \in Queue!States
      OBVIOUS
    <2> QED BY <1>1, StateTyped
  <1>3. \A u \in Tasks : HoldersOf(u)' \in SUBSET Daemons
    BY DEF HoldersOf
  <1>4. Queue!Anything
    BY <1>1, <1>2, <1>3 DEF Queue!Anything, SameTask
  <1> QED BY <1>4 DEF Queue!Next, Queue!Disturb

-----------------------------------------------------------------------------
(* The steps of a daemon *)

\* The task of a busy daemon; while it is undisturbed the daemon alone holds it.
LEMMA HolderAlone ==
  ASSUME QueueInv, NEW d \in Daemons, pc[d] # "idle"
  PROVE  /\ Attempt(d) \in Tasks
         /\ rows[Attempt(d)] \in Rows
         /\ d \in HoldersOf(Attempt(d))
         /\ Attempt(d) \notin lapsed =>
              /\ HoldersOf(Attempt(d)) = {d}
              /\ OwnedAs(d, pc[d], last[d].retry, rows[Attempt(d)])
  BY DEF QueueInv, TypeInv, TypeOK, Busy, Outcomes, LeaseInv, ExclusiveWhileLeased,
         OwnershipWhileLeased, HoldersOf, Attempt

\* A busy daemon moves on to label: the other tasks notice nothing, its own task
\* is held until the daemon is idle.
LEMMA AttemptMoves ==
  ASSUME QueueInv, NEW d \in Daemons, pc[d] # "idle", NEW t \in Tasks, t = Attempt(d),
         NEW label, NEW row,
         rows' = [rows EXCEPT ![t] = row] \/ rows' = rows,
         pc' = [pc EXCEPT ![d] = label],
         \A c \in Daemons : c # d => last'[c] = last[c],
         label # "idle" => last'[d].id = last[d].id
  PROVE  /\ \A u \in Tasks : u # t => SameTask(u)
         /\ HoldersOf(t)' = IF label = "idle" THEN HoldersOf(t) \ {d} ELSE HoldersOf(t)
  <1>1. /\ rows \in [Tasks -> Rows]
        /\ pc \in [Daemons -> {"idle", "claimed", "outcome", "deadLetter"} \cup Executing]
    BY DEF QueueInv, TypeInv, TypeOK
  <1>2. /\ pc'[d] = label
        /\ \A c \in Daemons : c # d => pc'[c] = pc[c] /\ last'[c] = last[c]
    BY <1>1
  <1>3. \A u \in Tasks : u # t => HoldersOf(u)' = HoldersOf(u) /\ rows'[u] = rows[u]
    BY <1>1, <1>2 DEF HoldersOf, Attempt
  <1>4. HoldersOf(t)' = IF label = "idle" THEN HoldersOf(t) \ {d} ELSE HoldersOf(t)
    BY <1>2 DEF HoldersOf, Attempt
  <1> QED BY <1>3, <1>4 DEF SameTask

\* ... as long as it goes on,
LEMMA AttemptGoesOn ==
  ASSUME QueueInv, NEW d \in Daemons, pc[d] # "idle", NEW t \in Tasks, t = Attempt(d),
         NEW label, label # "idle", pc' = [pc EXCEPT ![d] = label],
         rows' = rows \/ \E row : rows' = [rows EXCEPT ![t] = row],
         \A c \in Daemons : c # d => last'[c] = last[c],
         last'[d].id = last[d].id
  PROVE  (\A u \in Tasks : u # t => SameTask(u)) /\ HoldersOf(t)' = HoldersOf(t)
  <1>1. PICK row : rows' = rows \/ rows' = [rows EXCEPT ![t] = row]
    OBVIOUS
  <1>2. /\ \A u \in Tasks : u # t => SameTask(u)
        /\ HoldersOf(t)' = IF label = "idle" THEN HoldersOf(t) \ {d} ELSE HoldersOf(t)
    BY <1>1, AttemptMoves, ZenonT(30)
  <1> QED BY <1>2

\* ... and no longer when it is over.
LEMMA AttemptEnds ==
  ASSUME QueueInv, NEW d \in Daemons, pc[d] # "idle", NEW t \in Tasks, t = Attempt(d),
         pc' = [pc EXCEPT ![d] = "idle"], last' = [last EXCEPT ![d] = NoTask],
         rows' = rows \/ \E row : rows' = [rows EXCEPT ![t] = row]
  PROVE  (\A u \in Tasks : u # t => SameTask(u)) /\ HoldersOf(t)' = HoldersOf(t) \ {d}
  <1>1. PICK row : rows' = rows \/ rows' = [rows EXCEPT ![t] = row]
    OBVIOUS
  <1>2. \A c \in Daemons : c # d => last'[c] = last[c]
    BY DEF QueueInv, TypeInv, TypeOK
  <1>3. /\ \A u \in Tasks : u # t => SameTask(u)
        /\ HoldersOf(t)' = IF "idle" = "idle" THEN HoldersOf(t) \ {d} ELSE HoldersOf(t)
    BY <1>1, <1>2, AttemptMoves, ZenonT(30)
  <1> QED BY <1>3

\* The outcome of an attempt is written: the queue sees the task closed.
LEMMA AttemptCloses ==
  ASSUME QueueInv, TypeInv', RetryInv', NEW d \in Daemons,
         pc[d] \in {"claimed"} \cup Executing, NEW t \in Tasks, t = Attempt(d),
         NEW s \in Settled, NEW e, rows' = [rows EXCEPT ![t] = ReleasedAs(rows[t], s, e)],
         pc' = [pc EXCEPT ![d] = "outcome"], lapsed' = lapsed,
         \A c \in Daemons : c # d => last'[c] = last[c],
         last'[d].id = last[d].id
  PROVE  Queue!Next
  <1>1. pc[d] # "idle"
    BY DEF Executing
  <1>2. rows[t] \in Rows /\ rows'[t] \in Rows /\ rows \in [Tasks -> Rows]
    BY DEF QueueInv, TypeInv, TypeOK
  <1>3. /\ \A u \in Tasks : u # t => SameTask(u)
        /\ HoldersOf(t)' = HoldersOf(t)
    BY <1>1, AttemptGoesOn
  <1>4. CASE t \in lapsed
    BY <1>3, <1>4, QuietStep DEF QueueInv
  <1>5. CASE t \notin lapsed
    <2>1. HoldersOf(t) = {d} /\ OwnedAs(d, pc[d], last[d].retry, rows[t])
      BY <1>1, <1>5, HolderAlone
    <2>2. StateOf(rows[t]) = "busy"
      <3>1. rows[t].status \in Active
        BY <2>1 DEF OwnedAs, Executing, Active
      <3> QED BY <1>2, <3>1, StateTyped
    <2>3. rows'[t].status = s /\ rows'[t].retry = rows[t].retry
      BY <1>2 DEF ReleasedAs, Rows
    <2>4. StateOf(rows'[t]) = "closed"
      BY <1>2, <2>3, StateTyped
    <2>5. Queue!Close(t, d)
      BY <1>3, <1>5, <2>1, <2>2, <2>3, <2>4 DEF Queue!Close, Queue!Moves, SameTask
    <2> QED BY <2>5 DEF Queue!Next
  <1> QED BY <1>4, <1>5

\* claim() of a free task hands it out; of a disturbed one is nobody's business.
LEMMA ClaimHandsOut ==
  ASSUME QueueInv, TypeInv', RetryInv', NEW d \in Daemons, Claim(d)
  PROVE  Queue!Next
  <1>1. PICK t \in Tasks :
          /\ Claimable(rows, t)
          /\ rows' = [rows EXCEPT ![t] = ClaimedBy(rows[t], d)]
          /\ last' = [last EXCEPT ![d] = [id |-> t, retry |-> rows[t].retry,
                                          error |-> rows[t].error, status |-> "ASSIGNED"]]
    BY DEF Claim, Write
  <1>2. pc[d] = "idle" /\ pc' = [pc EXCEPT ![d] = "claimed"] /\ lapsed' = lapsed
    BY DEF Claim, Goto
  <1>3. /\ rows \in [Tasks -> Rows] /\ rows' \in [Tasks -> Rows]
        /\ pc \in [Daemons -> {"idle", "claimed", "outcome", "deadLetter"} \cup Executing]
        /\ last \in [Daemons -> Outcomes \cup {NoTask}]
    BY DEF QueueInv, TypeInv, TypeOK
  <1>4. /\ pc'[d] = "claimed" /\ last'[d].id = t
        /\ \A c \in Daemons : c # d => pc'[c] = pc[c] /\ last'[c] = last[c]
        /\ \A u \in Tasks : u # t => rows'[u] = rows[u]
    BY <1>1, <1>2, <1>3
  <1>5. /\ \A u \in Tasks : d \notin HoldersOf(u)
        /\ HoldersOf(t)' = HoldersOf(t) \cup {d}
        /\ \A u \in Tasks : u # t => HoldersOf(u)' = HoldersOf(u)
    BY <1>2, <1>4 DEF HoldersOf, Attempt
  <1>6. \A u \in Tasks : u # t => SameTask(u)
    BY <1>4, <1>5 DEF SameTask
  <1>7. CASE t \in lapsed
    BY <1>2, <1>6, <1>7, QuietStep DEF QueueInv
  <1>8. CASE t \notin lapsed
    <2>1. rows[t].status = "QUEUED"
      BY <1>1, <1>8 DEF Claimable, QueueInv, LeaseInv
    <2>2. HoldersOf(t) = {}
      <3> SUFFICES ASSUME NEW c \in HoldersOf(t) PROVE FALSE
        OBVIOUS
      <3>1. c \in Daemons /\ pc[c] # "idle" /\ Attempt(c) = t
        BY DEF HoldersOf
      <3>2. OwnedAs(c, pc[c], last[c].retry, rows[t])
        BY <1>8, <3>1, HolderAlone
      <3> QED BY <1>3, <2>1, <3>1, <3>2 DEF OwnedAs, Executing, Settled
    <2>3. rows'[t].status = "ASSIGNED" /\ rows'[t].retry = rows[t].retry
      BY <1>1, <1>3 DEF ClaimedBy, Rows
    <2>4. StateOf(rows[t]) = "waiting" /\ StateOf(rows'[t]) = "busy"
      BY <1>3, <2>1, <2>3, StateTyped DEF Active
    <2>5. Queue!HandOut(t, d)
      BY <1>2, <1>5, <1>6, <1>8, <2>2, <2>3, <2>4
      DEF Queue!HandOut, Queue!Moves, Queue!HeldBy, SameTask
    <2> QED BY <2>5 DEF Queue!Next
  <1> QED BY <1>7, <1>8

\* The retry of the scheduler puts an undisturbed task back, one retry later.
LEMMA RetryPutsBack ==
  ASSUME QueueInv, TypeInv', RetryInv', NEW d \in Daemons, ScheduleRetry(d)
  PROVE  Queue!Next
  <1>1. /\ pc[d] = "outcome" /\ Decision(d) = "RETRY" /\ lapsed' = lapsed
        /\ pc' = [pc EXCEPT ![d] = "idle"] /\ last' = [last EXCEPT ![d] = NoTask]
    BY DEF ScheduleRetry, Goto
  <1>2. PICK t \in Tasks : t = Attempt(d)
    BY <1>1, HolderAlone
  <1>3. rows' = [rows EXCEPT ![t] = RequeuedForRetry(rows[t], last[d].retry + 1)]
    BY <1>2 DEF ScheduleRetry, Write, Attempt
  <1>4. /\ \A u \in Tasks : u # t => SameTask(u)
        /\ HoldersOf(t)' = HoldersOf(t) \ {d}
    <2>1. \E row : rows' = [rows EXCEPT ![t] = row]
      BY <1>3
    <2> QED BY <1>1, <1>2, <2>1, AttemptEnds
  <1>5. CASE t \in lapsed
    BY <1>1, <1>4, <1>5, QuietStep DEF QueueInv
  <1>6. CASE t \notin lapsed
    <2>1. HoldersOf(t) = {d} /\ OwnedAs(d, pc[d], last[d].retry, rows[t])
      BY <1>1, <1>2, <1>6, HolderAlone
    <2>2. rows[t] \in Rows /\ rows'[t] \in Rows /\ rows \in [Tasks -> Rows]
      BY DEF QueueInv, TypeInv, TypeOK
    <2>3. rows'[t].status = "QUEUED" /\ rows'[t].retry = rows[t].retry + 1
      BY <1>3, <2>1, <2>2 DEF RequeuedForRetry, Rows, OwnedAs
    <2>4. StateOf(rows[t]) = "closed" /\ StateOf(rows'[t]) = "waiting"
      BY <1>1, <2>1, <2>2, <2>3, StateTyped DEF OwnedAs
    <2>5. rows[t].retry < MaxRetries
      BY <2>2, <2>3, RetryConfigAssumption DEF RetryInv, RetryBound, Rows
    <2>6. Queue!PutBack(t, d)
      BY <1>1, <1>4, <1>6, <2>1, <2>3, <2>4, <2>5
      DEF Queue!PutBack, Queue!Moves, Queue!HeldBy, SameTask
    <2> QED BY <2>6 DEF Queue!Next
  <1> QED BY <1>5, <1>6

\* An attempt that ends otherwise, by success, with its dead letter or with the
\* process, lets go of its task.
LEMMA AttemptDrops ==
  ASSUME QueueInv, TypeInv', RetryInv', NEW d \in Daemons, pc[d] # "idle",
         pc' = [pc EXCEPT ![d] = "idle"], last' = [last EXCEPT ![d] = NoTask],
         rows' = rows, lapsed' = lapsed
  PROVE  Queue!Next
  <1>1. PICK t \in Tasks : t = Attempt(d)
    BY HolderAlone
  <1>2. /\ \A u \in Tasks : u # t => SameTask(u)
        /\ HoldersOf(t)' = HoldersOf(t) \ {d}
    BY <1>1, AttemptEnds
  <1>3. CASE t \in lapsed
    BY <1>2, <1>3, QuietStep DEF QueueInv
  <1>4. CASE t \notin lapsed
    <2>1. HoldersOf(t) = {d}
      BY <1>1, <1>4, HolderAlone
    <2>2. Queue!Drop(t, d)
      BY <1>2, <1>4, <2>1 DEF Queue!Drop, Queue!HeldBy, SameTask
    <2> QED BY <2>2 DEF Queue!Next
  <1> QED BY <1>3, <1>4

\* A write of the attempt that leaves an undisturbed task where it stands.
LEMMA AttemptStays ==
  ASSUME QueueInv, TypeInv', RetryInv', NEW d \in Daemons, pc[d] # "idle",
         NEW t \in Tasks, t = Attempt(d), NEW label, label # "idle",
         pc' = [pc EXCEPT ![d] = label], last' = last, lapsed' = lapsed,
         NEW row, rows' = [rows EXCEPT ![t] = row],
         t \notin lapsed => /\ row.retry = rows[t].retry
                            /\ StateOf(row) = StateOf(rows[t])
  PROVE  Queue!Next
  <1>1. /\ \A u \in Tasks : u # t => SameTask(u)
        /\ HoldersOf(t)' = HoldersOf(t)
    BY AttemptGoesOn
  <1>2. rows'[t] = row
    BY DEF QueueInv, TypeInv, TypeOK
  <1>3. t \notin lapsed => SameTask(t)
    BY <1>1, <1>2 DEF SameTask
  <1> QED BY <1>1, <1>3, QuietStep DEF QueueInv

LEMMA DaemonImplements ==
  ASSUME QueueInv, TypeInv', RetryInv', NEW d \in Daemons, DaemonStep(d)
  PROVE  Queue!Next
  <1>0. /\ rows \in [Tasks -> Rows] /\ rows' \in [Tasks -> Rows]
        /\ pc \in [Daemons -> {"idle", "claimed", "outcome", "deadLetter"} \cup Executing]
        /\ last \in [Daemons -> Outcomes \cup {NoTask}]
    BY DEF QueueInv, TypeInv, TypeOK
  <1>1. CASE Claim(d)
    BY <1>1, ClaimHandsOut
  <1>2. CASE GateBDenied(d) \/ RecordResult(d) \/ AttemptThrows(d)
    <2>1. pc[d] \in {"claimed"} \cup Executing /\ lapsed' = lapsed /\ pc' = [pc EXCEPT ![d] = "outcome"]
      BY <1>2 DEF GateBDenied, RecordResult, AttemptThrows, Executing, Goto
    <2>2. PICK t \in Tasks : t = Attempt(d)
      BY <2>1, HolderAlone DEF Executing
    <2>6. PICK s \in {"COMPLETED", "FAILED", "BLOCKED"} :
            \E e : Outcome(d, s, e) /\ rows' = [rows EXCEPT ![t] = ReleasedAs(rows[t], s, e)]
      BY <1>2, <2>2 DEF GateBDenied, RecordResult, AttemptThrows, Write
    <2>released. PICK e : Outcome(d, s, e) /\ rows' = [rows EXCEPT ![t] = ReleasedAs(rows[t], s, e)]
      BY <2>6
    <2>4. (\A c \in Daemons : c # d => last'[c] = last[c]) /\ last'[d].id = last[d].id
      BY <2>1, <2>released, OutcomeKeeps DEF QueueInv, Executing
    <2> QED BY <2>1, <2>2, <2>released, <2>4, AttemptCloses DEF Settled
  <1>3. CASE SpecRejected(d) \/ AgentFailed(d)
    <2>1. /\ pc[d] \in {"claimed"} \cup Executing /\ lapsed' = lapsed /\ last' = last
          /\ pc' = [pc EXCEPT ![d] = "outcome"]
      BY <1>3 DEF SpecRejected, AgentFailed, Executing, Goto
    <2>2. PICK t \in Tasks : t = Attempt(d)
      BY <2>1, HolderAlone DEF Executing
    <2>3. PICK e : rows' = [rows EXCEPT ![t] = ReleasedAs(rows[t], "FAILED", e)]
      BY <1>3, <2>2 DEF SpecRejected, AgentFailed, Write
    <2> QED BY <2>1, <2>2, <2>3, AttemptCloses DEF Settled
  <1>4. CASE StartRunning(d) \/ EnterTesting(d)
    <2>0. pc[d] \in {"claimed"} \cup Executing /\ lapsed' = lapsed /\ last' = last
      BY <1>4 DEF StartRunning, EnterTesting, Executing
    <2>a. PICK t \in Tasks : t = Attempt(d)
      BY <2>0, HolderAlone DEF Executing
    <2>1. PICK s \in {"RUNNING", "TESTING"}, label \in Executing :
            /\ pc' = [pc EXCEPT ![d] = label]
            /\ rows' = [rows EXCEPT ![t] = HeldAs(rows[t], s, d)]
      BY <1>4, <2>a DEF StartRunning, EnterTesting, Executing, Goto, Write
    <2>2. t \notin lapsed => StateOf(rows[t]) = "busy"
      <3>1. t \notin lapsed => rows[t].status \in Active
        BY <2>0, <2>a, HolderAlone DEF OwnedAs, Executing, Active
      <3> QED BY <1>0, <3>1, StateTyped
    <2>3. /\ HeldAs(rows[t], s, d).retry = rows[t].retry
          /\ StateOf(HeldAs(rows[t], s, d)) = "busy"
      <3>1. HeldAs(rows[t], s, d).status = s /\ HeldAs(rows[t], s, d).retry = rows[t].retry
        BY <1>0 DEF HeldAs, Rows
      <3> QED BY <3>1 DEF StateOf, Active, Settled
    <2> QED BY <2>0, <2>a, <2>1, <2>2, <2>3, AttemptStays DEF Executing
  <1>5. CASE Heartbeat(d)
    <2>1. PICK t \in Tasks : t = Attempt(d)
      BY <1>5, HolderAlone DEF Heartbeat, Executing
    <2>2. rows' = [rows EXCEPT ![t] = Heartbeaten(rows[t])] /\ UNCHANGED <<pc, last, lapsed>>
      BY <1>5, <2>1 DEF Heartbeat, Write, daemonVars
    <2>3. Heartbeaten(rows[t]).status = rows[t].status /\ Heartbeaten(rows[t]).retry = rows[t].retry
      BY <1>0 DEF Heartbeaten, Rows
    <2>4. StateOf(Heartbeaten(rows[t])) = StateOf(rows[t])
      BY <2>3 DEF StateOf
    <2>5. \A u \in Tasks : SameTask(u)
      BY <1>0, <2>2, <2>3, <2>4 DEF SameTask, HoldersOf, Attempt
    <2> QED BY <2>2, <2>5, QuietStep
  <1>6. CASE DeadLetter(d)
    <2>0. /\ pc[d] = "outcome" /\ lapsed' = lapsed /\ last' = last
          /\ pc' = [pc EXCEPT ![d] = "deadLetter"]
      BY <1>6 DEF DeadLetter, Goto
    <2>a. PICK t \in Tasks : t = Attempt(d)
      BY <2>0, HolderAlone
    <2>1. PICK s \in {"QUARANTINED", "BLOCKED", "FAILED"} :
            rows' = [rows EXCEPT ![t] = DeadLetteredAs(rows[t], s)]
      <3>1. DeadLetterStatus(d) \in {"QUARANTINED", "BLOCKED", "FAILED"}
        BY DEF DeadLetterStatus
      <3> QED BY <1>6, <2>a, <3>1 DEF DeadLetter, Write, Attempt
    <2>2. t \notin lapsed => StateOf(rows[t]) = "closed"
      <3>1. t \notin lapsed => rows[t].status \in Settled
        BY <2>0, <2>a, HolderAlone DEF OwnedAs
      <3> QED BY <1>0, <3>1, StateTyped
    <2>3. /\ DeadLetteredAs(rows[t], s).retry = rows[t].retry
          /\ StateOf(DeadLetteredAs(rows[t], s)) = "closed"
      BY <1>0 DEF DeadLetteredAs, Rows, StateOf, Active, Settled
    <2> QED BY <2>0, <2>a, <2>1, <2>2, <2>3, AttemptStays
  <1>7. CASE Finalize(d)
    <2>1. /\ UNCHANGED <<rows, last, lapsed>> /\ pc[d] = "testing"
          /\ pc' = [pc EXCEPT ![d] = "persisting"]
      BY <1>7 DEF Finalize, Goto
    <2>2. \A u \in Tasks : SameTask(u)
      BY <1>0, <2>1 DEF SameTask, HoldersOf, Attempt
    <2> QED BY <2>1, <2>2, QuietStep
  <1>8. CASE ScheduleRetry(d)
    BY <1>8, RetryPutsBack
  <1>9. CASE Succeeded(d) \/ RecordDeadLetter(d) \/ (Crash(d) /\ pc[d] # "idle")
    BY <1>9, AttemptDrops DEF Succeeded, RecordDeadLetter, Crash, Goto
  <1>10. CASE Crash(d) /\ pc[d] = "idle"
    <2>1. UNCHANGED <<rows, lapsed>> /\ pc' = pc /\ \A c \in Daemons : c # d => last'[c] = last[c]
      BY <1>0, <1>10 DEF Crash, Goto
    <2>2. \A u \in Tasks : SameTask(u)
      BY <1>10, <2>1 DEF SameTask, HoldersOf, Attempt
    <2> QED BY <2>1, <2>2, QuietStep
  <1>11. \/ Claim(d) \/ GateBDenied(d) \/ RecordResult(d) \/ AttemptThrows(d)
         \/ SpecRejected(d) \/ AgentFailed(d) \/ StartRunning(d) \/ EnterTesting(d)
         \/ Heartbeat(d) \/ DeadLetter(d) \/ Finalize(d) \/ ScheduleRetry(d)
         \/ Succeeded(d) \/ RecordDeadLetter(d) \/ Crash(d)
    BY DEF DaemonStep, DaemonAttempt
  <1> QED BY <1>1, <1>2, <1>3, <1>4, <1>5, <1>6, <1>7, <1>8, <1>9, <1>10, <1>11

-----------------------------------------------------------------------------
(* Reapers, operators, time, and the theorem *)

\* A reaper changes rows whose lease has run out; those are disturbed.
LEMMA ReaperImplements ==
  ASSUME QueueInv, TypeInv', RetryInv', NEW r \in Reapers, ReaperStep(r)
  PROVE  Queue!Next
  <1>1. UNCHANGED <<pc, last, lapsed>>
    BY DEF ReaperStep, ReaperFind, ReaperRecover, ReaperSkip, ReaperRecordDeadLetter, daemonVars
  <1>2. \A u \in Tasks : u \notin lapsed => rows'[u] = rows[u]
    <2>1. CASE rows' = rows
      BY <2>1
    <2>2. CASE ReaperRecover(r) /\ rows' # rows
      <3>1. PICK s \in batch[r] : RecoveryApplies(r, s) /\ Write(s.id, Recovered(s, rows[s.id]))
        BY <2>2 DEF ReaperRecover
      <3>2. s.id \in lapsed
        BY <3>1 DEF RecoveryApplies, Recoverable, QueueInv, LeaseInv, TypeInv, TypeOK, Snapshots
      <3> QED BY <3>1, <3>2 DEF Write, QueueInv, TypeInv, TypeOK
    <2> QED BY <2>1, <2>2 DEF ReaperStep, ReaperFind, ReaperSkip, ReaperRecordDeadLetter
  <1>3. \A u \in Tasks : u \notin lapsed' => SameTask(u)
    BY <1>1, <1>2 DEF SameTask, HoldersOf, Attempt
  <1> QED BY <1>1, <1>3, QuietStep

\* Creating a task enqueues it, operators and time disturb one, and the end of a
\* backoff is nobody's business.
LEMMA TaskImplements ==
  ASSUME QueueInv, TypeInv', RetryInv', NEW t \in Tasks, TaskStep(t)
  PROVE  Queue!Next
  <1>0. rows \in [Tasks -> Rows] /\ rows' \in [Tasks -> Rows]
    BY DEF QueueInv, TypeInv, TypeOK
  <1>1. UNCHANGED <<pc, last>>
    BY DEF TaskStep, Create, Cancel, Retry, Operate, LeaseExpires, AbandonedLeaseExpires,
           BackoffElapses, daemonVars
  <1>2. \A u \in Tasks : u # t => SameTask(u)
    <2>1. PICK row : rows' = [rows EXCEPT ![t] = row]
      BY DEF TaskStep, Create, Cancel, Retry, Operate, LeaseExpires, AbandonedLeaseExpires, Lapse,
             BackoffElapses, Write
    <2> QED BY <1>0, <1>1, <2>1 DEF SameTask, HoldersOf, Attempt
  <1>3. HoldersOf(t)' = HoldersOf(t)
    BY <1>1 DEF HoldersOf, Attempt
  <1>4. CASE Create(t)
    <2>1. rows'[t] = CreatedRow /\ rows[t].status = "ABSENT" /\ lapsed' = lapsed
      BY <1>0, <1>4 DEF Create, Write
    <2>2. StateOf(rows[t]) = "absent" /\ StateOf(rows'[t]) = "waiting"
      BY <2>1 DEF StateOf, CreatedRow, AbsentRow, Active, Settled
    <2>3. CASE t \in lapsed
      BY <1>2, <2>1, <2>3, QuietStep
    <2>4. CASE t \notin lapsed
      <3>1. rows'[t].retry = rows[t].retry
        BY <2>1 DEF QueueInv, AbsentInv, CreatedRow, AbsentRow
      <3>2. Queue!Enqueue(t)
        BY <1>2, <1>3, <2>1, <2>2, <2>4, <3>1 DEF Queue!Enqueue, Queue!Moves, SameTask
      <3> QED BY <3>2 DEF Queue!Next
    <2> QED BY <2>3, <2>4
  <1>5. CASE Cancel(t) \/ Retry(t) \/ LeaseExpires(t) \/ AbandonedLeaseExpires(t)
    <2>1. lapsed' = lapsed \cup {t}
      BY <1>5 DEF Cancel, Retry, Operate, LeaseExpires, AbandonedLeaseExpires, Lapse
    <2> QED BY <1>2, <2>1, QuietStep
  <1>6. CASE BackoffElapses(t)
    <2>1. /\ rows'[t] = [rows[t] EXCEPT !.backoff = FALSE] /\ lapsed' = lapsed
      BY <1>0, <1>6 DEF BackoffElapses, Write
    <2>2. rows'[t].status = rows[t].status /\ rows'[t].retry = rows[t].retry
      BY <1>0, <2>1 DEF Rows
    <2>3. SameTask(t)
      BY <1>3, <2>2 DEF SameTask, StateOf
    <2> QED BY <1>2, <2>1, <2>3, QuietStep
  <1> QED BY <1>4, <1>5, <1>6 DEF TaskStep

\* reclaimStuck() requeues disturbed tasks only.
LEMMA ReclaimImplements ==
  ASSUME QueueInv, TypeInv', RetryInv', ReclaimStuck
  PROVE  Queue!Next
  <1>1. UNCHANGED <<pc, last, lapsed>>
    BY DEF ReclaimStuck, daemonVars
  <1>2. \A u \in Tasks : u \notin lapsed => rows'[u] = rows[u]
    BY DEF ReclaimStuck, ReclaimedRow, QueueInv, LeaseInv
  <1>3. \A u \in Tasks : u \notin lapsed' => SameTask(u)
    BY <1>1, <1>2 DEF SameTask, HoldersOf, Attempt
  <1> QED BY <1>1, <1>3, QuietStep

\* No update makes a task cease to exist.
LEMMA Existing ==
  ASSUME NEW row \in Rows
  PROVE  /\ \A d : ClaimedBy(row, d).status # "ABSENT"
         /\ \A d, s : HeldAs(row, s, d).status = s
         /\ \A s, e : ReleasedAs(row, s, e).status = s
         /\ \A n : RequeuedForRetry(row, n).status # "ABSENT"
         /\ \A s : DeadLetteredAs(row, s).status = s
         /\ CreatedRow.status # "ABSENT"
         /\ CancelledRow(row).status # "ABSENT" /\ RetriedRow(row).status # "ABSENT"
         /\ Heartbeaten(row).status = row.status /\ Heartbeaten(row).retry = row.retry
         /\ ReclaimedRow(row).status = "ABSENT" => row.status = "ABSENT"
         /\ ReclaimedRow(row).retry = row.retry
         /\ [row EXCEPT !.lease = "expired"].status = row.status
         /\ [row EXCEPT !.lease = "expired"].retry = row.retry
         /\ [row EXCEPT !.backoff = FALSE].status = row.status
         /\ [row EXCEPT !.backoff = FALSE].retry = row.retry
  BY DEF Rows, ClaimedBy, HeldAs, ReleasedAs, RequeuedForRetry, DeadLetteredAs, CreatedRow,
         AbsentRow, CancelledRow, RetriedRow, Heartbeaten, ReclaimedRow

LEMMA AbsentWrite ==
  ASSUME TypeInv, AbsentInv, NEW t \in Tasks, NEW row, Write(t, row),
         row.status # "ABSENT" \/ (row.status = rows[t].status /\ row.retry = rows[t].retry)
  PROVE  AbsentInv'
  BY DEF TypeInv, TypeOK, AbsentInv, Write

LEMMA AbsentInductive == TypeInv /\ AbsentInv /\ [Next]_vars => AbsentInv'
  <1> SUFFICES ASSUME TypeInv, AbsentInv, [Next]_vars PROVE AbsentInv'
    OBVIOUS
  <1>0. /\ rows \in [Tasks -> Rows]
        /\ \A d \in Daemons : pc[d] # "idle" => Attempt(d) \in Tasks
    BY DEF TypeInv, TypeOK, Busy, Outcomes, Attempt
  <1>1. ASSUME NEW d \in Daemons, DaemonStep(d), rows' # rows PROVE AbsentInv'
    <2>1. CASE Claim(d)
      <3>1. PICK t \in Tasks : Write(t, ClaimedBy(rows[t], d))
        BY <2>1 DEF Claim
      <3> QED BY <1>0, <3>1, Existing, AbsentWrite
    <2>2. CASE ~ Claim(d)
      <3>1. pc[d] # "idle"
        BY <1>1, <2>2 DEF DaemonStep, DaemonAttempt, GateBDenied, StartRunning, Heartbeat,
               SpecRejected, AgentFailed, EnterTesting, Finalize, RecordResult, AttemptThrows,
               Succeeded, ScheduleRetry, DeadLetter, RecordDeadLetter, Crash, Executing
      <3>2. PICK t \in Tasks : t = Attempt(d)
        BY <1>0, <3>1
      <3>3. PICK row : /\ Write(t, row)
                       /\ \/ \E s \in Active : row = HeldAs(rows[t], s, d)
                          \/ \E s \in Settled : \E e : row = ReleasedAs(rows[t], s, e)
                          \/ row = Heartbeaten(rows[t])
                          \/ \E n : row = RequeuedForRetry(rows[t], n)
                          \/ \E s \in Settled : row = DeadLetteredAs(rows[t], s)
        <4>1. DeadLetterStatus(d) \in Settled
          BY DEF DeadLetterStatus, Settled
        <4> QED BY <1>1, <2>2, <3>2, <4>1
                DEF DaemonStep, DaemonAttempt, GateBDenied, StartRunning, Heartbeat,
                    SpecRejected, AgentFailed, EnterTesting, Finalize, RecordResult, AttemptThrows,
                    Succeeded, ScheduleRetry, DeadLetter, RecordDeadLetter, Crash, Attempt, Active,
                    Settled
      <3>4. row.status # "ABSENT" \/ (row.status = rows[t].status /\ row.retry = rows[t].retry)
        BY <1>0, <3>3, Existing DEF Active, Settled
      <3> QED BY <3>3, <3>4, AbsentWrite
    <2> QED BY <2>1, <2>2
  <1>2. ASSUME NEW r \in Reapers, ReaperStep(r), rows' # rows PROVE AbsentInv'
    <2>1. PICK s \in batch[r] : Write(s.id, Recovered(s, rows[s.id]))
      BY <1>2 DEF ReaperStep, ReaperFind, ReaperRecover, ReaperSkip, ReaperRecordDeadLetter
    <2>2. s.id \in Tasks
      BY DEF TypeInv, TypeOK, Snapshots
    <2>3. Recovered(s, rows[s.id]).status # "ABSENT"
      BY <1>0, <2>2, Existing DEF Recovered
    <2> QED BY <2>1, <2>2, <2>3, AbsentWrite
  <1>3. ASSUME NEW t \in Tasks, TaskStep(t) PROVE AbsentInv'
    <2>1. PICK row : /\ Write(t, row)
                     /\ \/ row.status # "ABSENT"
                        \/ row.status = rows[t].status /\ row.retry = rows[t].retry
      <3>1. PICK row : /\ Write(t, row)
                       /\ \/ row = CreatedRow
                          \/ row = CancelledRow(rows[t])
                          \/ row = RetriedRow(rows[t])
                          \/ row = [rows[t] EXCEPT !.lease = "expired"]
                          \/ row = [rows[t] EXCEPT !.backoff = FALSE]
        BY <1>3 DEF TaskStep, Create, Cancel, Retry, Operate, LeaseExpires,
                    AbandonedLeaseExpires, Lapse, BackoffElapses
      <3>2. \/ row.status # "ABSENT"
            \/ row.status = rows[t].status /\ row.retry = rows[t].retry
        BY <1>0, <3>1, Existing, ZenonT(60)
      <3> QED BY <3>1, <3>2
    <2> QED BY <2>1, AbsentWrite
  <1>4. CASE ReclaimStuck
    BY <1>0, <1>4, Existing DEF ReclaimStuck, AbsentInv
  <1>5. CASE UNCHANGED rows
    BY <1>5 DEF AbsentInv
  <1> QED BY <1>1, <1>2, <1>3, <1>4, <1>5 DEF Next, vars

LEMMA InitImplements == Init => Queue!Init
  BY DEF Init, AbsentRow, StateOf, HoldersOf, Active, Settled, Queue!Init

\* The lifecycle implements the queue: whatever daemons, reapers, operators and
\* crashes do, an undisturbed task is handed to one daemon at a time, closed and
\* put back by that daemon only, each time one retry later.
THEOREM LifecycleImplementsQueue == Spec => ImplementsQueue
  <1>1. QueueInv /\ [Next]_vars => QueueInv'
    BY TypeInductive, RetryInductive, LeaseInductive, AbsentInductive DEF QueueInv
  <1>2. Init => QueueInv
    <2>1. Init => RetryInv
      BY RetryConfigAssumption DEF Init, RetryInv, RetryBound, AbsentRow
    <2>2. Init => AbsentInv
      BY DEF Init, AbsentInv, AbsentRow
    <2> QED BY <2>1, <2>2, TypeInitial, LeaseInitial DEF QueueInv
  <1>3. QueueInv /\ QueueInv' /\ [Next]_vars => [Queue!Next]_(Queue!queueVars)
    <2> SUFFICES ASSUME QueueInv, QueueInv', [Next]_vars PROVE [Queue!Next]_(Queue!queueVars)
      OBVIOUS
    <2>0. TypeInv' /\ RetryInv'
      BY DEF QueueInv
    <2>1. CASE Next
      BY <2>0, <2>1, DaemonImplements, ReaperImplements, TaskImplements, ReclaimImplements DEF Next
    <2>2. CASE UNCHANGED vars
      BY <2>2 DEF vars, daemonVars, Queue!queueVars, HoldersOf, Attempt
    <2> QED BY <2>1, <2>2
  <1> QED BY <1>1, <1>2, <1>3, InitImplements, PTL DEF Spec, ImplementsQueue, Queue!Spec

-----------------------------------------------------------------------------
everything == << historyVars, supervisorVars >>

-----------------------------------------------------------------------------
(* One process per service *)

\* No live process of s is missing from its pid file.
Listed(s) == alive[s] \subseteq {pidFile[s]}

\* No service has two live processes.  A pending restart must not spawn beside
\* a process its pid file does not name, so while the supervisor would still
\* act on one, whatever lives is listed.
ProcessInv ==
  /\ shuttingDown \in BOOLEAN
  /\ timers \in [Services -> Nat]
  /\ alive = [s \in Services |-> alive[s]]
  /\ pidFile = [s \in Services |-> pidFile[s]]
  /\ \A s \in Services : \A p, q \in alive[s] : p = q
  /\ \A s \in Services : timers[s] > 0 /\ ~ shuttingDown => Listed(s)

\* startService keeps the invariant when whatever lives of the services it
\* starts is listed: a listed process is adopted, and nothing else lives.
LEMMA StartServicesListed ==
  ASSUME ProcessInv, NEW started \in SUBSET Services, StartServices(started),
         \A s \in started : Listed(s)
  PROVE  /\ alive' = [s \in Services |-> alive'[s]]
         /\ pidFile' = [s \in Services |-> pidFile'[s]]
         /\ \A s \in Services : \A p, q \in alive'[s] : p = q
         /\ \A s \in started : alive'[s] \subseteq {pidFile'[s]}
         /\ \A s \in Services \ started :
              alive'[s] = alive[s] /\ pidFile'[s] = pidFile[s]
<1> DEFINE fresh == { s \in started : MustSpawn(s) }
<1>1. /\ alive' = [s \in Services |->
                     IF s \in fresh THEN alive[s] \cup {spawned'[s]} ELSE alive[s]]
      /\ pidFile' = [s \in Services |->
                     IF s \in fresh THEN spawned'[s] ELSE pidFile[s]]
  BY DEF StartServices
<1>2. ASSUME NEW s \in fresh PROVE s \in Services /\ alive[s] = {}
  BY DEF MustSpawn, IsPidAlive, Listed
<1>3. ASSUME NEW s \in Services
      PROVE  /\ s \in fresh => alive'[s] = {pidFile'[s]}
             /\ s \notin fresh => alive'[s] = alive[s] /\ pidFile'[s] = pidFile[s]
  <2>1. CASE s \in fresh
    BY <1>1, <1>2, <2>1
  <2>2. CASE s \notin fresh
    BY <1>1, <2>2
  <2> QED BY <2>1, <2>2
<1>4. fresh \subseteq started
  OBVIOUS
<1>5. /\ alive' = [s \in Services |-> alive'[s]]
      /\ pidFile' = [s \in Services |-> pidFile'[s]]
  BY <1>1
<1>6. ASSUME NEW s \in Services PROVE \A p, q \in alive'[s] : p = q
  BY <1>3 DEF ProcessInv
<1>7. ASSUME NEW s \in started PROVE alive'[s] \subseteq {pidFile'[s]}
  BY <1>3 DEF Listed
<1> HIDE DEF fresh
<1> QED BY <1>3, <1>4, <1>5, <1>6, <1>7

\* A process that dies leaves none of its service, whoever hears of it.
LEMMA ExitListed ==
  ASSUME ProcessInv, NEW s \in Services, NEW p \in alive[s], ProcessExits(s, p),
         UNCHANGED shuttingDown
  PROVE  ProcessInv'
<1>1. /\ alive' = [alive EXCEPT ![s] = @ \ {p}]
      /\ pidFile' = [pidFile EXCEPT ![s] = 0] \/ pidFile' = pidFile
  BY DEF ProcessExits, OnExit
<1>2. timers' \in [Services -> Nat]
  <2>1. CASE timers' = timers
    BY <2>1 DEF ProcessInv
  <2>2. CASE \E n \in {timers[s], timers[s] + 1} : timers' = [timers EXCEPT ![s] = n]
    BY <2>2 DEF ProcessInv
  <2> QED BY <2>1, <2>2 DEF ProcessExits, OnExit
<1>3. alive'[s] = {}
  BY <1>1 DEF ProcessInv
<1>4. ASSUME NEW t \in Services, t # s
      PROVE  alive'[t] = alive[t] /\ pidFile'[t] = pidFile[t] /\ timers'[t] = timers[t]
  <2>1. alive'[t] = alive[t] /\ pidFile'[t] = pidFile[t]
    BY <1>1, <1>4 DEF ProcessInv
  <2>2. timers'[t] = timers[t]
    BY <1>4 DEF ProcessExits, OnExit, ProcessInv
  <2> QED BY <2>1, <2>2
<1>5. /\ alive' = [t \in Services |-> alive'[t]]
      /\ pidFile' = [t \in Services |-> pidFile'[t]]
  BY <1>1 DEF ProcessInv
<1>6. \A t \in Services : \A a, b \in alive'[t] : a = b
  BY <1>3, <1>4 DEF ProcessInv
<1>7. \A t \in Services : timers'[t] > 0 /\ ~ shuttingDown' => alive'[t] \subseteq {pidFile'[t]}
  BY <1>3, <1>4 DEF ProcessInv, Listed
<1> QED BY <1>2, <1>5, <1>6, <1>7 DEF ProcessInv, Listed

\* A restart timer spawns where nothing lives.
LEMMA TimerListed ==
  ASSUME ProcessInv, NEW s \in Services, TimerFires(s)
  PROVE  ProcessInv'
<1>1. /\ timers' \in [Services -> Nat]
      /\ \A t \in Services : timers'[t] > 0 => timers[t] > 0
  BY DEF TimerFires, ProcessInv
<1>2. UNCHANGED shuttingDown /\ timers[s] > 0
  BY DEF TimerFires
<1>3. CASE shuttingDown
  BY <1>1, <1>2, <1>3 DEF TimerFires, Restart, ProcessInv, Listed
<1>4. CASE ~ shuttingDown
  <2>1. StartServices({s}) /\ Listed(s)
    BY <1>2, <1>4 DEF TimerFires, Restart, ProcessInv
  <2>2. /\ alive' = [t \in Services |-> alive'[t]]
        /\ pidFile' = [t \in Services |-> pidFile'[t]]
        /\ \A t \in Services : \A p, q \in alive'[t] : p = q
        /\ alive'[s] \subseteq {pidFile'[s]}
        /\ \A t \in Services \ {s} : alive'[t] = alive[t] /\ pidFile'[t] = pidFile[t]
    BY <2>1, StartServicesListed
  <2> QED BY <1>1, <1>2, <2>2 DEF ProcessInv, Listed
<1> QED BY <1>3, <1>4

\* The operator starts services only while every live process is listed.
LEMMA StartListed ==
  ASSUME ProcessInv, Start
  PROVE  ProcessInv'
<1>1. \A s \in Services : Listed(s)
  BY DEF Start, Unlisted, Listed
<1>2. UNCHANGED timers /\ shuttingDown' \in BOOLEAN
  BY DEF Start, ProcessInv
<1>3. ASSUME NEW started \in SUBSET Services, StartServices(started) PROVE ProcessInv'
  <2>1. /\ alive' = [s \in Services |-> alive'[s]]
        /\ pidFile' = [s \in Services |-> pidFile'[s]]
        /\ \A s \in Services : \A p, q \in alive'[s] : p = q
        /\ \A s \in started : alive'[s] \subseteq {pidFile'[s]}
        /\ \A s \in Services \ started : alive'[s] = alive[s] /\ pidFile'[s] = pidFile[s]
    BY <1>1, <1>3, StartServicesListed
  <2>2. \A s \in Services : alive'[s] \subseteq {pidFile'[s]}
    BY <1>1, <2>1 DEF Listed
  <2> QED BY <1>2, <2>1, <2>2 DEF ProcessInv, Listed
<1> QED BY <1>3 DEF Start

\* stopService takes a service off its pid file only while no restart of it is
\* pending, or none will be acted on.
LEMMA StopListed ==
  ASSUME ProcessInv, Stop
  PROVE  ProcessInv'
<1>1. UNCHANGED << timers, alive >>
  BY DEF Stop
<1>2. CASE \E s \in Services :
             timers[s] = 0 /\ StopServices({s}) /\ UNCHANGED shuttingDown
  <2>1. PICK s \in Services :
               timers[s] = 0 /\ StopServices({s}) /\ UNCHANGED shuttingDown
    BY <1>2
  <2>2. pidFile' = [t \in Services |-> IF t \in {s} THEN 0 ELSE pidFile[t]]
    BY <2>1 DEF StopServices
  <2> QED BY <1>1, <2>1, <2>2 DEF ProcessInv, Listed
<1>3. CASE StopServices(Services) /\ shuttingDown' = TRUE
  <2>1. pidFile' = [t \in Services |-> 0]
    BY <1>3 DEF StopServices
  <2> QED BY <1>1, <1>3, <2>1 DEF ProcessInv, Listed
<1> QED BY <1>2, <1>3 DEF Stop

LEMMA ProcessInductive == SupervisedSpec => []ProcessInv
<1>1. SupervisedInit => ProcessInv
  <2> SUFFICES ASSUME SupervisedInit PROVE ProcessInv
    OBVIOUS
  <2>1. /\ shuttingDown = FALSE
        /\ timers = [s \in Services |-> 0]
        /\ pidFile = [s \in Services |-> 0]
        /\ alive = [s \in Services |-> {}]
    BY DEF SupervisedInit, SupervisorInit
  <2>2. timers \in [Services -> Nat]
    BY <2>1
  <2>3. \A s \in Services : ~ (timers[s] > 0) /\ alive[s] = {}
    BY <2>1
  <2> QED BY <2>1, <2>2, <2>3 DEF ProcessInv, Listed
<1>2. ProcessInv /\ [SupervisedNext]_everything => ProcessInv'
  <2> SUFFICES ASSUME ProcessInv, [SupervisedNext]_everything PROVE ProcessInv'
    OBVIOUS
  <2>1. ASSUME UNCHANGED << shuttingDown, timers, alive, pidFile >> PROVE ProcessInv'
    BY <2>1 DEF ProcessInv, Listed
  <2>2. CASE UNCHANGED everything
    BY <2>1, <2>2 DEF everything, supervisorVars
  <2>3. CASE \E msg \in Messages : AttemptFails(msg)
    BY <2>1, <2>3 DEF AttemptFails, supervisorVars
  <2>4. CASE \E s \in Services : TimerFires(s)
    BY <2>4, TimerListed
  <2>5. CASE \E s \in Services : ServiceCrashes(s) \/ ServiceObeysSignal(s)
    BY <2>5, ExitListed DEF ServiceCrashes, ServiceObeysSignal
  <2>6. CASE Start
    BY <2>6, StartListed
  <2>7. CASE Stop
    BY <2>7, StopListed
  <2>8. CASE SupervisorCrashes
    <3>1. /\ shuttingDown' = FALSE
          /\ timers' = [s \in Services |-> 0]
          /\ UNCHANGED << pidFile, alive >>
      BY <2>8 DEF SupervisorCrashes
    <3>2. timers' \in [Services -> Nat] /\ \A s \in Services : ~ (timers'[s] > 0)
      BY <3>1
    <3> QED BY <3>1, <3>2 DEF ProcessInv, Listed
  <2>9. CASE SupervisorReturns
    BY <2>1, <2>9 DEF SupervisorReturns
  <2> QED BY <2>2, <2>3, <2>4, <2>5, <2>6, <2>7, <2>8, <2>9
          DEF SupervisedNext, SupervisorStep
<1> QED BY <1>1, <1>2, PTL DEF SupervisedSpec, everything

\* No service ever has two live processes, through restart timers, restarts by
\* hand, shutdowns and a supervisor that died and came back.
THEOREM OneProcess == SupervisedSpec => []OneProcessPerService
<1>1. ProcessInv => OneProcessPerService
  <2> SUFFICES ASSUME ProcessInv, NEW s \in Services PROVE Cardinality(alive[s]) <= 1
    BY DEF OneProcessPerService
  <2>1. CASE alive[s] = {}
    BY <2>1, FS_EmptySet
  <2>2. CASE alive[s] # {}
    <3>1. PICK p : alive[s] = {p}
      BY <2>2 DEF ProcessInv
    <3> QED BY <3>1, FS_Singleton
  <2> QED BY <2>1, <2>2
<1> QED BY <1>1, ProcessInductive, PTL

-----------------------------------------------------------------------------
(* The history of a failing task *)

Backoffs == UNION { ComputeBackoff(n) : n \in Nat }

\* A task that is still retried has been retried after each of its failures, so
\* the policy judges the next one by their number; unless it is quarantined, at
\* most one of them was a validation error.
HistoryInv ==
  /\ history \in Seq(Messages)
  /\ delays \in Seq(Backoffs)
  /\ Len(delays) <= MaxRetries
  /\ fate = "RETRY" => Len(delays) = Len(history)
  /\ fate # "QUARANTINE" =>
       \A i, j \in 1 .. Len(history) :
         "validation" \in history[i] /\ "validation" \in history[j] => i = j

\* The decision the policy takes on a message.
LEMMA EvaluateCases ==
  ASSUME NEW msg, NEW n \in Nat
  PROVE  /\ "validation" \in msg /\ n >= 1 => Evaluate(msg, n) = "QUARANTINE"
         /\ Evaluate(msg, n) = "RETRY" => n + 1 <= MaxRetries
BY RetryConfigAssumption DEF Evaluate, FailureClass, Poisonous

LEMMA HistoryStep ==
  ASSUME HistoryInv, NEW msg \in Messages, Fail(msg)
  PROVE  HistoryInv'
<1> DEFINE n == Len(history)
<1>1. /\ n \in Nat
      /\ retryCount = n /\ Len(delays) = n
      /\ fate = "RETRY"
  BY LenProperties DEF HistoryInv, Fail, retryCount
<1>2. /\ history' \in Seq(Messages) /\ Len(history') = n + 1
      /\ \A i \in 1 .. n : history'[i] = history[i]
      /\ history'[n + 1] = msg
  BY AppendProperties DEF HistoryInv, Fail
<1>3. fate' = Evaluate(msg, n)
  BY <1>1 DEF Fail
<1>4. /\ delays' \in Seq(Backoffs)
      /\ Len(delays') <= MaxRetries
      /\ fate' = "RETRY" => Len(delays') = n + 1
  <2>1. CASE fate' = "RETRY"
    <3>1. PICK delay \in ComputeBackoff(n) : delays' = Append(delays, delay)
      BY <1>1, <2>1 DEF Fail
    <3>2. delay \in Backoffs
      BY <1>1, <3>1 DEF Backoffs
    <3>3. delays' \in Seq(Backoffs) /\ Len(delays') = n + 1
      BY <1>1, <3>1, <3>2, AppendProperties DEF HistoryInv
    <3>4. n + 1 <= MaxRetries
      BY <1>1, <1>3, <2>1, EvaluateCases
    <3> QED BY <3>3, <3>4
  <2>2. CASE fate' # "RETRY"
    BY <2>2 DEF Fail, HistoryInv
  <2> QED BY <2>1, <2>2
<1>5. ASSUME fate' # "QUARANTINE",
             NEW i \in 1 .. Len(history'), NEW j \in 1 .. Len(history'),
             "validation" \in history'[i], "validation" \in history'[j]
      PROVE  i = j
  <2>1. CASE "validation" \notin msg
    <3>1. i \in 1 .. n /\ j \in 1 .. n
      BY <1>1, <1>2, <1>5, <2>1
    <3>2. "validation" \in history[i] /\ "validation" \in history[j]
      BY <1>2, <1>5, <3>1
    <3> QED BY <1>1, <3>1, <3>2 DEF HistoryInv
  <2>2. CASE "validation" \in msg
    <3>1. n = 0
      BY <1>1, <1>3, <1>5, <2>2, EvaluateCases
    <3> QED BY <1>2, <3>1
  <2> QED BY <2>1, <2>2
<1> QED BY <1>1, <1>2, <1>4, <1>5 DEF HistoryInv

LEMMA HistoryInductive == SupervisedSpec => []HistoryInv
<1>1. SupervisedInit => HistoryInv
  <2> SUFFICES ASSUME SupervisedInit PROVE HistoryInv
    OBVIOUS
  <2>1. history = << >> /\ delays = << >> /\ fate = "RETRY"
    BY DEF SupervisedInit, HistoryInit
  <2> QED BY <2>1, EmptySeq, RetryConfigAssumption DEF HistoryInv
<1>2. HistoryInv /\ [SupervisedNext]_everything => HistoryInv'
  <2> SUFFICES ASSUME HistoryInv, [SupervisedNext]_everything PROVE HistoryInv'
    OBVIOUS
  <2>1. CASE \E msg \in Messages : AttemptFails(msg)
    BY <2>1, HistoryStep DEF AttemptFails
  <2>2. CASE UNCHANGED historyVars
    BY <2>2 DEF HistoryInv, historyVars
  <2> QED BY <2>1, <2>2 DEF SupervisedNext, SupervisorStep, everything
<1> QED BY <1>1, <1>2, PTL DEF SupervisedSpec, everything

\* The second syntax or validation error of a task quarantines it, whatever the
\* policy's configuration, the other messages and the crashes in between.
THEOREM SecondValidationIsPoison == SupervisedSpec => []RepeatedValidationIsPoison
<1>1. HistoryInv => RepeatedValidationIsPoison
  <2> DEFINE S == { i \in 1 .. Len(history) : "validation" \in history[i] }
  <2> SUFFICES ASSUME HistoryInv, Cardinality(S) >= 2, fate # "QUARANTINE"
               PROVE  FALSE
    BY DEF RepeatedValidationIsPoison
  <2>1. CASE S = {}
    BY <2>1, FS_EmptySet
  <2>2. CASE S # {}
    <3>1. PICK p : p \in S
      BY <2>2
    <3>2. \A i \in S : i = p
      BY <3>1 DEF HistoryInv
    <3>3. S = {p}
      BY <3>1, <3>2
    <3>4. Cardinality(S) = 1
      BY <3>3, FS_Singleton
    <3> HIDE DEF S
    <3> QED BY <3>4
  <2> QED BY <2>1, <2>2
<1> QED BY <1>1, HistoryInductive, PTL

\* A task is retried at most max_retries times, so it is attempted at most once
\* more than that.
THEOREM RetriesAreBounded ==
  SupervisedSpec => [](fate = "RETRY" => Len(history) <= MaxRetries)
<1>1. HistoryInv => (fate = "RETRY" => Len(history) <= MaxRetries)
  BY DEF HistoryInv
<1> QED BY <1>1, HistoryInductive, PTL
=============================================================================
