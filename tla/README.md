# Verification of pub-dev-loop

TLA+ models of the PDL (the autonomous development loop of `src/src/pdl`), of the
providers, the office and the browser around it, the TLC configurations that
check them, and TLAPS proofs of the properties that matter most. Paths are
relative to the repository, which is `src/`.

- [1. The system](#1-the-system)
- [2. Modules and the code](#2-modules-and-the-code)
- [3. Runs](#3-runs)
- [4. Fairness](#4-fairness)
- [5. Seen while modelling](#5-seen-while-modelling)
- [6. Proofs](#6-proofs)
- [7. Not modelled](#7-not-modelled)
- [8. Plan](#8-plan)

## 1. The system

A task is a row of the Postgres table `tasks`. The API creates it; a worker
daemon claims it under a lease, runs an agent on it, finalizes the work,
persists it to a remote branch and delivers it by a pull request; a scheduler
decides whether the daemon goes on; a reaper recovers tasks whose lease ran
out; a governance engine may forbid any of this at five gates (A claim, B
execution, C correction, D persistence, E continuation). Processes share the
database and nothing else: no locks, no messages.

| component | state | operations | talks to | what is hard | what makes it correct |
|---|---|---|---|---|---|
| task repository (`repository.ts`) | rows: status, lease owner and deadline, retry count, `next_retry_at`, dead-letter mark | create, claim, heartbeat, update, cancel, retry, reclaimStuck, findStaleTasks, recoverStaleTask | everybody | most updates are by id and ask neither for owner nor status | one owner per lease; bounded retries |
| correction worker (`pdl/worker/correction-worker.ts`) | `lastExecutedTask`, `lastFinalizeStatus`, heartbeat timer | executeOnce | repository, governance, agent, finalizer, persistence | eight awaits that write the row, each a place to die or lose the lease | the outcome belongs to this attempt and to its owner |
| scheduler (`pdl/scheduler`) | `activeSession`, `isLoopRunning`, `abortController`, session and cycle maps | start, stop, runLoop, recoverFromCrash | worker, governance, retry policy, DLQ, API | start and stop interleave with the loop at every await; sessions are shared by reference | a stop stops; budgets are kept; one task at a time |
| retry policy and classifier (`pdl/retry`) | none | classify, computeBackoff, evaluate | scheduler, reaper | overlapping patterns; a class that depends on the history | permanent failures are never retried; delays and retries bounded |
| reaper (`pdl/reaper`) | its timer, the batch of a cycle | runOnce | repository, governance, retry policy, DLQ | decides on rows it read earlier; several reapers | a recovery is decided on the row as it is |
| dead-letter queue (`pdl/dlq`) | records keyed by task and attempt | record, list, requeue | scheduler, reaper | row and record are two writes | no dead letter without record |
| governance (`pdl/governance`) | limits row, emergency file, per-process cache | loadLimits, gates A-E, updateLimits, kill switch | every gatekeeper | cached reads with two awaits under concurrent changes | an obstacle reaches Gate A, and the limits all gates read, in bounded time |
| persistence and delivery (`pdl/persistence`, `pdl/delivery`) | branch, pull request, CI, merge | persist, verify, deliver | git, GitHub | the remote moves between check and use; timeouts after the fact | nothing is merged that was not authorised |
| intake and execution spec (`pdl/service/task-intake-service.ts`, `task/*`, `execution/*`) | request, transaction, spec with status and hash | draft, validate, seal, verify | API, worker | row and specification are several queries | nobody runs an unsealed or changed specification |
| trust boundary and tools (`pdl/security`, `tools`) | files of a workspace | write, run, commit, scan | agent, finalizer, persistence | what git shows at the check is not all that is committed | nothing protected reaches the remote |
| finalizer, correction loop, router worker (`finalizer.ts`, `pdl/correction`, `router-worker.ts`) | workspace, attempts, corrections | execute with retry, finalize, correct, push | providers, tools, remote | late providers, cancellations, lost pushes | completed work is on the remote, and is the winner's own |
| providers and model policy (`providers`, `routing`) | model health, queue, conversation, costs | resolve, ask, run tools, fall back | model servers | failures of every kind between rounds; health shared by executions | allowed models only, bounded spending, one gateway per workspace |
| autonomy loop (`office/autonomy-loop.ts`, `autonomous-execution-controller.ts`) | mission, system state, cycles | acquire, execute, recover, finish | database, intake | two processes, a crash at every await, maps that replace the database | verified means evidence |
| learning (`office/memory*.ts`, `lesson*.ts`, `pattern-detection.ts`, `learning-feedback.ts`) | memories, patterns, candidates, lessons | ingest, observe, institutionalise, supersede, retrieve | events, agents' prompts | replays and restarts | nothing is learnt twice or comes back |
| office (`api-worker.ts`, `office/*`) | isolates' memory, events table, streams, conversations, the worker container | plans, pipelines, approvals, reviews, commands, stream | clients, database, container | isolates share only the table; evictions | order of checkpoints, no lost events, work is recovered |
| PDL server (`pdl/api/entry.ts`, `pdl/handoff/adapter.ts`) | memory of one process, ring buffer, rows | the same routes, ingestion, stream | browsers, database | restarts between the steps of a request | the stream is exact, a promotion is taken once |
| context assembly (`office/context-assembly.ts`, `decision-context.ts`) | none | assemble, decide | agents | budgets and priorities | history never displaces the task |
| browser (`frontend/src/store`, `services`) | store, timers, stream client, player | load, walk, chat, execute plan | API worker | overlapping requests and timers | what is shown converges |
| supervisor (`pdl/service/supervisor.ts`) | child processes, pid files, timers | start, stop, restart, recover | worker processes | late exits, restarts racing stops | one process per service |

`PROJECT.json` lists every component with its sources and status, and under
`hazards` each place where the code is hard to test, with the properties that
watch it.

## 2. Modules and the code

An action is the whole stretch of a handler between two awaits that touch
shared state. `PROJECT.json` (`map`) gives the lines of every definition.

**RetryPolicy** — the classifier and the policy as operators. An error message
is free text; it is modelled as the set of classifier patterns it matches, so
that every overlap of patterns is an input. `Poisonous`, `FailureClass`,
`Evaluate` and `ComputeBackoff` follow the order of the rules in
`classification.ts` and `policy.ts`. `freeOnlyPolicy` stands for a wording that
the system produces and no pattern matches.

**TaskRepository** — a row (status, retry count, error, owner, lease, backoff,
dead-letter mark) and what each statement of `repository.ts`, and each `update`
issued by the scheduler, does to it. Time is abstracted: a lease is none, valid
or expired, a backoff is pending or over.

**TaskLifecycle** — composes daemons (worker and scheduler), reapers, API, the
legacy start-up, time and crashes over one table. `pc` is where a daemon is in
`runLoop`/`executeOnce`; `last` is `lastExecutedTask`; `completed` is
`lastFinalizeStatus = 'COMPLETED'`; `batch`, `overdue` and `pending` are the
locals of a reaper cycle (the rows it read, its `now`, the dead letter it has to
record). Governance, agent, finalizer and persistence are choices of the
environment here; **Attempt** models what happens inside one run. `lapsed` is a
history variable: the tasks whose lease has run out, or which an operator has touched, at some time.

**Governance** — limits from a row (`Number(x) || default`, fail closed), Gate A
and Gate E, as operators used by the next two modules.

**GovernanceCache** — `loadLimits` of several callers in several processes, cut
at its two awaits, against the routes that change kill switch and limits, the
emergency file and an unreachable database. The clock is explicit. `since` (how
long each obstacle has stood) is history.

**Scheduler** — concurrent `start()` and `stop()` calls, loops, the abort
controller and the session objects, which the code shares by reference between
`activeSession` and the map and copies in `updateSession`; the model keeps the
references. `succeeded`, `failing` and `late` are history.

**GitHub** — the remote as `GitHubClient` meets it (external): branch, pull
requests, checks, the two sources of governance, the default branch, requests in
flight. It binds a merge to the head the request names and refuses a second open
pull request; it is not relied on to enforce reviews or checks. The operators
that read it (`Strictest`, `Green`, `Approved`) are those of `pdl/delivery`.

**Delivery** — extends GitHub by `RemoteDeliveryGate.deliver()`, one action per
request: baseline, reconciliation with the saved state, listing, reuse or
creation of the pull request, three readings of governance, the checks, the
revalidation (pull request, reviews, rules, protection, checks), the merge, the
reconciliation of a lost answer, causal verification, the save of
`task.result.delivery`. A request may fail, and a mutation whose answer is lost
stays in `pending`. A rule is its number of approvals, whether it requires the
one check, and whether it permits a merge commit. Drafts, mergeability and the
feature gate are refusals (`Refused`) the environment may choose. `seen`,
`cleared` and `landed` are history. Every running, failed or oddly concluded
check is `red`: none of them lets a merge through, and the observer may give up
at any time.

**BranchRules** — the rulesets and classic protections as GitHub answers them,
their normalisation, the strictest union and the judgement of the revalidation,
as operators Delivery uses.

**TaskQueue** — what a queue promises, in thirty lines: a task
nobody has disturbed is handed to one worker, closed only by it and put back
only by it, one retry later. `TaskLifecycle` instantiates it over its own variables
(status column → `state`, daemons between claim and the
handling of the outcome → `holders`, retry count → `used`, `lapsed` →
`disturbed`); `ImplementsQueue` says that every step of the detailed
specification is one of the queue, or a stutter.

**Supervisor** — all histories of failures of one task (the messages so far, the
delays given, the task's fate), and around it services as child processes with pid
files, restart timers, manual commands, shutdown, and a supervisor that dies and
is started again while its children live. The failing task is worked off only by
a live worker.

**TrustBoundary, Intake, Attempt** — operators for path classes,
configuration integrity, environment and repository authorisation; for what
intake refuses and how a specification is sealed; for how a failed finalization
is read; and the state machine from intake to the final row. A change of a file
is what it touches, how git status shows it and who made it; a commit is a
sequence of change sets. `zombies` are providers the timer gave up on.

**ModelPolicy, Providers** — the registry, tiers, health tracker with its circuit
breaker, paid guard and calibration as operators; executions by the two gateways
as state machines with rounds, retries, tools, time-outs and cancellation, two
of them sharing one health map.

**Mission** — gaps and the choice of the next action as operators;
two callers of the controller, each await a step, over a database that may fail
and maps that stand in for it. `doubled` is history: the cycles that have had rows in the
database and in a map at once.

**MemoryStore, Lessons, Learning** — the memory map with its governance; patterns,
candidates, lessons; and the pipeline that ingests, replays and feeds back.

**OfficeRules, OfficeApi** — reading of messages, assignment, plans, pipelines and
reviews as operators; isolates, their memory and evictions, the events table
with INSERTs under way, streams that replay, poll and listen, commands, tasks and
the durable object of the worker container. A behaviour has one `workload`, the
kind of requests its clients send; the parts of the API that share no state are
thereby checked one by one.

**PdlServer, DeadLetterStore, ContextAssembly, OfficeSystem** — the PDL API as one
process (ring buffer, browsers, ingestion in its steps, restart); the dead-letter
table with the map of every process; the blocks an agent is given to read with
the budget of each class of authority, and the decision context; and their
composition with OfficeApi.

**Workstation** — derivation of what is shown, and the browser: store,
stream client, polling, timers of walks and bubbles, plan execution, chat and
record player, against a server of several isolates. An isolate has a list of
approvals and a numbering of events of its own (`approval.ts:34`, `events.ts:58`),
answers any request, and may be dropped; tasks and the table of events are shared.
A stream is kept as the worker keeps it: the isolate it is on, its cursor, its
SELECTs under way and what it has sent and the browser has not received. `passed`,
the rows whose number the cursor went past before they were read, is history.

**MC…** modules give small instances; the modules **…_proofs** hold the proofs
(section 6), one for each component or composition they are about.

Definitions called `X_Something` are mutants of `X`: a plausible mistake in the
same lines, which a property has to notice.

## 3. Runs

| run | instance | shows |
|---|---|---|
| `lifecycle_safety` | 1 task, 2 daemons with reapers, 3 errors (one per decision of the policy), 1 retry, 1 lapse under a live attempt, 1 crash, 1 operator call | `TypeOK`; `RetryBound`; `ExclusiveWhileLeased` and `OwnershipWhileLeased`: until its lease lapses or an operator interferes, a task is with one daemon, and its row carries that daemon, the status of its phase and the retry count it will write back; `RecoveryDecidedOnCurrentRow`; `DeadLettersRecorded` (without a crash) |
| `lifecycle_fair` | 2 tasks under a product limit of 1, 2 daemons, 1 reaper, 1 crash | `EverythingSettles`: in a queue that is polled, every task comes to rest for good, which takes leases that run out and recoveries that are retried; `ImplementsQueue` for two tasks that share the daemons |
| `retry_history` | 3 retries, all the messages of the instance, one supervised worker, 2 restarts, 2 crashes, 3 commands | `RepeatedValidationIsPoison`: what failed validation and was retried is given up, whatever else its history holds; `OneProcessPerService`: neither timers, commands, a shutdown nor a supervisor that came back start a second process; `TaskIsSettled`: crashes do not lose the task |
| `governance_staleness` | API and daemon process, 2 callers, 1 request, 1 change of file or database, Ttl 2, clock to 3 | `ObstaclesReachEveryGate`: kill switch, level 0, emergency file and outage each stop Gate A in every process one cache lifetime after they appear (gates B to D read the same limits but do not ask for the level) |
| `scheduler_sessions` | 2 sessions one after the other, 1 stop at any point, 2 governance changes | `BudgetKept`: no session executes more tasks than its limits allow; `AtMostOneLateDispatch`: a loop told to stop executes at most once more; `StopTakesEffect`: and it ends, also when its queue stays empty |
| `delivery_gate` | 1 worker, 2 calls, 2 commits, 2 pull requests, 3 rules per source, 2 events (crash, push, review, closure, manual merge, check run, other merge, at most 1 change of rules and 1 of base) | `MergedWasCleared`: what the gate gets merged was open at that head, green, approved and of a permitted method by both sources of governance, each at some moment of the revalidation; `CompletedIsInMain` (unless a base changed); `RejectionIsHeeded` |
| `attempt` | 30 jobs (tasks, products, agents, faults), 2 overlapping runs, 2 providers, 1 commit of the agent, 1 foreign push | `CompletedIsPersisted`: a completed task's work is on the remote; `ProtectedNeverPushed`; `WinnerIsOwnWork`: only the winner's own work gets there, no late provider's; `CancelHeeded`; `ClaimEnds`: every claim ends |
| `routing` | 2 executions, 2 retries, 2 rounds, 2 tool calls, configurations of one gateway and of both | `OneGatewayPerWorkspace`: no gateway takes over a workspace another has changed; `RoutingPolicyKept`: allowed models only, paid requests bounded, every cooldown ends, calibration only reorders; `ConversationWellFormed`: every call has its result, and is the model's; `ExecutionEnds` |
| `mission` | 2 callers in 1 or 2 processes, 2 cycles, 2 calls, 1 fault (crash or failed statement) | as long as no cycle has rows in two places (section 5), `VerifiedHasEvidence`: a capability is verified only by a task that verified it, in the database, in every map and for every caller; `CompletedMissionIsVerified` |
| `learning` | 5 events, 3 ingestions, replays, 3 interventions of people, 1 restart, retrieval limit 2 | `EligibleIsCorroborated`: a candidate counts tasks, not replays; `NoSilentReactivation`: nothing superseded or blocked comes back by itself; `PromptIsSound`: supersessions lead to a successor, prompts hold what the role may see |
| `office` | 2 isolates (one with a worker), 1 stream, poll limit 2, 2 projects; 1 browser, buffer of 3, 2 promotions; 2 processes with dead letters; 3 roles with texts below, at and above the budget; 1 fault | `ReleasedStepsAreCleared`: a step starts after its dependencies and its checkpoint; `StreamsAreComplete`: neither server's stream skips an event silently; `PromotionIsTakenOnce`; `LettersAreListed`: no dead letter is lost or reopened by merging maps and table; `BriefingIsSound`: an agent's texts keep their budget, are its own, and certainty rests on current evidence; `AlarmRecoversWork`: work of a dead container is taken up again |
| `workstation` | 18 scenarios of events, answers and user actions, 2 projects, 2 loads under way (also across switches), 1 or 2 isolates, 1 of them dropped, 3 events stored at once, late or never, 2 SELECTs of a stream under way, an event list of 2 | `EventsTakeEffectOnce`; `ScreenConverges`: the approvals shown become those of the active project as an isolate lists them, whatever the table of events has for it takes effect but for rows the stream had gone past, everybody asked replies, nobody is left standing |

Bounds, and why they are enough. Two daemons suffice for every race between
"this attempt" and "somebody else"; one task suffices for the properties of one
row, since no statement but the product limit relates two rows, and
`lifecycle_fair` has two for that limit. One retry gives a first attempt, a
retry and exhaustion. One lapse under a live attempt (`MaxLapses`) gives a
former owner and a new one; leases nobody renews run out without bound. One
crash falls at every point; a second one would find what the first can leave.
One operator call (`MaxOperations`) falls at every point. The proofs of section
6 hold for all of these at any value. In `governance_staleness` a clock of 3 and
a lifetime of 2 let a cache be filled before, at and after an obstacle and run
out. In the scheduler runs limits are 0 (which the code turns into 1), 1 and 2.
In `delivery_gate` the second call finds whatever the first, refused, lost,
crashed or completed at any point, has left; two events allow an approval and
something that overtakes it. One change of the rules is part of the claim, not
only a bound: the two sources are read by two requests, and a demand moved from
one to the other in between (two changes) is seen in neither.

In `workstation` two isolates suffice for lists and numbers that differ, two loads
for answers that overtake each other, and a project left and taken up again for
answers of the one before. Scenarios that are about walks, plans or chat have no
table to read from (an INSERT that fails is forgotten by the code too), those
about the table no loads; the LIMITs of its SELECTs, 50 and 100, are out of reach
of three events.

In `attempt` two runs of one task are what a lapsed lease leads to; two providers
give a late answer and a winner, one foreign push a remote that has moved. In
`routing` two executions suffice for a health record that changes under a queue
already resolved, and two rounds for what is remembered from one to the next. In
`mission` two callers meet in one process and in two, and the second of two calls
recovers what the first left. In `office` every workload has its own bounds
(`MCMaxRequests`, `MCMaxEvents`): a buffer of 3 and a poll of 2 are overrun by one
plan, which publishes four events; the fault falls between any two steps. The
texts of `office` fit, fit after a smaller one, or are cut.

`PatientStart` and `PatientStop` are assumptions on the callers: nobody calls
`start()` while a call or loop is under way, and nobody calls `stop()` while a
`start()` is. `scheduler_sessions` makes both, because the code keeps its promises
only then (section 5).

`RoutingPolicyKept`, `PromptIsSound`, `StreamsAreComplete`, `BriefingIsSound` and
`ScreenConverges` are conjunctions of parts named in their modules. The `TypeOK` of
the modules other than TaskLifecycle documents their variables; it is not a
property of a run, nor are the guards of single operations.

`CHECK_DEADLOCK FALSE` is set where requests, calls or scenarios are finitely many
and the system then rests: every run but `lifecycle_safety` and `lifecycle_fair`.

## 4. Fairness

`TaskLifecycle!FairSpec`: a daemon that has claimed a task carries its attempt
through (`WF DaemonAttempt`: its awaits return or throw, and `execSync` and
providers have time-outs), and time passes (`WF` of `BackoffElapses` and
`AbandonedLeaseExpires`). Nothing is assumed of operators, reapers (governance
may keep them from every cycle), or crashes. That a queue is polled
(`QueueIsPolled`) is not part of it, because a session ends after
`maxConsecutiveTasks` or `maxConsecutiveFailures` and only an operator or the
start of a process begins another; it is the hypothesis of `EverythingSettles`.

`Scheduler!FairSpec`: queries are answered, timers fire, `executeOnce()`
returns. Nobody has to call `start()` or `stop()`.

`Attempt`: every run takes its steps (`WF RunStep`) and the agent or correction
provider it waits for answers (`WF Answer`); the time-out of the router is a step
of the run, the correction provider's answer is an assumption, since nothing in
the code limits it. Crashes and cancellations are not fair.

`Providers`: an execution takes its local steps and its timer fires. No server has
to answer.

`Workstation`: polling goes on, each request of a load is answered or fails, the
stream client connects and retries, the stream's timer asks and its SELECTs are
answered or fail, what was sent arrives unless the stream breaks, and the steps of
a user's action go on. The INSERT of an event need never succeed. No timer of a walk or bubble is assumed.

`OfficeApi`: the alarm of the durable object fires (`WF Alarm(TRUE)`: Cloudflare
retries an alarm that throws) and leases run out. No client is assumed to do
anything.

`Supervisor`: timers fire, children that end are reaped, and the task is worked
off as long as somebody keeps a worker up.

## 5. Seen while modelling

Where the code does less than its documents say; the runs state what does hold.

Tasks and delivery:

- `pdl/reaper/reaper.ts:6` promises "zero duplicate execution". A lease may lapse
  under a live attempt, `claim()` (`repository.ts:149`) gives the task to a second
  daemon, and the first goes on; its updates are not guarded.
- `lastFinalizeStatus` is not reset by `executeOnce()` (`correction-worker.ts:580`):
  an attempt ended by Gate B, the spec check or an exception is judged by the
  previous cycle.
- A load of the limits under way when the cache is invalidated stores the old ones
  again (`policy-engine.ts:117`).
- `start()` checks its guard before an await and sets it after
  (`continuous-scheduler.ts:208`, `:276`): a stop in between is forgotten, two
  starts both run. `recoverFromCrash()` has no caller.
- `MainVerifier` asks only whether `main` has moved (`main-verifier.ts:62`), and
  nobody looks at the base of the merged pull request.
- `cancel()` and `retry()` have no status guard though `README.md:31-32` names the
  statuses; a daemon that lost its lease can move a QUARANTINED row back into the
  queue; a crash between a dead letter's two writes loses the record.
- The refusal of a paid model (`providers/router.ts:122`) is worded so that no
  classifier rule matches it, and is retried.
- A worker that dies between a merge and the save stays BLOCKED until the branch
  moves; `allThreadsResolved: true` and the absence of unattributed commits are
  constants; a later pull_request rule overwrites the merge methods of an earlier
  one; switching delivery off wipes the saved delivery state.

Attempts: the product's protected paths are checked only after the first
finalization; tests may write files after the checks, which `git add -A` commits
(the range scan before the push holds); an agent that commits by itself leaves a
clean tree, which is COMPLETED without a push; a cancellation between claim and
`executeWithRetry` is lost; the correction provider has no time-out; a review that
asks for a correction triggers none; `allowedPaths` is never checked; a FAILED
preflight does not stop an intake.

Routing: the model named by a server is asked in the next round without the
free-only filter; a timeout turns a DISABLED or resting model into a DEGRADED one;
when all models rest the best is asked anyway; a stream cut anywhere passes as
complete; paid attempts are counted per round; the fallback across providers and
the calibration report have no caller.

Mission and learning: a RUNNING cycle of another live process is taken for a crash;
WAITING_APPROVAL is never left; statements that fail are answered from maps, so
two processes may hold one cycle, one row in the database and another in a map. Then
`updateCycle()` (`autonomy-state-repository.ts:400`) may link the task of the map's
action to the database's row of a different one, and the recovery of that row
(`autonomous-execution-controller.ts:201`) takes a capability for verified by a task
made for another, although the controller means to be "evidence-first" (`:491`). Three
calls and two faults lead there, and the properties of `mission` hold until a cycle
has two rows. Also, supersession by an unknown id is accepted, and
TASK-scope memories may supersede across projects; a review passed in the third
round is signalled as blocked; institutionalising twice makes two lessons.

Office: a checkpoint route does not ask for the CEO's role, a rejected checkpoint
fails a COMPLETED pipeline, a grant makes a completed step READY; two isolates
number events alike, so a stream may skip a row that shares a number; events are
never persisted by the PDL server, and after its restart numbers begin again, so an
old `Last-Event-ID` skips events; concurrent ingests of one promotion make two
tasks, and a failed mark is answered as done; a dead letter resolved during an
outage is open again later, and nothing but tests resolves one; `allowedSources`
and `totalContextMaxChars` of the context assembly are never read, and a cut block
exceeds its budget by the mark at its end.

Browser: approvals are kept per isolate, so with several the polls alternate
between lists and the screen with them, and an eviction empties a list; a client
that has seen nothing gets no replay, and an event told live before its first poll
moves the cursor past older rows; a poll that began before a decision can set the CEO back to waiting; the
open pipeline of another project stays; overlapping actions reset each other's
spinner; a failed command invents a local task; a canned reply is labelled as the
model's.

Supervisor: `stopService()` alone is taken for a crash and restarted; `stopAll()`
and `startAll()` while an old child dies lose the new pid file; adopted children can
be neither watched nor stopped; the budget of restarts is never reset.

## 6. Proofs

Every theorem is about the specification the runs check, for all values of its
constants: any sets of tasks, daemons, processes, isolates or gates, and any bounds.
The invariants were first checked by TLC on the instances of section 3.

| theorem | states, for `Spec` | inductive invariant, and why it is needed |
|---|---|---|
| **TaskLifecycle_proofs** | | |
| `TypeCorrect` | `TypeOK` | `TypeInv` adds that a busy daemon has a claimed task: without it `last[d].id` of an outcome is not a task |
| `RetriesBounded` | `RetryBound` | `RetryInv` bounds the copies in `last` and in the reapers' batches too: the scheduler and the reaper write the copy plus one, not the row plus one |
| `LeaseIsExclusive`, `LeaseIsOwned` | `ExclusiveWhileLeased`, `OwnershipWhileLeased` | `LeaseInv`: both, and that a task not in `lapsed` has no expired lease. Exclusivity alone is not inductive: `claim()` tests the row, so the row has to say that somebody is at work |
| `RecoveryIsCurrent` | `RecoveryDecidedOnCurrentRow` | `RecoveryInv`: for a task still overdue at the `now` of the cycle, row and snapshot agree. Every update that changes retry count or error also clears or renews the deadline |
| `DeadLettersAreRecorded` | `DeadLettersRecorded` | `DeadInv`: besides, whoever is about to write a record has an attempt between 1 and `MaxRetries + 1`, which needs `RetryInv` |
| `LifecycleImplementsQueue` | `ImplementsQueue` | `QueueInv`: the type, retry and lease invariants, and that an absent task has no retries. Every action is shown to leave what the queue sees of each undisturbed task alone, or to be `Take`, `Close` or `PutBack` of one task |
| `OneProcess` | `OneProcessPerService` | `ProcessInv`: where the supervisor may still act on a timer or command, whatever lives is what the pid file names; a pending restart must not spawn beside it |
| `SecondValidationIsPoison` | `RepeatedValidationIsPoison` | `HistoryInv`: a task still retried has one delay per failure and, unless quarantined, at most one validation error among them |
| `RetriesAreBounded` | a task is retried at most `MaxRetries` times | the same |
| **Governance_proofs** | | |
| `SchedulerTypes` | `TypeOK` | `StoreInv`: every reference leads to an object of the session it is followed for; the object graph is shared, so types alone are not inductive |
| `OneLateDispatch` | `AtMostOneLateDispatch` | `LoopInv` (one loop at a time) and `LateInv` (a loop that dispatched late is told to stop for good and is past the points that lead to another dispatch). Assumes `PatientStart` |
| `BudgetIsKept` | `BudgetKept` | `BudgetInv`: the counters in the object the loop will read agree with what it has done, whichever copy `activeSession` is. Assumes `PatientStart` and `PatientStop` |
| `GovernanceTypes`, `ObstaclesAreNoticed` | `CacheTypeOK`, `ObstaclesReachEveryGate` | `GateInv`: a cached answer that permits was read before each standing obstacle appeared, or runs out within its lifetime, and the same for every load at each of its awaits |
| **Delivery_proofs** | | |
| `DeliveryTypes` | `TypeOK`, and that a call past the listing has a pull request | `CallsOK` |
| `RejectedStaysRejected` | `RejectionIsHeeded` | `RejectionInv`: a call knows of a rejection only while there is one |
| `CompletedReachesMain` | `CompletedIsInMain` | `MainInv`: without a change of base every merged pull request has brought its head to the default branch, and every way a gate learns of a merge points to one |
| `MergesWereCleared` | `MergedWasCleared` | `ClearedInv`: what a gate holds at each point of the revalidation is what the remote answered since it began; the merge request carries the head, so that a late merge is of the head that was judged |
| **Office_proofs** | | |
| `NoLetterIsLost` | `LettersAreListed` | `LetterInv`: identifiers are unique in the table, the map is keyed by its letters' keys, and map and table agree on identifiers |
| `AnsweredPromotionsStayTaken` | `PromotionIsTakenOnce` | `PromotionInv`: each task belongs to the call that took it in, a marked row keeps session and branch, and a late call that could read the tasks is at a point that creates none |
| `StepsWaitForClearance` | `ReleasedStepsAreCleared` | `PipelineInv`: every pipeline in every memory is clear once it is under way; a tick is shown to clear whatever it leaves under way, also if it was not before |
| `StreamsStayComplete` | `StreamsAreComplete` | `FlowInv` for the API's stream: the rows on their way leave out no row with a smaller number that the cursor has not passed, which a sorted page with a limit gives only because the page is cut at its end; and a closed stream comes back with the number its cursor had. `BusInv` for the stream of the PDL API: the buffer holds the last events of this life with consecutive numbers, each published event it still remembers is in its place there, and what a browser holds is in order and complete up to its last event, also while it is closed: that is what a later replay starts from |
| **Attempt_proofs** | | one invariant of four parts, because each needs the others |
| `CancellationHolds` | `CancelHeeded` | `Typed`, and `Phase`: a run that was asked to cancel is on its way out, not on its way to the gate; and while an attempt works, its workspace is that attempt's |
| `LateWorkIsLeftOut` | `WinnerIsOwnWork` | `OwnWork`: the workspace of an attempt holds, besides what it cloned, changes of that attempt only, since a late provider writes into the workspace it was given; what is committed for a push, and what is cloned, is the work of winners whose choice no longer changes |
| `OnlyCleanWorkIsPushed`, `CompletedWorkIsRemote` | `ProtectedNeverPushed`, `CompletedIsPersisted` | `Durable`: whatever a run pushes has passed the range scan on a clean base, and a commit whose push was verified stays in the branch, which only grows, until the task's row names it |
| **Mission_proofs** | | |
| `VerifiedMeansEvidence`, `CompletedMissionsAreVerified` | `VerifiedHasEvidence`, `CompletedMissionIsVerified` | `Honest`: every copy of a state, whoever holds it, is supported by tasks; the task of a running row was made for the row's target; and between its acquire and its link a caller has a row, which, if it still runs, is for the caller's target. The last part is what a second row would break |
| `EligibilityIsEarned` | `EligibleIsCorroborated` | `Evidence`: what a pattern has counted (tasks, a verified remediation, a reviewer or QA) it has seen in events ingested since the last restart, and an eligible candidate's pattern has counted enough. The property speaks of the events only, so that without the counters in between no step can be judged |
| `ChainsEnd` | `SupersessionWellFounded`, one half of `PromptIsSound` | `Chains`, over `LearningShapes`: a memory's id is its place. A set of superseded memories closed under supersession would have to contain the memory superseded last, whose replacement was active |
| `NothingComesBack` | `NoSilentReactivation` | `LearningInv`, and for each step what it does to the status of each memory, lesson and candidate |
| **Workstation_proofs** | | |
| `OnceAndForAll` | `EventsTakeEffectOnce` | `Once`: an event not marked as processed has had no effect. The mark and the effect are made by different lines, and the stream, the backlog and a reconnection deliver the same event |
| `NobodyIsLeftStanding` | `WalksEndAtTheDesk`, the safety part of `ScreenConverges` | `Walks` and `Away`: the module's own map of places knows of walks only, so that what the store shows may lag behind it but never names a place for which no timer or step is pending |
| **Providers_proofs** | | one invariant `Sound` of each execution, of four parts |
| `OneGateway` | `OneGatewayPerWorkspace` | `Touch`: the only gateway that ran tools is the present one, and it has counted their calls, which is what `hasMutableEffects` looks at before the next one begins |
| `PaidIsBounded` | `PaidRequestsBounded`, of `RoutingPolicyKept` | `Budget`: what was paid for is what was counted, and a paid candidate is being asked only while the costs are below the limit. There is at most one OpenRouter gateway, so that before it begins nothing was paid |
| `EveryRestEnds` | `CooldownsEnd`, of `RoutingPolicyKept` | `Resting`: every record that cools down has an end that was set by a clock not ahead of the present one, whoever wrote it |
| `CallsAreAnswered` | `EveryCallHasItsResult`, of `ConversationWellFormed` | `Talk`: within a batch, results and calls still to be made add up to the calls of the turn; the turns already pushed are complete |
| `UnstreamedIsWellFormed` | `ConversationWellFormed` where answers are not streamed | the same |

How the proofs go. One lemma per action or group of actions, over lemmas about the
operators: row updates, `Write`, the merge of map and table, the tick of a pipeline,
the strictest union of two sources. Where an argument needs the least or greatest
number with a property (`Scheduler`, `Supervisor`, `Delivery`, `Providers`), it uses that a
non-empty set of naturals has a least element (`NatLessThanWellFounded`), which is a
statement about sets and needs no induction over an operator. `StreamsStayComplete`
builds on it that a finite set of positions can be put in order: `GetEventsSince` is
written with `InOrder`, which the proof can open, where a filter of sequences could not be.

What is assumed. The named assumptions of the modules, which TLC evaluates:
`RetryConfigAssumption` (what the constructor of the policy accepts),
`RepositoryAssumption`, `LifecycleAssumption` (sentinels differ from values, no pair
of task and number is `NoTask`), `NoneAssumption` (an absent superseder is no id),
`LimitsAssumption` and `ConfigAssumption` (one or two gateways, not two of OpenRouter;
budgets are natural numbers; some paid answer reports what it cost; the tiers and
overrides resolve to a list of candidates), `StreamAssumption` (whatever part of a
stream arrives, what the assembler makes of it is a list of calls), `SupervisorAssumption`, `SchedulerAssumption` and
`NoneIsNothing` (an unset reference is none of the objects), `CacheAssumption`,
`ProvidersAssumption`, `BoundsAssumption` and `JobsAssumption` (tests write changes the
jobs list), `PlacesAssumption` and `CyclesAssumption` (callers live in processes, and the
database is none of them),
`DeliveryAssumption`, `GitHubAssumption` (answers of GitHub have the shape of
`RawRulesetRule` and `RawClassicBranchProtection`), `PipelinesAssumption` (steps have
dependencies and a checkpoint flag), `LimitAssumption` and `HistoryAssumption` (the
buffer and a page have room for an event). And, as hypotheses of single theorems:

- `PatientStart`, `PatientStop` (section 3); `OneLateDispatch` needs the first only.
- `MethodsAgree`: the pull_request rules of one ruleset that list merge methods list
  the same ones. The normaliser lets a later rule overwrite an earlier one
  (section 5), and what is then permitted by "both sources" is a matter of order.
- `RulesRest`: rules and protection do not change while a gate revalidates, since the
  two are read by two requests. TLC covers the case of a single change.

Only model-checked:

- Liveness: `EverythingSettles`, `StopTakesEffect`, `TaskIsSettled`, `ClaimEnds`,
  `ExecutionEnds`, `AlarmRecoversWork`, `ScreenConverges`. Fairness and ENABLED are
  beyond the prover.
- What recursive definitions, folds, filters and sorts of sequences compute for every
  input, induction over data being beyond the prover too. That leaves to TLC, of
  `ConversationWellFormed`, that the assembler gives back streamed calls as they were
  sent; of `RoutingPolicyKept`, `OnlyAllowedModels` and `CalibrationOnlyReorders` (a
  filter and a sort); of `PromptIsSound`, what the enrichments select; and
  `BriefingIsSound`. `ConfigAssumption` and `StreamAssumption` say of these definitions
  only that their values are lists; TLC evaluates both on every configuration of the run.

## 7. Not modelled

The in-memory fallback of the task repository (that of the dead letters is); the
race inside `claim()`'s product-limit sub-select; crash recovery of sessions, which
nothing calls; the legacy `api.ts`, whose handlers are those of the PDL API; the
sandbox adapter, workspaces, GitHub App and HTTP clients (process and network I/O);
summaries of `organizational-intelligence.ts`, `organizational-awareness.ts` and
`src/context` (text computed from modelled state); the parser of structured tasks
in `intent.ts`; the browser's chat log, social memories, telemetry, scenes, games
and constant data; prompts, formatting and logging; scripts and migrations.

## 8. Plan

Done: the task queue with its governance, scheduler, reaper and dead letters; the
delivery gate; attempts from intake to push; routing; missions; learning; the
office with its server; the browser; the supervisor; the abstract queue and its
refinement. Proved: the lifecycle and its refinement, the supervisor, the scheduler,
the governance cache, the delivery gate, attempts, missions, learning, executions by
the gateways, the browser's events and walks, and of the office dead letters,
promotions, pipelines and both streams of events.

Next, the claim as two statements, and the fallback map of the task repository.
