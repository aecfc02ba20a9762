------------------------------ MODULE Attempt ------------------------------
(***************************************************************************)
(* One task from its intake to its final row: the transaction that queues  *)
(* it with a sealed specification, the runs that claim it, their attempts  *)
(* in workspaces of their own, the agent's tools, providers that answer    *)
(* late, finalization, corrections in the same workspace, and the push     *)
(* that makes the work durable.  Three flavours of worker share the code:  *)
(* the router worker retries over a chain of providers, the correction     *)
(* worker is a router worker whose failed finalizations an agent may mend, *)
(* the codex worker makes one attempt.                                     *)
(*                                                                         *)
(* A change of a file is what it touches, what git status shows of it and  *)
(* who made it; a commit is the sequence of change sets since the root.    *)
(* A run is one executeOnce of a process; leases are TaskLifecycle's.      *)
(***************************************************************************)
EXTENDS Naturals, Sequences, FiniteSets, SequencesExt, Intake

-----------------------------------------------------------------------------
(* How a failed finalization is read: which fault counts, what kind of     *)
(* failure its text shows, whether an agent may correct it in the same     *)
(* workspace.  Text is the strongest pattern it matches.                   *)

\* What the message and the test output match.
Texts == {"none", "security", "compiler", "lint", "tests"}

Finalized(status, code, text) == [status |-> status, code |-> code, text |-> text]

\* The finalizer's failure comes first; a finalization that did not fail has no fault to name.
ResolveAuthoritativeFault(f) == IF f.status = "FAILED" THEN f.code ELSE "UNKNOWN_FAILURE"

TimeoutCodes == {"ROUTER_TIMEOUT", "ROUTER_TIMEOUT_TOTAL", "TIMED_OUT"}
PushCodes == {"PUSH_FAILED", "GITHUB_PUSH_FAILED"}
InfrastructureCodes == {"START_ERROR", "ALL_PROVIDERS_FAILED", "GATEWAY_EXHAUSTED",
                        "ROUTER_CONNECTION_ERROR", "TOOL_LOOP_LIMIT"}

\* Patterns in the text come before most codes.
FailureKind(code, text) ==
  CASE code = "SECURITY_VIOLATION" \/ text = "security" -> "security_violation"
    [] code = "FAILED_UNEXPECTED_CHANGES"               -> "git_hygiene"
    [] text = "compiler"                                -> "compilation_error"
    [] text = "lint"                                    -> "lint_error"
    [] code = "TASK_TESTS_FAILED" \/ text = "tests"     -> "test_failure"
    [] code \in TimeoutCodes                            -> "timeout"
    [] code \in PushCodes                               -> "push_error"
    [] code = "COMMIT_FAILED"                           -> "commit_error"
    [] code \in InfrastructureCodes                     -> "infrastructure_error"
    [] OTHER                                            -> "unknown"

WorkspaceFaults == {"test_failure", "git_hygiene", "compilation_error", "lint_error"}

EvaluateTaxonomy(code, kind) ==
  CASE kind = "security_violation"                                  -> "SECURITY_ABORT"
    [] kind \in WorkspaceFaults \/ code = "TASK_TESTS_FAILED"       -> "CORRECTABLE_IN_WORKSPACE"
    [] kind = "commit_error"
       \/ code \in {"ROUTER_CONNECTION_ERROR", "EMPTY_RESPONSE", "ROUTER_HTTP_ERROR"} -> "RETRYABLE_TRANSIENT"
    [] kind = "timeout" \/ code \in InfrastructureCodes \cup {"NO_RESPONSE"} -> "INFRASTRUCTURE_FAILURE"
    [] kind = "push_error"
       \/ code \in {"FINALIZATION_ERROR", "FINALIZATION_MISSING", "WORKER_CANCELLED"} -> "FATAL_UNRECOVERABLE"
    [] OTHER                                                        -> "UNKNOWN_FAIL_CLOSED"

ParseDiagnostic(f) ==
  LET code == ResolveAuthoritativeFault(f)
  IN EvaluateTaxonomy(code, FailureKind(code, f.text))

\* Only one class is actionable.
Classify(correctability) == correctability = "CORRECTABLE_IN_WORKSPACE"

ShouldAttemptCorrection(f) == Classify(ParseDiagnostic(f))

MaxCorrections == 2

-----------------------------------------------------------------------------
(* Which provider results are tried again.                                 *)

RetryableStatuses == {"TIMED_OUT", "ROUTER_TIMEOUT", "ROUTER_CONNECTION_ERROR"}

IsRetryableProviderResult(status, http) ==
  \/ status \in RetryableStatuses
  \/ status = "ROUTER_HTTP_ERROR" /\ (http = 429 \/ http \in 500..599)

-----------------------------------------------------------------------------
(* The task and its runs                                                   *)

CONSTANTS Runs,            \* the executions a task may get
          Providers,       \* the length of the provider chain
          Jobs,            \* the tasks, their products and what may happen to them
          MaxAgentCommits, \* commits an agent makes itself in an attempt
          MaxOtherPushes   \* pushes of others to the default branch

ASSUME ProvidersAssumption == Providers \in Nat \ {0}
ASSUME BoundsAssumption == MaxAgentCommits \in Nat /\ MaxOtherPushes \in Nat

VARIABLES
  job,      \* the task and its surroundings, fixed for a behaviour
  txn,      \* the intake transaction: its state and what it has written
  task,     \* the committed task row
  spec,     \* the committed execution specification
  wk,       \* what each run is doing
  dirs,     \* the workspaces of each run, by attempt
  zombies,  \* providers still at work in an attempt that was given up
  refs      \* the remote repository: default branch and working branch

vars == <<job, txn, task, spec, wk, dirs, zombies, refs>>

Attempts == 1..Providers

-----------------------------------------------------------------------------
(* Files, workspaces and commits.                                          *)

ZonePath == [PlainPath EXCEPT !.pattern = "critical"]
AliasConfig == [PlainPath EXCEPT !.config = "tsconfig", !.content = "zone_alias", !.dir = "other"]
ProductPath == [PlainPath EXCEPT !.product = "protected"]

\* What a tool call or a test may do to the tree.  A protected file that is moved onto another name shows
\* in git status as the new name only.
Effects ==
  [edit    |-> [name |-> "f", shows |-> PlainPath,   touches |-> {PlainPath},           declares |-> TRUE],
   alias   |-> [name |-> "c", shows |-> AliasConfig, touches |-> {AliasConfig},         declares |-> TRUE],
   product |-> [name |-> "p", shows |-> ProductPath, touches |-> {ProductPath},         declares |-> TRUE],
   zone    |-> [name |-> "z", shows |-> ZonePath,    touches |-> {ZonePath},            declares |-> FALSE],
   stray   |-> [name |-> "g", shows |-> PlainPath,   touches |-> {PlainPath},           declares |-> FALSE],
   moved   |-> [name |-> "f", shows |-> PlainPath,   touches |-> {PlainPath, ZonePath}, declares |-> FALSE]]

\* Tests write files of the same kinds as tools do.
ASSUME JobsAssumption == \A j \in Jobs : j.testWrites \subseteq DOMAIN Effects

Change(e, who) == [name |-> Effects[e].name, shows |-> Effects[e].shows, touches |-> Effects[e].touches, by |-> {who}]

\* A file written again keeps what its earlier change touched and who made it.
Written(tree, c) ==
  LET old == {x \in tree : x.name = c.name}
  IN (tree \ old) \cup {[c EXCEPT !.touches = @ \cup UNION {x.touches : x \in old},
                                  !.by = @ \cup UNION {x.by : x \in old}]}

NoDir == [on |-> FALSE, git |-> FALSE, head |-> <<>>, tree |-> {}]

NoCommit == [on |-> FALSE, commit |-> <<>>]

Sha(c) == [on |-> TRUE, commit |-> c]

Shown(tree) == {c.shows : c \in tree}

Touched(commits) == UNION {UNION {c.touches : c \in s} : s \in Range(commits)}

-----------------------------------------------------------------------------
(* The state.                                                              *)

NoFin == [status |-> "NONE", code |-> "none", text |-> "none", sha |-> NoCommit, changed |-> {}]

Idle == [pc |-> "idle", attempt |-> 1, ws |-> 1, active |-> FALSE, late |-> FALSE, asked |-> FALSE,
         out |-> "none", declared |-> {}, fin |-> NoFin, fixes |-> 0, base |-> <<>>, persisted |-> "none"]

Init ==
  /\ job \in Jobs
  /\ txn = [state |-> "none", task |-> FALSE, spec |-> NoSpec]
  /\ task = [status |-> "ABSENT", sha |-> NoCommit]
  /\ spec = NoSpec
  /\ wk = [r \in Runs |-> Idle]
  /\ dirs = [r \in Runs |-> [a \in Attempts |-> NoDir]]
  /\ zombies = {}
  /\ refs = [main |-> <<{}>>, work |-> NoCommit]

Router == job.flavour \in {"router", "correction"}

Fails == job.faults

Goes(r, pc) == wk' = [wk EXCEPT ![r].pc = pc]

\* A row is written by its id, whoever owns the lease.
Save(status, sha) == task' = [task EXCEPT !.status = status, !.sha = sha]

\* Every return of executeOnce passes the finally block, which removes the winner's workspace.
Leaves(r, status) == Save(status, task.sha) /\ wk' = [wk EXCEPT ![r].pc = "leaving"]

-----------------------------------------------------------------------------
(* Intake: the task row and its sealed specification in one transaction.   *)

ProcessIntake ==
  /\ txn.state = "none"
  /\ txn' = [txn EXCEPT !.state = IF AcceptsIntake(job.request) THEN "open" ELSE "rejected"]
  /\ UNCHANGED <<job, task, spec, wk, dirs, zombies, refs>>

InsertTask ==
  /\ txn.state = "open" /\ ~txn.task
  /\ txn' = [txn EXCEPT !.task = TRUE]
  /\ UNCHANGED <<job, task, spec, wk, dirs, zombies, refs>>

StoreSpec ==
  /\ txn.state = "open" /\ txn.task /\ txn.spec.status = "ABSENT"
  /\ txn' = [txn EXCEPT !.spec = CreateExecutionSpec(job.request)]
  /\ UNCHANGED <<job, task, spec, wk, dirs, zombies, refs>>

SealSpec ==
  /\ txn.state = "open" /\ txn.spec.status = "UNSEALED"
  /\ IF ValidateSemantics(job.request)
     THEN txn' = [txn EXCEPT !.spec = SealExecutionSpec(@)]
     ELSE txn' = [txn EXCEPT !.state = "rejected"]
  /\ UNCHANGED <<job, task, spec, wk, dirs, zombies, refs>>

CommitIntake ==
  /\ txn.state = "open" /\ txn.spec.status = "SEALED"
  /\ txn' = [txn EXCEPT !.state = "committed"]
  /\ task' = [task EXCEPT !.status = "QUEUED"]
  /\ spec' = txn.spec
  /\ UNCHANGED <<job, wk, dirs, zombies, refs>>

\* A query fails, or the process dies: nothing of the transaction is left.
RollbackIntake ==
  /\ txn.state = "open" /\ Fails
  /\ txn' = [txn EXCEPT !.state = "rejected"]
  /\ UNCHANGED <<job, task, spec, wk, dirs, zombies, refs>>

-----------------------------------------------------------------------------
(* A run up to its first attempt.                                          *)

Claim(r) ==
  /\ wk[r].pc = "idle" /\ task.status = "QUEUED"
  /\ Save("CLAIMED", task.sha)
  /\ Goes(r, "claimed")
  /\ UNCHANGED <<job, txn, spec, dirs, zombies, refs>>

\* The kill switch and the execution governance may block the claimed task: no lease, no workspace yet.
Blocked(r) ==
  /\ wk[r].pc = "claimed"
  /\ ~job.governed \/ AuthorizeExecution(job.authority) # "ALLOW"
  /\ Save("BLOCKED", task.sha)
  /\ Goes(r, "done")
  /\ UNCHANGED <<job, txn, spec, dirs, zombies, refs>>

StartRunning(r) ==
  /\ wk[r].pc = "claimed"
  /\ job.governed /\ AuthorizeExecution(job.authority) = "ALLOW"
  /\ Save("RUNNING", task.sha)
  /\ wk' = [wk EXCEPT ![r].pc = "running", ![r].active = TRUE]
  /\ UNCHANGED <<job, txn, spec, dirs, zombies, refs>>

\* The attempts begin by marking the worker active: an earlier cancellation is forgotten.
CheckSpec(r) ==
  /\ wk[r].pc = "running"
  /\ IF AssertSealedExecutable(spec)
     THEN wk' = [wk EXCEPT ![r].pc = "attempt", ![r].active = TRUE] /\ task' = task
     ELSE Leaves(r, "FAILED")
  /\ UNCHANGED <<job, txn, spec, dirs, zombies, refs>>

-----------------------------------------------------------------------------
(* Attempts.                                                               *)

\* The result of all attempts together; the winner is the attempt in ws.
Ran(r, out) == wk' = [wk EXCEPT ![r].pc = "ran", ![r].out = out]

\* The router checks out the task's branch where the remote has it, the codex worker always branches off main.
Checkout == IF Router /\ refs.work.on THEN refs.work.commit ELSE refs.main

\* Mutant: all attempts of a run work in one directory.
Workspace_Shared(r) == 1

Workspace(r) == wk[r].attempt

NoBudget(r) ==
  /\ wk[r].pc = "attempt" /\ Router /\ wk[r].late
  /\ Ran(r, "ROUTER_TIMEOUT_TOTAL")
  /\ UNCHANGED <<job, txn, task, spec, dirs, zombies, refs>>

StartAttempt(r) ==
  /\ wk[r].pc = "attempt" /\ ~(Router /\ wk[r].late)
  /\ VerifyRepositoryIdentity(TRUE, job.clone)
  /\ dirs' = [dirs EXCEPT ![r][Workspace(r)] = [on |-> TRUE, git |-> TRUE, head |-> Checkout, tree |-> {}]]
  /\ wk' = [wk EXCEPT ![r].pc = "agent", ![r].ws = Workspace(r), ![r].declared = {}]
  /\ UNCHANGED <<job, txn, task, spec, zombies, refs>>

\* The clone fails or is not the task's repository.  The codex worker throws and leaves its directory.
StartError(r) ==
  /\ wk[r].pc = "attempt" /\ ~(Router /\ wk[r].late)
  /\ Fails \/ ~VerifyRepositoryIdentity(TRUE, job.clone)
  /\ dirs' = [dirs EXCEPT ![r][wk[r].attempt] = IF Router THEN NoDir ELSE [NoDir EXCEPT !.on = TRUE]]
  /\ IF Router THEN Ran(r, "START_ERROR") /\ task' = task ELSE Leaves(r, "FAILED")
  /\ UNCHANGED <<job, txn, spec, zombies, refs>>

\* Who may use the tools: the provider of the running attempt or correction, and those given up too early.
Agents == {<<r, wk[r].attempt, wk[r].ws>> : r \in {q \in Runs : wk[q].pc \in {"agent", "fixing"}}} \cup zombies

IsLive(g) == g \notin zombies

Declare(g, name) ==
  wk' = IF IsLive(g) THEN [wk EXCEPT ![g[1]].declared = @ \cup {name}] ELSE wk

\* write_file creates missing directories, so a late call brings a removed workspace back.
WriteFile(g) ==
  \E e \in {x \in job.tools \cap DOMAIN Effects : Effects[x].declares} :
    /\ g \in Agents /\ WriteAllowed(Effects[e].shows)
    /\ LET d == dirs[g[1]][g[3]]
           tree == Written(d.tree, Change(e, <<g[1], g[2]>>))
       IN dirs' = [dirs EXCEPT ![g[1]][g[3]] = [d EXCEPT !.on = TRUE, !.tree = tree]]
    /\ Declare(g, Effects[e].name)
    /\ UNCHANGED <<job, txn, task, spec, zombies, refs>>

\* A command runs with a sanitized environment in an existing directory; what it writes is not declared.
RunCommand(g) ==
  \E e \in {x \in job.tools \cap DOMAIN Effects : ~Effects[x].declares} :
    /\ g \in Agents /\ dirs[g[1]][g[3]].on
    /\ RunCommandAllowed("plain")
    /\ AssertNoGovernanceCredentials(SanitizeWorkspaceEnv(job.env))
    /\ dirs' = [dirs EXCEPT ![g[1]][g[3]].tree = Written(@, Change(e, <<g[1], g[2]>>))]
    /\ UNCHANGED <<job, txn, task, spec, wk, zombies, refs>>

GitCommit(g) ==
  LET d == dirs[g[1]][g[3]]
  IN /\ "commit" \in job.tools /\ g \in Agents
     /\ d.git /\ d.tree # {} /\ ChangesetAllowed(Shown(d.tree))
     /\ Len(d.head) <= MaxAgentCommits
     /\ dirs' = [dirs EXCEPT ![g[1]][g[3]] = [d EXCEPT !.head = Append(@, d.tree), !.tree = {}]]
     /\ UNCHANGED <<job, txn, task, spec, wk, zombies, refs>>

ProviderReturns(r) ==
  /\ wk[r].pc = "agent"
  /\ \E out \in job.answers : wk' = [wk EXCEPT ![r].pc = "returned", ![r].out = out]
  /\ UNCHANGED <<job, txn, task, spec, dirs, zombies, refs>>

\* The timer wins the race and aborts; the provider may not notice.
ProviderTimesOut(r) ==
  /\ wk[r].pc = "agent" /\ Router
  /\ wk' = [wk EXCEPT ![r].pc = "returned", ![r].out = "ROUTER_TIMEOUT"]
  /\ zombies' \in {zombies, IF job.deaf THEN zombies \cup {<<r, wk[r].attempt, wk[r].ws>>} ELSE zombies}
  /\ UNCHANGED <<job, txn, task, spec, dirs, refs>>

DeadlinePasses(r) ==
  /\ wk[r].pc \in {"attempt", "agent", "returned"} /\ Router /\ job.slow /\ ~wk[r].late
  /\ wk' = [wk EXCEPT ![r].late = TRUE]
  /\ UNCHANGED <<job, txn, task, spec, dirs, zombies, refs>>

\* cancel() clears the flag and aborts the attempt that is running.
Cancel(r) ==
  /\ job.cancels /\ wk[r].pc \in {"running", "attempt", "agent", "testing"} /\ wk[r].active
  /\ wk' = [wk EXCEPT ![r].active = FALSE, ![r].asked = (wk[r].pc = "agent")]
  /\ UNCHANGED <<job, txn, task, spec, dirs, zombies, refs>>

Removed(r) == [dirs EXCEPT ![r][wk[r].ws] = NoDir]

\* A cancelled attempt is thrown away.
AttemptCancelled(r) ==
  /\ wk[r].pc = "returned" /\ Router /\ ~wk[r].active
  /\ dirs' = Removed(r)
  /\ Ran(r, "WORKER_CANCELLED")
  /\ UNCHANGED <<job, txn, task, spec, zombies, refs>>

\* The codex agent reports success or throws; throwing leaves the directory behind.
AttemptWins(r) ==
  /\ wk[r].pc = "returned" /\ wk[r].out = "COMPLETED" /\ (Router => wk[r].active)
  /\ Goes(r, "ran")
  /\ UNCHANGED <<job, txn, task, spec, dirs, zombies, refs>>

AgentThrows(r) ==
  /\ wk[r].pc = "returned" /\ wk[r].out # "COMPLETED" /\ ~Router
  /\ Leaves(r, "FAILED")
  /\ UNCHANGED <<job, txn, spec, dirs, zombies, refs>>

\* A failure that is not worth a retry, and a retryable one of the last provider or past the deadline.
AttemptFails(r) ==
  /\ wk[r].pc = "returned" /\ Router /\ wk[r].active /\ wk[r].out # "COMPLETED"
  /\ \/ ~IsRetryableProviderResult(wk[r].out, job.http) /\ Ran(r, wk[r].out)
     \/ IsRetryableProviderResult(wk[r].out, job.http) /\ wk[r].attempt = Providers /\ Ran(r, "ALL_PROVIDERS_FAILED")
     \/ IsRetryableProviderResult(wk[r].out, job.http) /\ wk[r].attempt < Providers
        /\ wk[r].late /\ Ran(r, "ROUTER_TIMEOUT_TOTAL")
  /\ dirs' = Removed(r)
  /\ UNCHANGED <<job, txn, task, spec, zombies, refs>>

NextProvider(r) ==
  /\ wk[r].pc = "returned" /\ Router /\ wk[r].active /\ wk[r].out # "COMPLETED"
  /\ IsRetryableProviderResult(wk[r].out, job.http) /\ wk[r].attempt < Providers /\ ~wk[r].late
  /\ dirs' = Removed(r)
  /\ wk' = [wk EXCEPT ![r].pc = "attempt", ![r].attempt = @ + 1]
  /\ UNCHANGED <<job, txn, task, spec, zombies, refs>>

\* Mutant: the flag is not looked at again after the attempts.
EndAttempts_Deaf(r) ==
  /\ wk[r].pc = "ran"
  /\ IF wk[r].out # "COMPLETED" THEN Leaves(r, "FAILED") ELSE Save("TESTING", task.sha) /\ Goes(r, "testing")
  /\ UNCHANGED <<job, txn, spec, dirs, zombies, refs>>

EndAttempts(r) ==
  /\ wk[r].pc = "ran"
  /\ IF ~wk[r].active \/ wk[r].out # "COMPLETED" THEN Leaves(r, "FAILED")
     ELSE Save("TESTING", task.sha) /\ Goes(r, "testing")
  /\ UNCHANGED <<job, txn, spec, dirs, zombies, refs>>

-----------------------------------------------------------------------------
(* Finalization: inspect the tree, run the tests, commit everything.       *)

Dir(r) == dirs[r][wk[r].ws]

\* The outcome of the codex agent declares no file at all.
Declared(r) == IF job.flavour = "codex" THEN {} ELSE wk[r].declared

Outcome(status, code, text, sha, changed) ==
  [status |-> status, code |-> code, text |-> text, sha |-> sha, changed |-> changed]

Finalizes(r, fin) == wk' = [wk EXCEPT ![r].pc = "finalized", ![r].fin = fin]

\* What the checks before the tests say of a tree.
InspectionFault(r) ==
  CASE ~ChangesetAllowed(Shown(Dir(r).tree)) -> "SECURITY_VIOLATION"
    [] {c.name : c \in Dir(r).tree} \ Declared(r) # {} -> "FAILED_UNEXPECTED_CHANGES"
    [] OTHER -> "none"

\* A clean tree completes the task without a commit.
Inspect(r) ==
  /\ wk[r].pc = "testing"
  /\ LET d == Dir(r)
     IN \/ Fails /\ Finalizes(r, Outcome("FAILED", "GIT_EXECUTION_FAILED", "none", NoCommit, {}))
        \/ d.tree = {} /\ Finalizes(r, Outcome("COMPLETED", "none", "none", NoCommit, {}))
        \/ /\ d.tree # {} /\ InspectionFault(r) # "none"
           /\ Finalizes(r, Outcome("FAILED", InspectionFault(r), "none", NoCommit, d.tree))
        \/ d.tree # {} /\ InspectionFault(r) = "none" /\ Goes(r, "tests")
  /\ UNCHANGED <<job, txn, task, spec, dirs, zombies, refs>>

\* The tests run after the checks and may write files of their own; git add -A takes them along.
TestAndCommit(r) ==
  /\ wk[r].pc = "tests"
  /\ \E wrote \in {{}} \cup {{Change(e, <<r, wk[r].attempt>>)} : e \in job.testWrites} :
       LET d == Dir(r)
           tree == (UNION {Written(d.tree, c) : c \in wrote}) \cup (IF wrote = {} THEN d.tree ELSE {})
           after == Append(d.head, tree)
       IN \/ \E text \in job.testFailures :
               /\ dirs' = [dirs EXCEPT ![r][wk[r].ws].tree = tree]
               /\ Finalizes(r, Outcome("FAILED", "TASK_TESTS_FAILED", text, NoCommit, d.tree))
          \/ /\ Fails
             /\ dirs' = [dirs EXCEPT ![r][wk[r].ws].tree = tree]
             /\ Finalizes(r, Outcome("FAILED", "COMMIT_FAILED", "none", NoCommit, d.tree))
          \/ /\ dirs' = [dirs EXCEPT ![r][wk[r].ws] = [d EXCEPT !.head = after, !.tree = {}]]
             /\ \/ Finalizes(r, Outcome("COMPLETED", "none", "none", Sha(after), d.tree))
                \/ Fails /\ Finalizes(r, Outcome("FAILED", "GIT_EXECUTION_FAILED", "none", Sha(after), d.tree))
  /\ UNCHANGED <<job, txn, task, spec, zombies, refs>>

-----------------------------------------------------------------------------
(* The correction worker mends what its diagnosis calls correctable.       *)

\* The product's protected paths are looked at once, after the first finalization.
PolicyFault(r) ==
  /\ job.flavour = "correction" /\ job.product # "unknown" /\ wk[r].fixes = 0
  /\ ~ValidateModifiedPaths(Shown(wk[r].fin.changed))

Correctable(r) ==
  /\ job.flavour = "correction" /\ ~PolicyFault(r)
  /\ wk[r].fin.status = "FAILED" /\ wk[r].fin.code # "SECURITY_VIOLATION"
  /\ ShouldAttemptCorrection(wk[r].fin)

\* Mutant: corrections are not counted.
MayCorrect_Uncounted(r) == Correctable(r)

MayCorrect(r) == Correctable(r) /\ wk[r].fixes < MaxCorrections

StartCorrection(r) ==
  /\ wk[r].pc = "finalized" /\ MayCorrect(r)
  /\ wk' = [wk EXCEPT ![r].pc = "fixing", ![r].fixes = IF @ < MaxCorrections THEN @ + 1 ELSE @]
  /\ UNCHANGED <<job, txn, task, spec, dirs, zombies, refs>>

\* Whatever the provider says, the workspace is finalized again.
CorrectionReturns(r) ==
  /\ wk[r].pc = "fixing"
  /\ Goes(r, "testing")
  /\ UNCHANGED <<job, txn, task, spec, dirs, zombies, refs>>

Judged(r, fin) == wk' = [wk EXCEPT ![r].pc = "judged", ![r].fin = fin]

\* Governance may stop corrections; a review may refuse what passed.
Judge(r) ==
  LET f == wk[r].fin
  IN /\ wk[r].pc = "finalized"
     /\ \/ PolicyFault(r) /\ Judged(r, [f EXCEPT !.status = "FAILED", !.code = "SECURITY_VIOLATION"])
        \/ ~PolicyFault(r) /\ f.status = "FAILED" /\ (MayCorrect(r) => job.gates /\ wk[r].fixes = 0) /\ Judged(r, f)
        \/ ~PolicyFault(r) /\ f.status = "COMPLETED" /\ Judged(r, f)
        \/ /\ ~PolicyFault(r) /\ f.status = "COMPLETED" /\ job.flavour = "correction" /\ job.gates
           /\ Judged(r, [f EXCEPT !.status = "FAILED", !.code = "REVIEW_CHANGES_REQUESTED"])
     /\ UNCHANGED <<job, txn, task, spec, dirs, zombies, refs>>

-----------------------------------------------------------------------------
(* Remote persistence.                                                     *)

\* The correction worker asks for persistence even of a prototype, and is then told it was not requested.
Persistable(r) ==
  /\ wk[r].fin.status = "COMPLETED" /\ wk[r].fin.sha.on
  /\ job.flavour # "correction" => ~job.prototype

Eligible == job.flavour = "correction" => AuthorizeAutonomy(job.level, "PUSH") /\ job.product = "ok"

\* Product, repository, branch and workspace, before the remote is asked.
StaticFault(r) ==
  CASE job.prototype -> "NOT_REQUESTED"
    [] job.product = "unknown" -> "UNAUTHORIZED_PRODUCT"
    [] job.product = "ineligible" -> "PERSISTENCE_INELIGIBLE"
    [] job.product = "otherRepo" -> "REPOSITORY_MISMATCH"
    [] job.branch = "protected" -> "PROTECTED_BRANCH_PROHIBITED"
    [] job.branch = "other" -> "BRANCH_POLICY_VIOLATION"
    [] Dir(r).head # wk[r].fin.sha.commit -> "LOCAL_SHA_MISMATCH"
    [] ~job.token -> "MISSING_GITHUB_TOKEN"
    [] OTHER -> "none"

Persisted(r, result) == wk' = [wk EXCEPT ![r].pc = "gate", ![r].persisted = result]

\* Governance may refuse the push; a static fault ends it; nothing to persist goes to the gate.
StartPersistence(r) ==
  /\ wk[r].pc = "judged"
  /\ \/ ~Persistable(r) /\ Persisted(r, "none")
     \/ Persistable(r) /\ job.gates
        /\ wk' = [wk EXCEPT ![r].pc = "gate", ![r].fin.status = "FAILED", ![r].fin.code = "KILL_SWITCH"]
     \/ Persistable(r) /\ ~Eligible /\ Persisted(r, "NOT_REQUESTED")
     \/ Persistable(r) /\ Eligible /\ StaticFault(r) # "none" /\ Persisted(r, StaticFault(r))
     \/ Persistable(r) /\ Eligible /\ StaticFault(r) = "none" /\ Goes(r, "remote")
  /\ UNCHANGED <<job, txn, task, spec, dirs, zombies, refs>>

\* The trusted base is what the remote says now: the branch if it exists, else the default branch.
InspectRemote(r) ==
  /\ wk[r].pc = "remote"
  /\ \/ Fails /\ Persisted(r, "REMOTE_INSPECTION_FAILED")
     \/ refs.work = wk[r].fin.sha /\ Persisted(r, "VERIFIED")
     \/ /\ refs.work # wk[r].fin.sha
        /\ wk' = [wk EXCEPT ![r].pc = "scan", ![r].base = IF refs.work.on THEN refs.work.commit ELSE refs.main]
  /\ UNCHANGED <<job, txn, task, spec, dirs, zombies, refs>>

\* Mutant: only the last commit is scanned.
PushRange_TipOnly(r) == <<Last(wk[r].fin.sha.commit)>>

PushRange(r) == SubSeq(wk[r].fin.sha.commit, Len(wk[r].base) + 1, Len(wk[r].fin.sha.commit))

\* Every commit of the range counts, with both names of a rename.
ScanRange(r) ==
  /\ wk[r].pc = "scan"
  /\ \/ ~IsPrefix(wk[r].base, wk[r].fin.sha.commit) /\ Persisted(r, "NON_FAST_FORWARD_REJECTED")
     \/ /\ IsPrefix(wk[r].base, wk[r].fin.sha.commit)
        /\ IF ChangesetAllowed(Touched(PushRange(r))) THEN Goes(r, "push") ELSE Persisted(r, "PROTECTED_PATH_VIOLATION")
  /\ UNCHANGED <<job, txn, task, spec, dirs, zombies, refs>>

FastForward(r) == refs.work.on => IsPrefix(refs.work.commit, wk[r].fin.sha.commit)

\* Mutant: the push is forced.
Push_Forced(r) ==
  /\ wk[r].pc = "push"
  /\ refs' = [refs EXCEPT !.work = wk[r].fin.sha] /\ Goes(r, "verify")
  /\ UNCHANGED <<job, txn, task, spec, dirs, zombies>>

\* The remote takes a fast-forward only; an error may reach us after the push did.
Push(r) ==
  /\ wk[r].pc = "push"
  /\ \/ FastForward(r) /\ refs' = [refs EXCEPT !.work = wk[r].fin.sha] /\ Goes(r, "verify")
     \/ FastForward(r) /\ Fails /\ refs' = [refs EXCEPT !.work = wk[r].fin.sha] /\ Persisted(r, "PUSH_FAILED")
     \/ (Fails \/ ~FastForward(r)) /\ refs' = refs /\ Persisted(r, "PUSH_FAILED")
  /\ UNCHANGED <<job, txn, task, spec, dirs, zombies>>

Verify(r) ==
  /\ wk[r].pc = "verify"
  /\ \/ Fails /\ Persisted(r, "REMOTE_VERIFICATION_FAILED")
     \/ Persisted(r, IF refs.work = wk[r].fin.sha THEN "VERIFIED" ELSE "REMOTE_SHA_MISMATCH")
  /\ UNCHANGED <<job, txn, task, spec, dirs, zombies, refs>>

-----------------------------------------------------------------------------
(* The gate and the end of a run.                                          *)

\* A task of a prototype session is never material.
EvaluatePersistenceGate(r) ==
  LET f == wk[r].fin
      material == ~job.prototype /\ (f.changed # {} \/ f.sha.on)
  IN /\ f.status = "COMPLETED"
     /\ material => f.sha.on
     /\ Dir(r).tree = {}
     /\ material => wk[r].persisted = "VERIFIED"
     /\ job.flavour # "correction" => job.runtime # "required"

\* The correction worker fails a completed task whose persistence it asked for and did not get.
Complete(r) ==
  /\ wk[r].pc = "gate"
  /\ LET f == wk[r].fin
         passes == /\ EvaluatePersistenceGate(r)
                   /\ (job.flavour = "correction" /\ f.sha.on /\ Eligible) => wk[r].persisted = "VERIFIED"
     IN Save(IF passes THEN "COMPLETED" ELSE "FAILED", f.sha)
  /\ Goes(r, "leaving")
  /\ UNCHANGED <<job, txn, spec, dirs, zombies, refs>>

\* The workspace the attempts returned is removed; a codex agent that threw returned none.
ReturnedWorkspace(r) ==
  /\ wk[r].out \notin {"none", "ALL_PROVIDERS_FAILED", "ROUTER_TIMEOUT_TOTAL"}
  /\ Router \/ wk[r].out = "COMPLETED"

Leave(r) ==
  /\ wk[r].pc = "leaving"
  /\ dirs' = IF ReturnedWorkspace(r) THEN Removed(r) ELSE dirs
  /\ wk' = [wk EXCEPT ![r].pc = "done", ![r].active = FALSE]
  /\ UNCHANGED <<job, txn, task, spec, zombies, refs>>

-----------------------------------------------------------------------------
(* The rest of the world.                                                  *)

\* A process dies with its providers; its workspaces stay.
Crash(r) ==
  /\ job.crashes /\ wk[r].pc \notin {"idle", "done", "dead"}
  /\ wk' = [wk EXCEPT ![r].pc = "dead"]
  /\ zombies' = {g \in zombies : g[1] # r}
  /\ UNCHANGED <<job, txn, task, spec, dirs, refs>>

\* The reaper or an operator queues a task again, perhaps under a run that is still alive.
Requeue ==
  /\ job.requeues /\ task.status \in {"CLAIMED", "RUNNING", "TESTING", "FAILED"}
  /\ \E r \in Runs : wk[r].pc = "idle"
  /\ Save("QUEUED", task.sha)
  /\ UNCHANGED <<job, txn, spec, wk, dirs, zombies, refs>>

OtherPush ==
  /\ job.others /\ Len(refs.main) <= MaxOtherPushes
  /\ refs' = [refs EXCEPT !.main = Append(@, {})]
  /\ UNCHANGED <<job, txn, task, spec, wk, dirs, zombies>>

IntakeStep == ProcessIntake \/ InsertTask \/ StoreSpec \/ SealSpec \/ CommitIntake

\* The steps a run takes by itself.
RunStep(r) ==
  \/ Blocked(r) \/ StartRunning(r) \/ CheckSpec(r) \/ NoBudget(r) \/ StartAttempt(r) \/ StartError(r)
  \/ AttemptCancelled(r) \/ AttemptWins(r) \/ AgentThrows(r) \/ AttemptFails(r) \/ NextProvider(r)
  \/ EndAttempts(r) \/ Inspect(r) \/ TestAndCommit(r) \/ StartCorrection(r) \/ Judge(r)
  \/ StartPersistence(r) \/ InspectRemote(r) \/ ScanRange(r) \/ Push(r) \/ Verify(r) \/ Complete(r) \/ Leave(r)

\* An answer of a provider; the router's timer guarantees one.
Answer(r) == ProviderReturns(r) \/ ProviderTimesOut(r) \/ CorrectionReturns(r)

Next ==
  \/ IntakeStep \/ RollbackIntake \/ Requeue \/ OtherPush
  \/ \E r \in Runs : Claim(r) \/ RunStep(r) \/ Answer(r) \/ DeadlinePasses(r) \/ Cancel(r) \/ Crash(r)
  \/ \E g \in Agents : WriteFile(g) \/ RunCommand(g) \/ GitCommit(g)

Spec == Init /\ [][Next]_vars /\ \A r \in Runs : WF_vars(RunStep(r)) /\ WF_vars(Answer(r))

-----------------------------------------------------------------------------
(* Properties.                                                             *)

Pcs == {"idle", "claimed", "running", "attempt", "agent", "returned", "ran", "testing", "tests", "finalized",
        "fixing", "judged", "remote", "scan", "push", "verify", "gate", "leaving", "done", "dead"}

\* The shapes of the row, the runs, their workspaces and the remote, for every handler of the three workers.
TypeOK ==
  /\ job \in Jobs
  /\ txn.state \in {"none", "open", "committed", "rejected"} /\ txn.task \in BOOLEAN
  /\ task.status \in {"ABSENT", "QUEUED", "CLAIMED", "RUNNING", "TESTING", "BLOCKED", "COMPLETED", "FAILED"}
  /\ spec.status \in {"ABSENT", "SEALED"}
  /\ \A r \in Runs : /\ wk[r].pc \in Pcs /\ wk[r].attempt \in Attempts /\ wk[r].ws \in Attempts
                     /\ wk[r].fixes \in 0..MaxCorrections
                     /\ wk[r].declared \subseteq {Effects[e].name : e \in DOMAIN Effects}
  /\ DOMAIN dirs = Runs
  /\ zombies \subseteq Runs \X Attempts \X Attempts
  /\ refs.work.on \in BOOLEAN

\* A completed row that names a commit names one the remote branch still contains, however runs of the same
\* task overlap and whatever pushes and answers are lost; prototypes are not pushed (persist, Gate, update).
CompletedIsPersisted ==
  (task.status = "COMPLETED" /\ task.sha.on /\ ~job.prototype) =>
    refs.work.on /\ IsPrefix(task.sha.commit, refs.work.commit)

\* No commit on the remote branch touches a protected path, although the checks before a commit see only what
\* git status shows and tests write after them: the scan of the whole range is what holds (persist).
ProtectedNeverPushed == refs.work.on => TrustBoundaryAllows(Touched(refs.work.commit))

\* What reaches the remote was made by the attempt that won: a provider that answers late, after its attempt was
\* given up, never contributes (executeWithRetry's workspace per attempt).
WinnerIsOwnWork ==
  refs.work.on =>
    \A s \in Range(refs.work.commit) : \A c \in s : \A who \in c.by : who[2] = wk[who[1]].attempt

\* A run cancelled while its agent works never completes the task (cancel, executeOnce).
CancelHeeded ==
  [][\A r \in Runs : (wk[r].asked /\ wk[r].pc = "gate" /\ wk'[r].pc = "leaving") => task'.status # "COMPLETED"]_vars

\* Every claim ends: retries, corrections and the push are bounded (executeOnce).
ClaimEnds == \A r \in Runs : wk[r].pc = "claimed" ~> wk[r].pc \in {"done", "dead"}

=============================================================================
