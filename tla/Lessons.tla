------------------------------ MODULE Lessons ------------------------------
(***************************************************************************)
(* From observations to institutional lessons: pattern-detection.ts,       *)
(* lesson-candidate.ts, lesson-validation.ts, lesson-retrieval.ts and the  *)
(* outcome evaluation of learning-feedback.ts (src/office).                *)
(*                                                                         *)
(* The counters of a pattern's corroboration are kept only as far as the   *)
(* code reads them: tasks are counted, confirmations are tested for >= 1.  *)
(* A candidate shares its pattern's key and, by reference, its evidence    *)
(* arrays, so the evidence is kept once, in the pattern.                   *)
(***************************************************************************)
EXTENDS MemoryStore

CONSTANTS SecurityRules, ArchitectureComponents

PatternStatuses == {"ACTIVE", "SUPERSEDED", "BLOCKED"}
CandidateStatuses == {"PROPOSED", "ELIGIBLE", "BLOCKED", "REJECTED", "SUPERSEDED"}
Contradictions == {"CLEAN", "CONTEXT_DEPENDENT", "CONTRADICTORY_UNRESOLVED"}
LessonScopes == {"PROJECT", "AGENT", "TASK", "GLOBAL"}

-----------------------------------------------------------------------------
(* Patterns *)

\* normalizeFindingText() strips timestamps, pids, paths and line numbers.
NormalizeFindingText(t) == IF t = None THEN None ELSE t[1]

\* The SHA-256 of the joined fields is taken to be injective.
ComputePatternSignature(tenant, o) ==
  <<tenant, o.project, o.component, o.taskType, o.rule,
    NormalizeFindingText(o.text), NormalizeFindingText(o.remediation)>>

\* The observation ingestEvent() hands to the pattern engine.
FindingObservation(e) ==
  [project |-> e.project, taskType |-> "review", rule |-> e.rule,
   component |-> IF e.component = None THEN "code_review" ELSE e.component,
   text |-> e.text, remediation |-> e.remediation, event |-> e.id, task |-> e.task,
   reviewer |-> e.reviewer, qa |-> e.qa, verified |-> e.verified]

BlockedObservation(e) ==
  [project |-> e.project, component |-> "code_review", taskType |-> "review_blocked",
   rule |-> None, text |-> e.text, remediation |-> None, event |-> e.id, task |-> e.task,
   reviewer |-> TRUE, qa |-> FALSE, verified |-> FALSE]

WorkObservation(e) ==
  [project |-> e.project, component |-> "task_execution",
   taskType |-> IF e.type = "AGENT_FINISHED_WORK" THEN "agent_work" ELSE "agent_work_failed",
   rule |-> None, text |-> e.text, remediation |-> None, event |-> e.id, task |-> e.task,
   reviewer |-> FALSE, qa |-> FALSE, verified |-> e.type = "AGENT_FINISHED_WORK"]

ObservedTypes == {"REVIEW_FINDING", "REVIEW_BLOCKED", "AGENT_FINISHED_WORK", "AGENT_FAILED_WORK"}

ObservationOf(e) ==
  CASE e.type = "REVIEW_FINDING" -> FindingObservation(e)
    [] e.type = "REVIEW_BLOCKED" -> BlockedObservation(e)
    [] OTHER -> WorkObservation(e)

NewPattern(o) ==
  [status |-> "ACTIVE", component |-> o.component, taskType |-> o.taskType, rule |-> o.rule,
   project |-> o.project, recurrence |-> 1, events |-> {o.event},
   tasks |-> {o.task} \ {None}, reviewer |-> o.reviewer, qa |-> o.qa, verified |-> o.verified]

Recurs(p, o) ==
  [p EXCEPT !.recurrence = @ + 1, !.events = @ \cup {o.event},
            !.tasks = @ \cup ({o.task} \ {None}),
            !.reviewer = @ \/ o.reviewer, !.qa = @ \/ o.qa, !.verified = @ \/ o.verified]

\* Mutant: every observation counts as a task of its own.
IndependentTaskCount_Recurrences(p) == p.recurrence

\* corroboration.independentTaskCount
IndependentTaskCount(p) == Cardinality(p.tasks)

-----------------------------------------------------------------------------
(* Candidates *)

MinIndependentTasks == 3

\* SecurityRules stands for the rules named RULE_SEC_* or *AUTH*,
\* ArchitectureComponents for the components whose name has arch, schema or
\* migration in it; no task type of an observation has test or qa in it.
CandidateType(p) ==
  IF p.rule \in SecurityRules THEN "SECURITY_GUIDANCE"
  ELSE IF p.component \in ArchitectureComponents THEN "ARCHITECTURE_GUIDANCE"
  ELSE "OPERATIONAL_PRACTICE"

EvaluateCandidateEligibility(p, contradiction) ==
  /\ IndependentTaskCount(p) >= MinIndependentTasks
  /\ p.verified
  /\ p.reviewer \/ p.qa
  /\ contradiction # "CONTRADICTORY_UNRESOLVED"
  /\ p.status # "BLOCKED"

\* The status evaluateAndUpsertCandidate() gives a candidate whose present
\* status is `was' (None when there is no candidate yet).
CandidateStatus(p, was, contradiction) ==
  IF p.status = "BLOCKED" THEN "BLOCKED"
  ELSE IF was \in {"REJECTED", "BLOCKED"} THEN was
  ELSE IF EvaluateCandidateEligibility(p, contradiction) THEN "ELIGIBLE" ELSE "PROPOSED"

-----------------------------------------------------------------------------
(* Lessons *)

RequiresCEOApproval(type) == type \in {"SECURITY_GUIDANCE", "ARCHITECTURE_GUIDANCE"}

LessonType(type) ==
  CASE type = "TESTING_PRACTICE" -> "TESTING_GUIDANCE"
    [] type = "OPERATIONAL_PRACTICE" -> "OPERATIONAL_GUIDANCE"
    [] OTHER -> type

ValidateCandidate(c) ==
  c.status = "ELIGIBLE" /\ c.contradiction # "CONTRADICTORY_UNRESOLVED"

NewLesson(ls, tenant, key, c, scope, role) ==
  [id |-> Len(ls) + 1, candidate |-> key, tenant |-> tenant, project |-> key[2],
   status |-> "ACTIVE", validity |-> "CURRENT", type |-> LessonType(c.type),
   scope |-> scope, approvedBy |-> role, supersededBy |-> None]

GovernedTypes == {"STRATEGIC_GUIDANCE", "SECURITY_GUIDANCE", "ARCHITECTURE_GUIDANCE"}

MaySupersedeLesson(ls, old, new, role) ==
  /\ old # new
  /\ ls[old].tenant = ls[new].tenant
  /\ ls[old].type \in GovernedTypes => role = "CEO"

RelevantTypes(role) ==
  CASE role = "developer" -> <<"OPERATIONAL_GUIDANCE", "TESTING_GUIDANCE">>
    [] role = "architect" -> <<"ARCHITECTURE_GUIDANCE", "STRATEGIC_GUIDANCE">>
    [] role = "reviewer" -> <<"SECURITY_GUIDANCE", "OPERATIONAL_GUIDANCE">>
    [] role = "qa-engineer" -> <<"TESTING_GUIDANCE", "OPERATIONAL_GUIDANCE">>
    [] OTHER -> <<"STRATEGIC_GUIDANCE", "ARCHITECTURE_GUIDANCE">>

LessonScore(l, role) ==
  LET scope == CASE l.scope = "TASK" -> 40 [] l.scope = "AGENT" -> 30
                 [] l.scope = "PROJECT" -> 20 [] OTHER -> 10
  IN  scope + (IF l.type = RelevantTypes(role)[1] THEN 5
               ELSE IF l.type = RelevantTypes(role)[2] THEN 4 ELSE 0)

\* retrieveContext() over the in-memory lessons of the project (no code of
\* src/ gives this engine a pool): filter, rank, cap.
RetrieveLessons(ls, tenant, project, role, evidence, task) ==
  LET evidenceOf(l) == IF l.candidate \in DOMAIN evidence THEN evidence[l.candidate] ELSE {}
      Visible(l) == /\ l.tenant = tenant
                    /\ l.project = project
                    /\ l.status = "ACTIVE"
                    /\ l.validity \notin {"SUPERSEDED", "BLOCKED", "OBSOLETE"}
                    /\ l.scope = "TASK" => task \in evidenceOf(l)
      Before(a, b) == \/ LessonScore(a, role) > LessonScore(b, role)
                      \/ LessonScore(a, role) = LessonScore(b, role) /\ a.id > b.id
      ranked == SortSeq(SelectSeq(ls, Visible), Before)
  IN  SubSeq(ranked, 1, IF Len(ranked) < RetrievalLimit THEN Len(ranked) ELSE RetrievalLimit)

-----------------------------------------------------------------------------
(* Outcome evaluation *)

\* buildReviewOutcomeFromReview(): the status and whether the third
\* iteration was reached, from what the reviewer reported.
ReviewOutcome(iteration, findings, blockers, blocked, passed) ==
  [status |-> IF blocked \/ (iteration >= 3 /\ blockers > 0) THEN "BLOCKED"
              ELSE IF passed \/ (findings = 0 /\ iteration > 0) THEN "PASSED"
              ELSE "IN_PROGRESS",
   maxIterationsReached |-> iteration >= 3]

\* buildExecutionOutcomeFromRuntime() and buildQAOutcomeFromTests(); an exit
\* code is zero, nonzero, null (killed by a signal) or absent.
ExecutionOutcome(exit, status) ==
  CASE exit = "zero" -> "SUCCESS"
    [] exit = "nonzero" -> "FAILURE"
    [] OTHER -> IF status = None THEN "UNKNOWN" ELSE status

QAOutcome(exit, tests, reportedFailures, regressions) ==
  LET failed == IF reportedFailures = None THEN exit = "nonzero" ELSE reportedFailures
  IN  [status |-> IF ~tests /\ exit = "absent" THEN "NOT_RUN"
                  ELSE IF ~failed /\ exit \in {"zero", "absent"} /\ ~regressions THEN "PASSED"
                  ELSE "FAILED",
       failed |-> failed, regressions |-> regressions]

\* The signal of processFeedback(), in the order the code tests for it.
FeedbackSignal(execution, review, qa, remediation) ==
  IF review.status = "BLOCKED" \/ review.maxIterationsReached THEN "REVIEW_BLOCKED"
  ELSE IF qa.regressions THEN "REGRESSION_DETECTED"
  ELSE IF qa.status = "FAILED" \/ qa.failed THEN "QA_FAILED"
  ELSE IF execution = "FAILURE" THEN "FAILED_EXECUTION"
  ELSE IF remediation /\ execution = "SUCCESS" /\ qa.status = "PASSED" THEN "REMEDIATION_VERIFIED"
  ELSE IF execution = "SUCCESS" THEN "SUCCESSFUL_EXECUTION"
  ELSE IF execution = "PARTIAL" THEN "PARTIAL_SUCCESS" ELSE "UNKNOWN_OUTCOME"

\* The event processFeedback() ingests, under an id made from the task's;
\* no event for a partial or unknown outcome.  A success is described by the
\* task's objective, anything else by the reason.
FeedbackEvent(task, agent, project, signal, qa) ==
  LET event(kind, type, rule, component, qaConfirmed) ==
        [id |-> <<kind, task>>, type |-> type, actor |-> agent, project |-> project,
         task |-> task, rule |-> rule, component |-> component,
         text |-> IF kind = "succ" THEN <<task, signal>> ELSE <<signal, task>>,
         remediation |-> None, reviewer |-> FALSE, qa |-> qaConfirmed, verified |-> FALSE]
  IN  CASE signal = "REVIEW_BLOCKED" ->
             event("rev-blk", "REVIEW_BLOCKED", "RULE_REVIEW_BLOCKED", None, FALSE)
        [] signal \in {"FAILED_EXECUTION", "QA_FAILED", "REGRESSION_DETECTED"} ->
             event("fail", "REVIEW_FINDING", "RULE_RUNTIME_FAILURE", "runtime",
                   qa.status = "FAILED")
        [] signal \in {"REMEDIATION_VERIFIED", "SUCCESSFUL_EXECUTION"} ->
             event("succ", "AGENT_FINISHED_WORK", None, None, qa.status = "PASSED")
=============================================================================
