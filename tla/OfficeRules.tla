---------------------------- MODULE OfficeRules ----------------------------
(***************************************************************************)
(* What the office decides without waiting for anyone: how a message is    *)
(* read, who gets a task, whether a plan or a pipeline is well formed, how *)
(* a pipeline moves, and how a review ends.                                *)
(***************************************************************************)
EXTENDS Integers, Sequences, SequencesExt

-----------------------------------------------------------------------------
(* Messages: a message is the set of cues its words give.                  *)

\* Task types in the order in which their cues are looked for.
TypeOrder == <<"INVESTIGATION", "QUESTION", "SECURITY", "BUG", "OPTIMIZATION", "UX",
               "EXPLORATION", "ARCHITECTURE", "RESEARCH", "REFACTOR", "MAINTENANCE", "FEATURE">>

ClassifyTaskType(m) ==
  LET found == SelectSeq(TypeOrder, LAMBDA t : t \in m)
  IN  IF found = <<>> THEN "FEATURE" ELSE Head(found)

EvaluateRisk(m) ==
  LET type == ClassifyTaskType(m)
  IN  CASE "production" \in m -> "CRITICAL"
        [] "production" \notin m /\ ("docs" \in m \/ type = "QUESTION") -> "LOW"
        [] {"production", "docs"} \cap m = {} /\ type # "QUESTION"
             /\ ("sensitive" \in m \/ type = "SECURITY") -> "HIGH"
        [] OTHER -> IF "wide" \in m \/ type \in {"REFACTOR", "FEATURE", "OPTIMIZATION", "ARCHITECTURE"}
                    THEN "MEDIUM" ELSE "LOW"

NeedsApproval(m) == EvaluateRisk(m) \in {"CRITICAL", "HIGH"}

\* A task made from an intent: its queue priority follows the risk.
EngineeringTask(m) ==
  [type |-> ClassifyTaskType(m), approval |-> NeedsApproval(m),
   priority |-> CASE EvaluateRisk(m) = "CRITICAL" -> 3 [] EvaluateRisk(m) = "HIGH" -> 2 [] OTHER -> 1]

IsAmbiguousCommand(m) == "vague" \in m

IsStatusInquiry(m) == "imperative" \notin m /\ "inquiry" \in m

-----------------------------------------------------------------------------
(* Agents: a task names one, or the registry is searched for a clear best. *)

Staff == <<"chief-of-staff", "architect", "developer", "reviewer", "qa-engineer">>
IsValidAgentId(a) == a \in ToSet(Staff)

\* The agent with the most of the capabilities a directive asks for, first come.
SelectSpecialistForTask(m) ==
  CASE "ARCHITECTURE" \in m -> "architect"
    [] "ARCHITECTURE" \notin m /\ "SECURITY" \in m -> "reviewer"
    [] {"ARCHITECTURE", "SECURITY"} \cap m = {} /\ "tests" \in m /\ "imperative" \notin m -> "qa-engineer"
    [] OTHER -> "developer"

\* A step's agent: given and registered, or suggested when one score (in
\* hundredths) reaches 60 and leads by 15; nobody otherwise.
ResolveAgentAssignment(agent, score) ==
  IF agent # "none" THEN IF IsValidAgentId(agent) THEN agent ELSE "none"
  ELSE LET clear == {a \in ToSet(Staff) : /\ score[a] >= 60
                                          /\ \A b \in ToSet(Staff) \ {a} : score[a] - score[b] >= 15}
       IN  IF clear = {} THEN "none" ELSE CHOOSE a \in clear : TRUE

-----------------------------------------------------------------------------
(* Graphs of steps: step i waits for the numbers in deps[i].               *)

\* Some steps wait for each other.
Cyclic(deps) ==
  \E S \in SUBSET DOMAIN deps \ {{}} : \A i \in S : deps[i] \cap S # {}

\* Of a pipeline: dependencies on steps it does not have are left alone.
ValidateDAG(deps) == ~Cyclic(deps)

\* Of a plan: unknown dependencies and self dependencies are errors too.
ValidateStepDependencies(deps) ==
  /\ \A i \in DOMAIN deps : deps[i] \subseteq DOMAIN deps /\ i \notin deps[i]
  /\ ~Cyclic(deps)

\* The four stages a plan without steps is made of.
DefaultSteps == [deps |-> <<{}, {1}, {2}, {3}>>,
                 agents |-> <<"architect", "developer", "reviewer", "qa-engineer">>]

CreateOrganizationalPlan(given) ==
  LET s == IF given.deps = <<>> THEN DefaultSteps ELSE given
      agents == [i \in DOMAIN s.deps |-> ResolveAgentAssignment(s.agents[i], [a \in ToSet(Staff) |-> 0])]
  IN  [deps |-> s.deps, agents |-> agents,
       status |-> CASE ~ValidateStepDependencies(s.deps) -> "INVALID"
                    [] ValidateStepDependencies(s.deps) /\ "none" \in ToSet(agents) -> "DRAFT"
                    [] OTHER -> "READY"]

-----------------------------------------------------------------------------
(* Pipelines *)

CreatePipeline(given) ==
  [status |-> "PLANNING", completed |-> 0,
   steps |-> [i \in DOMAIN given |->
                [deps |-> given[i].deps, chk |-> IF given[i].chk THEN "PENDING" ELSE "NONE",
                 status |-> IF given[i].deps = {} THEN "READY" ELSE "WAITING_DEPENDENCY"]]]

Final(p) == p.status \in {"COMPLETED", "FAILED", "CANCELLED"}
Done(p) == {i \in DOMAIN p.steps : p.steps[i].status = "COMPLETED"}

\* Where one tick takes a step.
Ticked(step, done) ==
  CASE step.status = "COMPLETED" -> step
    [] step.status # "COMPLETED" /\ ~(step.deps \subseteq done) -> [step EXCEPT !.status = "WAITING_DEPENDENCY"]
    [] OTHER -> [step EXCEPT !.status =
                   CASE step.chk = "PENDING" -> "WAITING_APPROVAL"
                     [] step.chk = "REJECTED" -> "FAILED"
                     [] OTHER -> IF @ \in {"WAITING_DEPENDENCY", "PENDING"} THEN "READY" ELSE @]

\* A rejected step ends the tick on the spot: later steps and the count stay.
TickPipeline(p) ==
  LET done == Done(p)
      steps == [i \in DOMAIN p.steps |-> Ticked(p.steps[i], done)]
      rejected == {i \in DOMAIN steps : steps[i].status = "FAILED"}
      cut == {i \in DOMAIN steps : \A r \in rejected : i <= r}
  IN  IF Final(p) THEN p
      ELSE IF rejected # {}
      THEN [p EXCEPT !.steps = [i \in DOMAIN steps |-> IF i \in cut THEN steps[i] ELSE p.steps[i]],
                     !.status = "FAILED"]
      ELSE [p EXCEPT !.steps = steps, !.completed = Cardinality(done),
                     !.status = CASE done = DOMAIN steps -> "COMPLETED"
                                  [] done # DOMAIN steps /\ \E i \in DOMAIN steps :
                                       steps[i].status = "WAITING_APPROVAL" -> "WAITING_APPROVAL"
                                  [] OTHER -> "RUNNING"]

\* Mutant: a grant releases the step and leaves the pipeline unticked.
DecideCheckpoint_NoTick(p, i, decision) ==
  [p EXCEPT !.steps[i].chk = IF decision = "GRANT" THEN "GRANTED" ELSE "REJECTED",
            !.steps[i].status = IF decision = "GRANT" THEN "READY" ELSE "FAILED",
            !.status = IF decision = "GRANT" THEN @ ELSE "FAILED"]

\* A decision marks the step at once, whatever it waits for; the tick that
\* follows takes an early grant back to waiting.
DecideCheckpoint(p, i, decision) ==
  LET decided == [p EXCEPT !.steps[i].chk = IF decision = "GRANT" THEN "GRANTED" ELSE "REJECTED",
                           !.steps[i].status = IF decision = "GRANT" THEN "READY" ELSE "FAILED",
                           !.status = IF decision = "GRANT" THEN @ ELSE "FAILED"]
  IN  TickPipeline(decided)

CompleteStep(p, i) == TickPipeline([p EXCEPT !.steps[i].status = "COMPLETED"])

-----------------------------------------------------------------------------
(* Reviews: evidence is what is known of tests, typecheck, build and       *)
(* findings, each "passed", "failed" or "unknown".                         *)

MaxReviewIterations == 3

\* The evidence in a task's result; without a result nothing is known.
ExtractReviewContextFromTask(result) ==
  CASE result = "none" -> "unknown" [] result = "clean" -> "passed" [] OTHER -> "failed"

EvaluateReview(iteration, evidence) ==
  CASE evidence = "unknown" -> "BLOCKED"
    [] evidence = "failed" -> IF iteration >= MaxReviewIterations THEN "BLOCKED" ELSE "CHANGES_REQUESTED"
    [] OTHER -> "APPROVED"

\* The events a review publishes, in order.
ReviewEvents(iteration, evidence) ==
  CASE evidence = "unknown" -> <<"REVIEW_BLOCKED">>
    [] evidence = "failed" -> IF EvaluateReview(iteration, evidence) = "BLOCKED"
                              THEN <<"REVIEW_BLOCKED", "MESSAGE_SENT">> ELSE <<"REVIEW_FINDING", "MESSAGE_SENT">>
    [] OTHER -> <<"REVIEW_APPROVED", "MESSAGE_SENT">>
=============================================================================
