------------------------------- MODULE Intake -------------------------------
(***************************************************************************)
(* From a request to a sealed execution specification: what intake         *)
(* refuses, what the preflight finds, where each field of the              *)
(* specification comes from, and when a stored specification may be run.   *)
(* A request is the set of its defects and the facts the code looks at.    *)
(***************************************************************************)
EXTENDS Naturals, FiniteSets, TrustBoundary

Fields == {"acceptanceCriteria", "validationPlan", "executionSteps", "constraints",
           "executionInstructions", "risks", "escalationConditions"}

Categories == {"REPOSITORY_INSPECTION", "DOCUMENTATION_LOOKUP", "SKILL_DISCOVERY", "EXTERNAL_RESEARCH"}

\* Refusals of normalization, in the code's order.
IntakeDefects == {"not_a_string", "too_long", "blank", "no_source", "bad_date",
                  "no_objective", "long_objective", "many_constraints"}

NormalizeTaskIntake(req) == req.defects \cap IntakeDefects = {}

AmbiguityFlags(req) ==
  {f \in {"MISSING_REQUESTED_OUTCOME", "MISSING_CONSTRAINTS", "AMBIGUOUS_OBJECTIVE"} :
     \/ f = "MISSING_REQUESTED_OUTCOME" /\ ~req.outcome
     \/ f = "MISSING_CONSTRAINTS" /\ ~req.listed
     \/ f = "AMBIGUOUS_OBJECTIVE" /\ req.vague}

-----------------------------------------------------------------------------
(* Preflight.  A capability answers, answers with nothing, is missing,     *)
(* throws, contradicts itself or comes too late.                           *)

CapabilityAnswers == {"found", "empty", "missing", "throws", "conflict", "late"}

RunCategory(category, answer) ==
  CASE answer = "found" -> "none"
    [] answer = "empty" -> "EMPTY_RESULT"
    [] answer = "conflict" -> "CONFLICTING_INFORMATION"
    [] category = "EXTERNAL_RESEARCH" -> IF answer = "late" THEN "RESEARCH_TIMEOUT" ELSE "RESEARCH_UNAVAILABLE"
    [] OTHER -> IF answer = "late" THEN "CAPABILITY_TIMEOUT" ELSE "CAPABILITY_UNAVAILABLE"

Failures(preflight) == {RunCategory(c, preflight[c]) : c \in DOMAIN preflight} \ {"none"}

\* An empty result only blocks; every other failure fails the preflight.
PreflightStatus(preflight) ==
  CASE Failures(preflight) \ {"EMPTY_RESULT"} # {} -> "FAILED"
    [] DOMAIN preflight = {}                       -> "FAILED"
    [] Failures(preflight) = {}                    -> "COMPLETED"
    [] OTHER                                       -> "BLOCKED"

-----------------------------------------------------------------------------
(* Refinement and the canonical specification.                             *)

\* The engine refuses a failed preflight only; the gate status is not read.
Refines(req) == PreflightStatus(req.preflight) # "FAILED" /\ req.refiner # "fails"

\* Refinement is asked for when one of three fields is open; its errors are swallowed.
Refined(req) ==
  IF {"acceptanceCriteria", "validationPlan", "executionSteps"} \subseteq req.given \/ ~Refines(req)
  THEN {} ELSE req.refined \ req.given

\* Where the fields of the specification come from: the caller, the refinement, or a default.
FieldSources(req) ==
  [f \in Fields |-> IF f \in req.given THEN "caller" ELSE IF f \in Refined(req) THEN "refined" ELSE "default"]

\* A branch that is not given is authorized under a name of its own.
BuildCanonicalExecutionSpec(req) == Authorize(req.target)

ValidateExecutionSpec(req) == ~("malformed_field" \in req.defects)

\* The semantic checks at the seal: targets, limits and levels that are present must be well formed.
ValidateSemantics(req) == ~("bad_target" \in req.defects \/ "bad_level" \in req.defects)

AcceptsIntake(req) ==
  NormalizeTaskIntake(req) /\ BuildCanonicalExecutionSpec(req) /\ ValidateExecutionSpec(req)

-----------------------------------------------------------------------------
(* The stored specification.                                               *)

NoSpec == [status |-> "ABSENT", hashed |-> FALSE, sources |-> [f \in Fields |-> "none"], risks |-> {}]

\* The ambiguities of a request become its risks when nobody names any.
CreateExecutionSpec(req) ==
  [status |-> "UNSEALED", hashed |-> FALSE, sources |-> FieldSources(req),
   risks |-> IF FieldSources(req)["risks"] = "default" THEN AmbiguityFlags(req) ELSE {}]

\* Sealing a sealed specification changes nothing.
SealExecutionSpec(spec) == IF spec.status = "SEALED" THEN spec ELSE [spec EXCEPT !.status = "SEALED", !.hashed = TRUE]

\* The worker's check; the hash of a sealed record is the hash of its content, which nobody rewrites.
AssertSealedExecutable(spec) == spec.status = "SEALED"

=============================================================================
