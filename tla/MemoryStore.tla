--------------------------- MODULE MemoryStore ---------------------------
(***************************************************************************)
(* Organizational memory of the office (src/office/memory.ts) and its      *)
(* governance rules (src/office/memory-governance.ts).                     *)
(*                                                                         *)
(* The store is a Map in insertion order: here a sequence of records, the  *)
(* id of a memory being its rank of creation.  Titles and contents are     *)
(* left out; an event is a record                                          *)
(*   [id, type, actor, project, task, plan, rule, text, remediation,       *)
(*    reviewer, qa, verified]                                              *)
(* whose text is a pair <<what it says, what varies from run to run>>.     *)
(***************************************************************************)
EXTENDS Naturals, Sequences, FiniteSets, SequencesExt

CONSTANTS RetrievalLimit,  \* five in the code: the cap of every listing
          None             \* an absent optional field

ASSUME RetrievalLimitAssumption == RetrievalLimit \in Nat \ {0}

AgentRoles == {"chief-of-staff", "architect", "developer", "reviewer", "qa-engineer"}
MemoryTypes == {"DECISION", "REVIEW_FINDING", "TASK_RESULT", "LESSON",
                "PROJECT_CONTEXT", "AGENT_CONTEXT", "PLAN"}
MemoryStatuses == {"ACTIVE", "SUPERSEDED", "BLOCKED"}

AGENT_ROLE_MEMORY_SCOPES ==
  [r \in AgentRoles |->
     CASE r = "chief-of-staff" -> {"DECISION", "PLAN", "PROJECT_CONTEXT"}
       [] r = "architect" -> {"DECISION", "PLAN", "REVIEW_FINDING", "PROJECT_CONTEXT"}
       [] r = "reviewer" -> {"REVIEW_FINDING", "TASK_RESULT", "PROJECT_CONTEXT"}
       [] OTHER -> {"TASK_RESULT", "REVIEW_FINDING", "LESSON", "PROJECT_CONTEXT"}]

-----------------------------------------------------------------------------
(* What an event says becomes a memory.  An absent actor is replaced by    *)
(* the office's own where the code names one.                              *)

ActorOr(e, default) == IF e.actor = None THEN default ELSE e.actor

MemoryInput(e, type, status, scope, source, actor, task) ==
  [project |-> e.project, type |-> type, status |-> status, scope |-> scope,
   source |-> source, actor |-> actor, event |-> e.id, task |-> task,
   rule |-> IF type = "REVIEW_FINDING" /\ status = "ACTIVE" THEN e.rule ELSE None]

ApprovalMemory(e) ==
  MemoryInput(e, "DECISION", "ACTIVE", "PROJECT", "CEO_DECISION", ActorOr(e, "ceo"), e.task)

FindingMemory(e) ==
  MemoryInput(e, "REVIEW_FINDING", "ACTIVE", "PROJECT", "REVIEW_INSPECTION",
              ActorOr(e, "reviewer"), e.task)

BlockedMemory(e) ==
  MemoryInput(e, "REVIEW_FINDING", "BLOCKED", "PROJECT", "REVIEW_INSPECTION",
              ActorOr(e, "reviewer"), e.task)

FinishedMemory(e) ==
  MemoryInput(e, "TASK_RESULT", "ACTIVE", "TASK", "RUNTIME_EXECUTION", e.actor, e.task)

FailedMemory(e) ==
  MemoryInput(e, "TASK_RESULT", "ACTIVE", "TASK", "RUNTIME_EXECUTION", e.actor, e.task)

PlanMemory(e) ==
  MemoryInput(e, "PLAN", "ACTIVE", "PROJECT", "ORGANIZATIONAL_PLAN",
              ActorOr(e, "chief-of-staff"), None)

IngestedTypes == {"APPROVAL_GRANTED", "APPROVAL_REJECTED", "REVIEW_FINDING", "REVIEW_BLOCKED",
                  "AGENT_FINISHED_WORK", "AGENT_FAILED_WORK", "PLAN_FORMULATED"}

InputOf(e) ==
  CASE e.type \in {"APPROVAL_GRANTED", "APPROVAL_REJECTED"} -> ApprovalMemory(e)
    [] e.type = "REVIEW_FINDING" -> FindingMemory(e)
    [] e.type = "REVIEW_BLOCKED" -> BlockedMemory(e)
    [] e.type = "AGENT_FINISHED_WORK" -> FinishedMemory(e)
    [] e.type = "AGENT_FAILED_WORK" -> FailedMemory(e)
    [] e.type = "PLAN_FORMULATED" -> PlanMemory(e)

\* create() refuses a memory whose provenance is incomplete; ingestEvent()
\* swallows the exception, so such an event leaves no trace.
ProvenanceComplete(in) == in.project # None /\ in.actor # None

-----------------------------------------------------------------------------
(* The store *)

DedupeIdentity(m) ==
  IF m.event # None THEN m.event ELSE IF m.task # None THEN m.task ELSE m.rule

DedupeKey(tenant, in) == <<tenant, in.project, in.type, DedupeIdentity(in)>>

Existing(mems, tenant, in) ==
  {i \in 1..Len(mems) : DedupeKey(mems[i].tenant, mems[i]) = DedupeKey(tenant, in)}

\* The row key of the ON CONFLICT clause of the INSERT.
RowKey(tenant, in) == <<tenant, in.project, in.type, in.event, in.task, in.rule>>

NewMemory(mems, tenant, in) ==
  [id |-> Len(mems) + 1, tenant |-> tenant, project |-> in.project, type |-> in.type,
   status |-> in.status, scope |-> in.scope, source |-> in.source, actor |-> in.actor,
   event |-> in.event, task |-> in.task, rule |-> in.rule,
   recurrenceCount |-> 1, supersededBy |-> None]

\* Mutant: a duplicate takes the status of the new input.
Create_Refreshes(mems, tenant, in) ==
  IF Existing(mems, tenant, in) # {}
  THEN [i \in 1..Len(mems) |->
          IF i \in Existing(mems, tenant, in)
          THEN [mems[i] EXCEPT !.recurrenceCount = @ + 1, !.status = in.status] ELSE mems[i]]
  ELSE Append(mems, NewMemory(mems, tenant, in))

\* A duplicate only counts: its status is not touched.
Create(mems, tenant, in) ==
  IF Existing(mems, tenant, in) # {}
  THEN [i \in 1..Len(mems) |->
          IF i \in Existing(mems, tenant, in)
          THEN [mems[i] EXCEPT !.recurrenceCount = @ + 1] ELSE mems[i]]
  ELSE Append(mems, NewMemory(mems, tenant, in))

MemoryIds(mems) == {mems[i].id : i \in 1..Len(mems)}

\* Mutant: the replacement may itself be superseded.
ValidateSupersession_AnyReplacement(mems, old, new, tenant) ==
  /\ mems[old].tenant = tenant
  /\ old # new
  /\ mems[old].status = "ACTIVE"

\* validateSupersession(): a replacement the store does not hold is taken at
\* its word, and scopes other than PROJECT may cross projects.
ValidateSupersession(mems, old, new, tenant) ==
  /\ mems[old].tenant = tenant
  /\ old # new
  /\ new \in MemoryIds(mems) =>
       /\ mems[new].tenant = tenant
       /\ mems[old].scope = "PROJECT" /\ mems[new].scope = "PROJECT"
            => mems[old].project = mems[new].project
       /\ mems[new].status = "ACTIVE"
  /\ mems[old].status = "ACTIVE"

Supersede(mems, old, new) ==
  [mems EXCEPT ![old].status = "SUPERSEDED", ![old].supersededBy = new]

\* search() as the agents call it: with a role, whose scopes replace the
\* types of the filter and whose presence disables the keyword filter.
Search(mems, tenant, project, role, status) ==
  LET Matches(m) == /\ m.tenant = tenant
                    /\ m.project = project
                    /\ m.status = status
                    /\ m.type \in AGENT_ROLE_MEMORY_SCOPES[role]
      found == SelectSeq(mems, Matches)
  IN  SubSeq(found, 1, IF Len(found) < RetrievalLimit THEN Len(found) ELSE RetrievalLimit)

-----------------------------------------------------------------------------
(* Governance *)

ValidateStatusTransition(from, to, hasSuperseder, adminOverride) ==
  /\ from # to
  /\ \/ from = "ACTIVE" /\ to = "SUPERSEDED" /\ hasSuperseder
     \/ from = "ACTIVE" /\ to = "BLOCKED"
     \/ from \in {"SUPERSEDED", "BLOCKED"} /\ adminOverride
=============================================================================
