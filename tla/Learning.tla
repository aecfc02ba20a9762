----------------------------- MODULE Learning -----------------------------
(***************************************************************************)
(* The office's learning pipeline at work: events published on the bus are *)
(* persisted and replayed into the memory store; every ingested event is   *)
(* observed as a pattern, every observation re-evaluates the candidate     *)
(* lesson of that pattern; people institutionalise, reject, supersede and  *)
(* revoke; agents' prompts are enriched with what is retrieved; the        *)
(* process may restart, which empties every map, while two tables survive. *)
(*                                                                         *)
(* Each handler runs to completion between two awaits, and without a pool  *)
(* none of the engines awaits anything, so one handler is one action.      *)
(***************************************************************************)
EXTENDS Lessons

CONSTANTS Events,         \* table office_events: what the bus has persisted
          ReplayFrom,     \* the sequence numbers a replay may start from
          Tenants, DefaultTenant,
          Tasks, ProjectOf,   \* tasks the workers finish, and their projects
          Feedbacks,           \* raw outcomes that are fed back (neither partial nor unknown)
          DbOutcomes,          \* whether a statement may succeed, may fail, or both
          MaxIngests, MaxInterventions, MaxRestarts   \* bounds of the instance

\* An absent superseder is no id.
ASSUME NoneAssumption == None \notin Nat

VARIABLES memories,    \* OrganizationalMemoryStore.memories
          rows,        \* table organizational_memories: key -> [boot, id, status]
          replay,      \* events a running replayHistoricalEvents() has still to ingest
          patterns,    \* PatternDetectionEngine.patterns
          candidates,  \* LessonCandidateEngine.candidates
          lessons,     \* LessonValidationEngine.lessons
          ingested,    \* history: events ingested since the last restart
          ingests,     \* number of ingestions, bounded by MaxIngests
          steps,       \* number of governance decisions, bounded by MaxInterventions
          boot         \* number of restarts

learningVars == <<memories, rows, replay, patterns, candidates, lessons,
          ingested, ingests, steps, boot>>

Roles == {"CEO", "OPERATOR"}

Put(f, k, v) == [x \in DOMAIN f \cup {k} |-> IF x = k THEN v ELSE f[x]]

LearningTypeOK ==
  /\ \A i \in 1..Len(memories) :
       /\ memories[i].id = i
       /\ memories[i].tenant \in Tenants
       /\ memories[i].type \in MemoryTypes
       /\ memories[i].status \in MemoryStatuses
       /\ memories[i].recurrenceCount \in 1..MaxIngests
  /\ \A k \in DOMAIN rows : rows[k].status \in MemoryStatuses /\ rows[k].boot \in 0..boot
  /\ DOMAIN patterns = DOMAIN candidates
  /\ \A s \in DOMAIN patterns : /\ patterns[s].status \in PatternStatuses
                                /\ candidates[s].status \in CandidateStatuses
                                /\ candidates[s].contradiction \in Contradictions
  /\ \A i \in 1..Len(lessons) :
       /\ lessons[i].id = i
       /\ lessons[i].status \in {"ACTIVE", "SUPERSEDED", "REVOKED"}
       /\ lessons[i].scope \in LessonScopes
  /\ replay \subseteq Events /\ ingests \in 0..MaxIngests /\ steps \in 0..MaxInterventions
  /\ boot \in 0..MaxRestarts

LearningInit ==
  /\ memories = <<>> /\ rows = <<>> /\ replay = {}
  /\ patterns = <<>> /\ candidates = <<>> /\ lessons = <<>>
  /\ ingested = {} /\ ingests = 0 /\ steps = 0 /\ boot = 0

-----------------------------------------------------------------------------
(* Ingestion *)

\* evaluateAndUpsertCandidate(): the type is fixed when the candidate is made.
Evaluated(cs, s, p, contradiction) ==
  LET was == IF s \in DOMAIN cs THEN cs[s].status ELSE None
  IN  Put(cs, s, [status |-> CandidateStatus(p, was, contradiction),
                  type |-> IF s \in DOMAIN cs THEN cs[s].type ELSE CandidateType(p),
                  contradiction |-> contradiction])

\* processObservation(), followed by the evaluation of the candidate.
ProcessObservation(tenant, o) ==
  LET s == ComputePatternSignature(tenant, o)
      p == IF s \in DOMAIN patterns THEN Recurs(patterns[s], o) ELSE NewPattern(o)
  IN  /\ patterns' = Put(patterns, s, p)
      /\ candidates' = Evaluated(candidates, s, p, "CLEAN")

\* The INSERT of a new memory; a failed one is logged and forgotten.
InsertRow(tenant, in, dbOk) ==
  IF ~dbOk \/ Existing(memories, tenant, in) # {} \/ RowKey(tenant, in) \in DOMAIN rows
  THEN rows' = rows
  ELSE rows' = Put(rows, RowKey(tenant, in),
                   [boot |-> boot, id |-> Len(memories) + 1, status |-> in.status])

IngestEvent(e, tenant, dbOk) ==
  /\ ingests < MaxIngests
  /\ ingests' = ingests + 1
  /\ IF e.type \in IngestedTypes /\ ProvenanceComplete(InputOf(e))
     THEN /\ memories' = Create(memories, tenant, InputOf(e))
          /\ InsertRow(tenant, InputOf(e), dbOk)
          /\ IF e.type \in ObservedTypes
             THEN ProcessObservation(tenant, ObservationOf(e))
             ELSE UNCHANGED <<patterns, candidates>>
          /\ ingested' = ingested \cup {[event |-> e, tenant |-> tenant]}
     ELSE UNCHANGED <<memories, rows, patterns, candidates, ingested>>

\* replayHistoricalEvents(): selects a project's events from a sequence number on,
\* then ingests them one by one.
StartReplay(project, from) ==
  /\ replay = {}
  /\ replay' = {e \in Events : e.project = project /\ e.sequence >= from}
  /\ replay' # {}
  /\ UNCHANGED <<memories, rows, patterns, candidates, lessons,
                 ingested, ingests, steps, boot>>

ReplayEvent(tenant, dbOk) ==
  \E e \in replay :
    /\ \A f \in replay : e.sequence <= f.sequence
    /\ IngestEvent(e, tenant, dbOk)
    /\ replay' = replay \ {e}
    /\ UNCHANGED <<lessons, steps, boot>>

\* What a task's run, review and tests reported becomes an event.
FeedbackEventOf(x) ==
  LET review == IF x.reviewed
                THEN ReviewOutcome(x.iteration, x.findings, x.blockers, x.blocked, x.passed)
                ELSE [status |-> "NONE", maxIterationsReached |-> FALSE]
      qa == QAOutcome(x.testExit, x.tests, x.failures, x.regressions)
      signal == FeedbackSignal(ExecutionOutcome(x.exit, x.status), review, qa, x.remediation)
  IN  FeedbackEvent(x.task, "developer", ProjectOf[x.task], signal, qa)

\* processFeedback() passes no tenant on, whatever the task's tenant is.
ProcessFeedback(x, dbOk) ==
  /\ IngestEvent(FeedbackEventOf(x), DefaultTenant, dbOk)
  /\ UNCHANGED <<replay, lessons, steps, boot>>

-----------------------------------------------------------------------------
(* Governance of memories, patterns and candidates *)

Intervene == steps < MaxInterventions /\ steps' = steps + 1

SupersedeMemory(old, new, tenant, dbOk) ==
  /\ Intervene
  /\ old \in MemoryIds(memories)
  /\ ValidateSupersession(memories, old, new, tenant)
  /\ memories' = Supersede(memories, old, new)
  /\ rows' = [k \in DOMAIN rows |->
                IF dbOk /\ rows[k].boot = boot /\ rows[k].id = old
                THEN [rows[k] EXCEPT !.status = "SUPERSEDED"] ELSE rows[k]]
  /\ UNCHANGED <<replay, patterns, candidates, lessons, ingested, ingests, boot>>

UpdatePatternStatus(s, status) ==
  /\ Intervene
  /\ patterns' = [patterns EXCEPT ![s].status = status]
  /\ UNCHANGED <<memories, rows, replay, candidates, lessons,
                 ingested, ingests, boot>>

\* A caller re-evaluates a candidate with a contradiction it has found.
ReevaluateCandidate(s, contradiction) ==
  /\ Intervene
  /\ candidates' = Evaluated(candidates, s, patterns[s], contradiction)
  /\ UNCHANGED <<memories, rows, replay, patterns, lessons,
                 ingested, ingests, boot>>

RejectCandidate(s) ==
  /\ Intervene
  /\ candidates' = [candidates EXCEPT ![s].status = "REJECTED"]
  /\ UNCHANGED <<memories, rows, replay, patterns, lessons,
                 ingested, ingests, boot>>

-----------------------------------------------------------------------------
(* Lessons *)

LessonStep == UNCHANGED <<memories, rows, replay, patterns, candidates,
                          ingested, ingests, boot>>

InstitutionalizeOperational(s, role) ==
  /\ Intervene
  /\ ValidateCandidate(candidates[s])
  /\ ~RequiresCEOApproval(candidates[s].type)
  /\ lessons' = Append(lessons, NewLesson(lessons, s[1], s, candidates[s], "PROJECT", role))
  /\ LessonStep

ApproveByCEO(s, scope, role) ==
  /\ Intervene
  /\ role = "CEO"
  /\ ValidateCandidate(candidates[s])
  /\ lessons' = Append(lessons, NewLesson(lessons, s[1], s, candidates[s], scope, role))
  /\ LessonStep

SupersedeLesson(old, new, role) ==
  /\ Intervene
  /\ MaySupersedeLesson(lessons, old, new, role)
  /\ lessons' = [lessons EXCEPT ![old].status = "SUPERSEDED", ![old].validity = "SUPERSEDED",
                                ![old].supersededBy = new]
  /\ LessonStep

RevokeLesson(l, role) ==
  /\ Intervene
  /\ role = "CEO"
  /\ lessons' = [lessons EXCEPT ![l].status = "REVOKED", ![l].validity = "OBSOLETE"]
  /\ LessonStep

-----------------------------------------------------------------------------
(* Enrichment of prompts: five functions, one per role, applied in turn *)

EnrichFor(role, t) ==
  LET evidence == [p \in DOMAIN patterns |-> patterns[p].tasks]
      found == Search(memories, t.tenant, t.project, role, "ACTIVE")
      taught == RetrieveLessons(lessons, t.tenant, t.project, role, evidence, t.task)
  IN  IF t.role # role \/ t.project = None THEN t
      ELSE [t EXCEPT !.lessons = t.lessons \o taught, !.memories = t.memories \o found]

EnrichDeveloper(t) == EnrichFor("developer", t)
EnrichArchitect(t) == EnrichFor("architect", t)
EnrichReviewer(t) == EnrichFor("reviewer", t)
EnrichQa(t) == EnrichFor("qa-engineer", t)
EnrichChiefOfStaff(t) == EnrichFor("chief-of-staff", t)

\* RouterWorker calls the five in this order on every task it runs.
Enriched(task, role, tenant) ==
  EnrichChiefOfStaff(EnrichQa(EnrichReviewer(EnrichArchitect(EnrichDeveloper(
    [task |-> task, role |-> role, project |-> ProjectOf[task], tenant |-> tenant,
     memories |-> <<>>, lessons |-> <<>>])))))

Restart ==
  /\ boot < MaxRestarts
  /\ boot' = boot + 1
  /\ memories' = <<>> /\ patterns' = <<>> /\ candidates' = <<>> /\ lessons' = <<>>
  /\ replay' = {} /\ ingested' = {}
  /\ UNCHANGED <<rows, ingests, steps>>

-----------------------------------------------------------------------------
GovernanceNext ==
  \/ \E old \in MemoryIds(memories), new \in MemoryIds(memories) \cup {0}, t \in Tenants, ok \in DbOutcomes :
       SupersedeMemory(old, new, t, ok)
  \/ \E s \in DOMAIN patterns :
       \/ \E st \in PatternStatuses : UpdatePatternStatus(s, st)
       \/ \E c \in Contradictions : ReevaluateCandidate(s, c)
       \/ RejectCandidate(s)

LessonNext ==
  \/ \E s \in DOMAIN candidates, role \in Roles :
       \/ InstitutionalizeOperational(s, role)
       \/ \E scope \in LessonScopes : ApproveByCEO(s, scope, role)
  \/ \E old \in 1..Len(lessons), role \in Roles :
       \/ \E new \in 1..Len(lessons) : SupersedeLesson(old, new, role)
       \/ RevokeLesson(old, role)

LearningNext ==
  \/ \E e \in Events, from \in ReplayFrom : StartReplay(e.project, from)
  \/ \E t \in Tenants, ok \in DbOutcomes : ReplayEvent(t, ok)
  \/ \E x \in Feedbacks, ok \in DbOutcomes : ProcessFeedback(x, ok)
  \/ GovernanceNext
  \/ LessonNext
  \/ Restart

LearningSpec == LearningInit /\ [][LearningNext]_learningVars

-----------------------------------------------------------------------------
(* Properties *)

\* A candidate lesson is ELIGIBLE only when distinct events since the last
\* restart observed its pattern in three different tasks, one of them a review
\* finding with a verified remediation and one confirmed by a reviewer or by
\* QA: replaying history, or feeding the same outcome back, earns nothing
\* (evaluateCandidateEligibility, processObservation).
EligibleIsCorroborated ==
  \A s \in DOMAIN candidates :
    candidates[s].status = "ELIGIBLE" =>
      LET seen == {x.event : x \in {y \in ingested :
                     /\ y.event.type \in ObservedTypes
                     /\ ComputePatternSignature(y.tenant, ObservationOf(y.event)) = s}}
      IN  /\ Cardinality({e.task : e \in seen}) >= MinIndependentTasks
          /\ \E e \in seen : e.type = "REVIEW_FINDING" /\ e.verified
          /\ \E e \in seen : e.reviewer \/ e.qa

\* Every memory that was superseded leads, along supersededBy, to a memory
\* that is not, or to an id the store never held: no set of superseded memories
\* is closed under supersession, so nothing supersedes itself through others
\* (supersede, validateSupersession).
SupersessionWellFounded ==
  \A hidden \in (SUBSET MemoryIds(memories)) \ {{}} :
    \E i \in hidden : \/ memories[i].status # "SUPERSEDED"
                      \/ memories[i].supersededBy \notin hidden

\* Within one process nothing comes back: a memory changes status only as
\* validateStatusTransition() allows without an override, a lesson that left
\* ACTIVE stays out, and a rejected or blocked candidate never becomes
\* eligible, whatever is ingested or replayed afterwards.
NoSilentReactivation ==
  [][boot' = boot =>
       /\ \A i \in 1..Len(memories) :
            memories'[i].status # memories[i].status =>
              ValidateStatusTransition(memories[i].status, memories'[i].status,
                                       memories'[i].supersededBy # None, FALSE)
       /\ \A i \in 1..Len(lessons) :
            lessons[i].status # "ACTIVE" => lessons'[i].status # "ACTIVE"
       /\ \A s \in DOMAIN candidates :
            candidates[s].status \in {"REJECTED", "BLOCKED"} =>
              candidates'[s].status \in {"REJECTED", "BLOCKED"}]_learningVars

\* An agent's prompt holds at most RetrievalLimit memories, none twice, all of
\* the task's project and of the types its role may see: the chain of five
\* enrichments applies exactly one of them (enrich*TaskWithMemory).
PromptIsScoped ==
  \A task \in Tasks, role \in AgentRoles, tenant \in Tenants :
    LET t == Enriched(task, role, tenant)
    IN  /\ Len(t.memories) <= RetrievalLimit /\ Len(t.lessons) <= RetrievalLimit
        /\ \A i, j \in 1..Len(t.memories) : t.memories[i] = t.memories[j] => i = j
        /\ \A i \in 1..Len(t.memories) :
             /\ t.memories[i].type \in AGENT_ROLE_MEMORY_SCOPES[role]
             /\ t.memories[i].project = t.project /\ t.memories[i].tenant = tenant

\* What an agent is told is sound after any sequence of decisions about the memories: no chain of
\* supersessions hides both ends, and no enrichment brings in what the role may not see.
PromptIsSound == SupersessionWellFounded /\ PromptIsScoped
======================================================================
