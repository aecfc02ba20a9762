------------------------------ MODULE Mission ------------------------------
(***************************************************************************)
(* Missions of the autonomy loop: callers in several processes execute the *)
(* numbered cycles of one mission through the execution controller, whose  *)
(* durable records live in the database or, when a statement fails, in the *)
(* "sovereign" maps of the process.  Every await is a step of its own;     *)
(* what runs between two awaits is one action.                             *)
(***************************************************************************)
EXTENDS Integers, Sequences, FiniteSets

-----------------------------------------------------------------------------
(* The decisions of the autonomy loop: which capabilities of a mission are *)
(* missing, which of them can be worked on, and which one is next.  A      *)
(* system state is a function from the registered capabilities to their    *)
(* statuses.                                                               *)

CONSTANTS Registered,     \* capabilities known before the mission: id -> [category, dependencies]
          InitialStatus   \* and their statuses

\* A capability that was not registered becomes EXECUTION without dependencies.
CategoryOf(c) == IF c \in DOMAIN Registered THEN Registered[c].category ELSE "EXECUTION"
DependenciesOf(c) == IF c \in DOMAIN Registered THEN Registered[c].dependencies ELSE {}

Unverified(state, c) == c \notin DOMAIN state \/ state[c] # "VERIFIED"

Severity(state, c) ==
  IF c \notin DOMAIN state THEN "HIGH"
  ELSE CASE CategoryOf(c) \in {"FOUNDATION", "CONTEXT"} -> "CRITICAL"
         [] CategoryOf(c) \in {"RESEARCH", "FEEDBACK"} -> "HIGH"
         [] OTHER -> "MEDIUM"

BlockedBy(state, c) ==
  IF c \notin DOMAIN state THEN {} ELSE {d \in DependenciesOf(c) : Unverified(state, d)}

\* The gaps in the order of the mission's targets.
AnalyzeGaps(targets, state) == SelectSeq(targets, LAMBDA c : Unverified(state, c))

CalculateUnblockingLeverage(state, c) ==
  Cardinality({d \in DOMAIN state : d # c /\ Unverified(state, d) /\ c \in DependenciesOf(d)})

SeverityWeight(s) == CASE s = "CRITICAL" -> 30 [] s = "HIGH" -> 20 [] OTHER -> 10

Score(state, c) ==
  25 * CalculateUnblockingLeverage(state, c) + SeverityWeight(Severity(state, c))
    + (IF c \in DOMAIN state /\ state[c] = "PARTIAL" THEN 15 ELSE 0)

\* Mutant: a mission without anything to do is taken for a completed one.
SelectNextBestAction_Premature(targets, state) ==
  LET actionable == SelectSeq(AnalyzeGaps(targets, state), LAMBDA c : BlockedBy(state, c) = {})
  IN  IF actionable = <<>> THEN [type |-> "COMPLETE_MISSION"]
      ELSE [type |-> "ADVANCE", target |-> actionable[1], risk |-> "MEDIUM"]

\* The first of the actionable gaps with the highest score (the sort is stable).
SelectNextBestAction(targets, state) ==
  LET gaps == AnalyzeGaps(targets, state)
      actionable == SelectSeq(gaps, LAMBDA c : BlockedBy(state, c) = {})
      best == CHOOSE i \in DOMAIN actionable :
                /\ \A j \in DOMAIN actionable : Score(state, actionable[j]) <= Score(state, actionable[i])
                /\ \A j \in 1..(i - 1) : Score(state, actionable[j]) < Score(state, actionable[i])
  IN  IF \A i \in DOMAIN targets : ~Unverified(state, targets[i]) THEN [type |-> "COMPLETE_MISSION"]
      ELSE IF actionable = <<>> THEN [type |-> "BLOCKED_REVIEW"]
      ELSE [type |-> "ADVANCE", target |-> actionable[best],
            risk |-> IF Severity(state, actionable[best]) = "CRITICAL" THEN "HIGH" ELSE "MEDIUM"]

\* applyStateUpdate(): registers the capability if the state does not know it.
ApplyStateUpdate(state, c, status) ==
  [d \in DOMAIN state \cup {c} |-> IF d = c THEN status ELSE state[d]]

-----------------------------------------------------------------------------
(* The mission and its callers                                             *)

CONSTANTS Threads, Processes,
          Placements,     \* the processes the callers may live in: caller -> process
          Goals,          \* target lists a mission may have
          RiskPolicies,   \* of STRICT and BALANCED
          TaskResults,    \* how workers may end a task
          MaxCycles,      \* mission.maxCycles
          MaxCalls, MaxFaults   \* bounds: calls; crashes and failing statements together

VARIABLES targets, riskPolicy,   \* the mission
          ProcessOf,  \* where the callers live, never changed
          store,      \* rows in the database and in each process's sovereign maps
          tasks,      \* tasks the controller queued, in order
          approvals,  \* ApprovalManager.approvals of the processes
          th,         \* the callers
          active,     \* activeCycleKeys of each process
          doubled,    \* history: the cycles that had rows in the database and in a map at once
          calls, faults

mission == <<targets, riskPolicy, ProcessOf>>
vars == <<mission, store, tasks, approvals, th, active, doubled, calls, faults>>
others == <<mission, calls, doubled>>

db == "db"
NoRow == [status |-> "NONE", target |-> "none", task |-> 0, stop |-> "NONE"]
CycleStatuses == {"RUNNING", "COMPLETED", "FAILED", "BLOCKED", "WAITING_APPROVAL"}
CycleNumbers == 1..(MaxCycles + 1)
Empty == [mission |-> "NONE", state |-> <<>>, cycles |-> [n \in CycleNumbers |-> NoRow]]
Idle == [pc |-> "idle", cycle |-> 1, last |-> 1, state |-> InitialStatus, mission |-> "ACTIVE",
         seen |-> NoRow, target |-> "none", task |-> 0, outcome |-> "NONE"]
\* Every caller lives in one process; the database is none of them.
ASSUME PlacesAssumption == Placements \subseteq [Threads -> Processes] /\ db \notin Processes
ASSUME CyclesAssumption == MaxCycles \in Nat
\* A task ends COMPLETED with evidence, COMPLETED without it, or FAILED.
ASSUME ResultsAssumption == TaskResults \subseteq {"verified", "weak", "failed"}

TypeOK ==
  /\ targets \in Goals /\ ProcessOf \in Placements
  /\ riskPolicy \in RiskPolicies
  /\ \A s \in DOMAIN store : \A n \in CycleNumbers :
       /\ store[s].cycles[n].status \in CycleStatuses \cup {"NONE"}
       /\ store[s].cycles[n].task \in 0..Len(tasks)
  /\ \A s \in DOMAIN store : store[s].cycles[MaxCycles + 1] = NoRow
  /\ \A k \in DOMAIN tasks : tasks[k].status \in TaskResults \cup {"QUEUED"}
  /\ \A t \in Threads : th[t].cycle \in CycleNumbers /\ th[t].task \in 0..Len(tasks)
  /\ \A p \in Processes : active[p] \subseteq CycleNumbers
  /\ \A i \in DOMAIN approvals : approvals[i].status \in {"PENDING", "GRANTED", "REJECTED"}

Init ==
  /\ targets \in Goals /\ riskPolicy \in RiskPolicies
  /\ store = [s \in Processes \cup {db} |-> Empty]
  /\ tasks = <<>> /\ approvals = <<>>
  /\ th = [t \in Threads |-> Idle] /\ active = [p \in Processes |-> {}]
  /\ ProcessOf \in Placements /\ doubled = {} /\ calls = 0 /\ faults = 0

-----------------------------------------------------------------------------
(* The repository: a statement that fails, or an UPDATE or SELECT that     *)
(* finds no row, is answered from the maps of the process.                 *)

Fault == faults < MaxFaults /\ faults' = faults + 1

Statement(ok) == IF ok THEN UNCHANGED faults ELSE Fault

Home(p, ok, present) == IF ok /\ present THEN db ELSE p

GetCycle(p, n, ok) == store[Home(p, ok, store[db].cycles[n] # NoRow)].cycles[n]

SaveCurrentState(p, state, ok) == store' = [store EXCEPT ![Home(p, ok, TRUE)].state = state]

\* INSERT ... ON CONFLICT DO NOTHING: an existing row stays as it is.
AcquireCycle(p, n, target, ok) ==
  LET h == Home(p, ok, TRUE)
  IN  IF store[h].cycles[n] # NoRow THEN store
      ELSE [store EXCEPT ![h].cycles[n] = [NoRow EXCEPT !.status = "RUNNING", !.target = target]]

\* The cycles that two places hold: from then on an acquire and an update may answer from different rows.
Doubled == {n \in CycleNumbers : store[db].cycles[n] # NoRow /\ \E p \in Processes : store[p].cycles[n] # NoRow}

\* UpdateCycle: only the fields given are written, to a row that exists.
UpdateCycle(p, n, fields, ok) ==
  LET h == Home(p, ok, store[db].cycles[n] # NoRow)
      row == store[h].cycles[n]
      new == [f \in DOMAIN row |-> IF f \in DOMAIN fields THEN fields[f] ELSE row[f]]
  IN  store' = IF row = NoRow THEN store ELSE [store EXCEPT ![h].cycles[n] = new]

UpdateMission(p, status, ok) ==
  LET h == Home(p, ok, store[db].mission # "NONE")
  IN  store' = IF store[h].mission = "NONE" THEN store ELSE [store EXCEPT ![h].mission = status]

-----------------------------------------------------------------------------
(* Callers *)

\* A caller has either just made the mission or recovered it from the repository.
RecoverMission(p, ok) ==
  LET hm == Home(p, ok, store[db].mission # "NONE")
      hs == Home(p, ok, store[db].state # <<>>)
  IN  [mission |-> IF store[hm].mission = "NONE" THEN "ACTIVE" ELSE store[hm].mission,
       state |-> IF store[hs].state = <<>> THEN InitialStatus ELSE store[hs].state]

\* executeCycle() once, or executeMissionContinuously() from the first cycle on.
Call(t, first, last, recovered, ok) ==
  /\ th[t].pc = "idle" /\ calls < MaxCalls /\ (last = first \/ (first = 1 /\ last = MaxCycles))
  /\ calls' = calls + 1
  /\ LET r == RecoverMission(ProcessOf[t], ok)
     IN  th' = [th EXCEPT ![t] =
                  [Idle EXCEPT !.pc = "lookup", !.cycle = first, !.last = last,
                               !.mission = IF recovered THEN r.mission ELSE "ACTIVE",
                               !.state = IF recovered THEN r.state ELSE InitialStatus]]
  /\ Statement(ok)
  /\ UNCHANGED <<mission, store, tasks, approvals, active, doubled>>

\* executeCycle() returns; the continuous loop takes the next cycle unless stopped.
Returned(t, state, stopped) ==
  IF stopped \/ th[t].cycle = th[t].last THEN Idle
  ELSE [Idle EXCEPT !.pc = "lookup", !.cycle = th[t].cycle + 1, !.last = th[t].last,
                    !.state = state, !.mission = th[t].mission]

\* The return of a call that holds its key.
ReturnAndRelease(t, state, stopped) ==
  /\ th' = [th EXCEPT ![t] = Returned(t, state, stopped)]
  /\ active' = [active EXCEPT ![ProcessOf[t]] = @ \ {th[t].cycle}]

Goto(t, pc) == th' = [th EXCEPT ![t].pc = pc]

Lookup(t, ok) ==
  /\ th[t].pc = "lookup"
  /\ Statement(ok)
  /\ th' = [th EXCEPT ![t].pc = "decide", ![t].seen = GetCycle(ProcessOf[t], th[t].cycle, ok)]
  /\ UNCHANGED <<others, store, tasks, approvals, active>>

NotActive(t) == th[t].cycle \notin active[ProcessOf[t]]

\* Steps 1 to 7: the key, the limit, the gaps, the action and its risk.
Planned(t) ==
  LET a == SelectNextBestAction(targets, th[t].state)
      r == th[t]
  IN  IF r.cycle > MaxCycles THEN [r EXCEPT !.pc = "status", !.mission = "PAUSED"]
      ELSE CASE a.type = "COMPLETE_MISSION" -> [r EXCEPT !.pc = "status", !.mission = "COMPLETED"]
             [] a.type = "BLOCKED_REVIEW" -> [r EXCEPT !.pc = "status", !.mission = "BLOCKED"]
             [] a.type = "ADVANCE" /\ a.risk = "HIGH" -> [r EXCEPT !.pc = "hold", !.target = a.target]
             [] OTHER -> [r EXCEPT !.pc = "create", !.target = a.target]

\* What the cycle's row says is read again by nobody until this continuation runs.
Decide(t) ==
  /\ th[t].pc = "decide"
  /\ LET s == th[t].seen.status
     IN  \/ /\ s = "COMPLETED" /\ Goto(t, "latest") /\ UNCHANGED active
         \/ /\ s = "WAITING_APPROVAL" /\ th' = [th EXCEPT ![t] = Idle] /\ UNCHANGED active
         \/ /\ s = "RUNNING" /\ NotActive(t)
            /\ Goto(t, IF th[t].seen.task = 0 THEN "recoverFail" ELSE "recoverTask")
            /\ UNCHANGED active
         \/ /\ s \in {"NONE", "FAILED", "BLOCKED"} /\ NotActive(t)
            /\ th' = [th EXCEPT ![t] = Planned(t)]
            /\ active' = [active EXCEPT ![ProcessOf[t]] = @ \cup {th[t].cycle}]
         \/ /\ s \notin {"COMPLETED", "WAITING_APPROVAL"} /\ ~NotActive(t)
            /\ th' = [th EXCEPT ![t] = Idle] /\ UNCHANGED active
  /\ UNCHANGED <<others, store, tasks, approvals, faults>>

\* A completed cycle is answered from its row, with the latest durable state.
LatestState(t, ok) ==
  /\ th[t].pc = "latest"
  /\ Statement(ok)
  /\ LET s == store[Home(ProcessOf[t], ok, store[db].state # <<>>)].state
         stopped == th[t].seen.stop # "NONE"
     IN  th' = [th EXCEPT ![t] = Returned(t, IF s = <<>> THEN th[t].state ELSE s, stopped)]
  /\ UNCHANGED <<others, store, tasks, approvals, active>>

-----------------------------------------------------------------------------
(* Recovery of a cycle found RUNNING that this process does not execute *)

\* Mutant: any finished task is taken for a verified one.
RecoveredTask_Any(k) == tasks[k].status # "QUEUED"

RecoveredTask(k) == tasks[k].status = "verified"

RecoverTask(t) ==
  /\ th[t].pc = "recoverTask"
  /\ th' = IF RecoveredTask(th[t].seen.task)
           THEN [th EXCEPT ![t].pc = "recoverSave",
                           ![t].state = ApplyStateUpdate(@, th[t].seen.target, "VERIFIED")]
           ELSE [th EXCEPT ![t].pc = "recoverFail"]
  /\ UNCHANGED <<others, store, tasks, approvals, active, faults>>

RecoverSave(t, ok) ==
  /\ th[t].pc = "recoverSave"
  /\ Statement(ok)
  /\ SaveCurrentState(ProcessOf[t], th[t].state, ok)
  /\ Goto(t, "recoverDone")
  /\ UNCHANGED <<others, tasks, approvals, active>>

RecoverDone(t, ok) ==
  /\ th[t].pc = "recoverDone"
  /\ Statement(ok)
  /\ UpdateCycle(ProcessOf[t], th[t].cycle, [status |-> "COMPLETED"], ok)
  /\ th' = [th EXCEPT ![t] = Returned(t, th[t].state, FALSE)]
  /\ UNCHANGED <<others, tasks, approvals, active>>

RecoverFail(t, ok) ==
  /\ th[t].pc = "recoverFail"
  /\ Statement(ok)
  /\ UpdateCycle(ProcessOf[t], th[t].cycle,
                 [status |-> "FAILED", stop |-> "CRASH_RECOVERY_REQUIRED"], ok)
  /\ th' = [th EXCEPT ![t] = Idle]
  /\ UNCHANGED <<others, tasks, approvals, active>>

-----------------------------------------------------------------------------
(* The cycle itself *)

\* The mission is paused, completed or blocked.
SetMissionStatus(t, ok) ==
  /\ th[t].pc = "status"
  /\ Statement(ok)
  /\ UpdateMission(ProcessOf[t], th[t].mission, ok)
  /\ ReturnAndRelease(t, th[t].state, TRUE)
  /\ UNCHANGED <<others, tasks, approvals>>

\* A risky action is recorded and waits for the CEO.
Hold(t, ok) ==
  /\ th[t].pc = "hold"
  /\ Statement(ok)
  /\ store' = AcquireCycle(ProcessOf[t], th[t].cycle, th[t].target, ok)
  /\ doubled' = doubled \cup Doubled'
  /\ Goto(t, "ask")
  /\ UNCHANGED <<mission, calls, tasks, approvals, active>>

AskApproval(t, ok) ==
  /\ th[t].pc = "ask"
  /\ Statement(ok)
  /\ UpdateCycle(ProcessOf[t], th[t].cycle,
                 [status |-> "WAITING_APPROVAL", stop |-> "WAITING_APPROVAL"], ok)
  /\ approvals' = Append(approvals, [process |-> ProcessOf[t], cycle |-> th[t].cycle,
                                     status |-> "PENDING"])
  /\ ReturnAndRelease(t, th[t].state, TRUE)
  /\ UNCHANGED <<others, tasks>>

\* createMission(): an upsert that also writes the caller's copy of the status.
CreateMission(t, ok) ==
  /\ th[t].pc = "create"
  /\ Statement(ok)
  /\ store' = [store EXCEPT ![Home(ProcessOf[t], ok, TRUE)].mission = th[t].mission]
  /\ Goto(t, "save")
  /\ UNCHANGED <<others, tasks, approvals, active>>

SaveBefore(t, ok) ==
  /\ th[t].pc = "save"
  /\ Statement(ok)
  /\ SaveCurrentState(ProcessOf[t], th[t].state, ok)
  /\ Goto(t, "acquire")
  /\ UNCHANGED <<others, tasks, approvals, active>>

\* Only a row that is RUNNING turns the caller away.
Acquire(t, ok) ==
  /\ th[t].pc = "acquire"
  /\ Statement(ok)
  /\ store' = AcquireCycle(ProcessOf[t], th[t].cycle, th[t].target, ok)
  /\ doubled' = doubled \cup Doubled'
  /\ IF store[Home(ProcessOf[t], ok, TRUE)].cycles[th[t].cycle].status = "RUNNING"
     THEN ReturnAndRelease(t, th[t].state, TRUE)
     ELSE Goto(t, "intake") /\ UNCHANGED active
  /\ UNCHANGED <<mission, calls, tasks, approvals>>

ProcessIntake(t) ==
  /\ th[t].pc = "intake"
  /\ tasks' = Append(tasks, [target |-> th[t].target, status |-> "QUEUED"])
  /\ th' = [th EXCEPT ![t].pc = "link", ![t].task = Len(tasks) + 1]
  /\ UNCHANGED <<others, store, approvals, active, faults>>

LinkTask(t, ok) ==
  /\ th[t].pc = "link"
  /\ Statement(ok)
  /\ UpdateCycle(ProcessOf[t], th[t].cycle, [task |-> th[t].task], ok)
  /\ Goto(t, "execute")
  /\ UNCHANGED <<others, tasks, approvals, active>>

\* A worker takes any queued task, not necessarily the one of this cycle.
WorkerFinishes(k, result) ==
  /\ k \in DOMAIN tasks /\ tasks[k].status = "QUEUED"
  /\ tasks' = [tasks EXCEPT ![k].status = result]

Execute(t, k, result) ==
  /\ th[t].pc = "execute"
  /\ WorkerFinishes(k, result)
  /\ Goto(t, "outcome")
  /\ UNCHANGED <<others, store, approvals, active, faults>>

NothingToExecute(t) ==
  /\ th[t].pc = "execute"
  /\ th' = [th EXCEPT ![t].pc = "saveAfter", ![t].outcome = "BLOCKED"]
  /\ UNCHANGED <<others, store, tasks, approvals, active, faults>>

IsVerified(status) == status = "verified"

\* Evidence-first validation of what the task's row says.
ReadOutcome(t) ==
  /\ th[t].pc = "outcome"
  /\ LET status == tasks[th[t].task].status
     IN  th' = [th EXCEPT ![t].pc = "saveAfter", ![t].outcome = status,
                          ![t].state = ApplyStateUpdate(@, th[t].target,
                                         IF IsVerified(status) THEN "VERIFIED" ELSE "PARTIAL")]
  /\ UNCHANGED <<others, store, tasks, approvals, active, faults>>

SaveAfter(t, ok) ==
  /\ th[t].pc = "saveAfter"
  /\ Statement(ok)
  /\ SaveCurrentState(ProcessOf[t], th[t].state, ok)
  /\ Goto(t, "finish")
  /\ UNCHANGED <<others, tasks, approvals, active>>

\* A stop reason that is undefined leaves the one in the row alone.
Finish(t, ok) ==
  LET o == th[t].outcome
      strict == o \in {"failed", "QUEUED"} /\ riskPolicy = "STRICT"
      status == CASE IsVerified(o) -> "COMPLETED" [] o = "BLOCKED" -> "BLOCKED" [] OTHER -> "FAILED"
      fields == IF o = "BLOCKED" THEN [status |-> status, stop |-> "ENVIRONMENT_BLOCKED"]
                ELSE IF strict THEN [status |-> status, stop |-> "UNRECOVERABLE_FAILURE"]
                ELSE [status |-> status]
  IN  /\ th[t].pc = "finish"
      /\ Statement(ok)
      /\ UpdateCycle(ProcessOf[t], th[t].cycle, fields, ok)
      /\ ReturnAndRelease(t, th[t].state, o = "BLOCKED" \/ strict)
      /\ UNCHANGED <<others, tasks, approvals>>

-----------------------------------------------------------------------------
(* The surroundings *)

\* A daemon worker finishes a queued task on its own.
DaemonRuns(k, result) ==
  /\ WorkerFinishes(k, result)
  /\ UNCHANGED <<others, store, approvals, th, active, faults>>

DecideApproval(i, decision) ==
  /\ i \in DOMAIN approvals /\ approvals[i].status = "PENDING"
  /\ approvals' = [approvals EXCEPT ![i].status = decision]
  /\ UNCHANGED <<others, store, tasks, th, active, faults>>

\* A process dies: its callers, keys, sovereign maps and approvals are gone.
Crash(p) ==
  /\ Fault
  /\ th' = [t \in Threads |-> IF ProcessOf[t] = p THEN Idle ELSE th[t]]
  /\ active' = [active EXCEPT ![p] = {}]
  /\ store' = [store EXCEPT ![p] = Empty]
  /\ approvals' = SelectSeq(approvals, LAMBDA a : a.process # p)
  /\ UNCHANGED <<mission, tasks, calls, doubled>>

Step(t) ==
  \/ Decide(t) \/ RecoverTask(t) \/ ProcessIntake(t) \/ NothingToExecute(t) \/ ReadOutcome(t)
  \/ \E k \in DOMAIN tasks, r \in TaskResults : Execute(t, k, r)
  \/ \E ok \in BOOLEAN :
       \/ Lookup(t, ok) \/ LatestState(t, ok)
       \/ RecoverSave(t, ok) \/ RecoverDone(t, ok) \/ RecoverFail(t, ok)
       \/ SetMissionStatus(t, ok) \/ Hold(t, ok) \/ AskApproval(t, ok)
       \/ CreateMission(t, ok) \/ SaveBefore(t, ok) \/ Acquire(t, ok) \/ LinkTask(t, ok)
       \/ SaveAfter(t, ok) \/ Finish(t, ok)

Next ==
  \/ \E t \in Threads : Step(t)
  \/ \E t \in Threads, first, last \in CycleNumbers, recovered, ok \in BOOLEAN :
       Call(t, first, last, recovered, ok)
  \/ \E k \in DOMAIN tasks, r \in TaskResults : DaemonRuns(k, r)
  \/ \E i \in DOMAIN approvals, d \in {"GRANTED", "REJECTED"} : DecideApproval(i, d)
  \/ \E p \in Processes : Crash(p)

Spec == Init /\ [][Next]_vars

-----------------------------------------------------------------------------
(* Properties *)

Initially(c) == c \in DOMAIN InitialStatus /\ InitialStatus[c] = "VERIFIED"
Evidenced(c) == Initially(c) \/ \E k \in DOMAIN tasks : tasks[k].target = c /\ tasks[k].status = "verified"

\* Whoever holds a copy of the system state - the database, the maps of a process or
\* a caller - a capability is VERIFIED there only if it was so before the mission or a
\* task made for that capability completed with evidence ("evidence-first validation"),
\* across crashes, recoveries, retried cycles and lost statements, as long as no cycle has
\* rows in two places: then the task of one row may be linked to the action of the other.
VerifiedHasEvidence ==
  doubled = {} =>
    /\ \A s \in DOMAIN store : \A c \in DOMAIN store[s].state :
         store[s].state[c] = "VERIFIED" => Evidenced(c)
    /\ \A t \in Threads : \A c \in DOMAIN th[t].state :
         th[t].state[c] = "VERIFIED" => Evidenced(c)

\* Under the same condition a mission is COMPLETED only when each target capability has
\* such evidence, and a mission that depends on an unverified capability outside its
\* targets, whose gaps nobody can close, is never recorded as completed.
CompletedMissionIsVerified ==
  doubled = {} =>
    \A s \in DOMAIN store :
      store[s].mission = "COMPLETED" => \A i \in DOMAIN targets : Evidenced(targets[i])

=============================================================================
