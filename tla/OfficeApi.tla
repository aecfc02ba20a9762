----------------------------- MODULE OfficeApi -----------------------------
(***************************************************************************)
(* The office behind the API worker.  Requests land on any isolate, and an *)
(* isolate keeps pipelines, approvals, review rounds, conversations and    *)
(* the event counter in its own memory, which an eviction empties.  Tasks  *)
(* and published events reach the shared database; clients follow the      *)
(* events of one project over a stream; a container runs the tasks.        *)
(***************************************************************************)
EXTENDS OfficeRules

CONSTANTS Isolates,
          Attached,       \* isolates whose chief of staff has a worker of its own
          Streams, Conversations, Projects,
          OwnProject,     \* the project of the principal and of the streams
          Pipelines,      \* step lists clients send
          Plans,          \* plan inputs clients send
          Messages,       \* messages, as sets of cues
          Workloads,      \* of pipelines, events, approvals, commands and tasks
          Results,        \* how workers end a task: of clean, broken, none and error
          PollLimit,      \* rows one poll of a stream returns (LIMIT 50)
          RateLimit,      \* MAX_REQUESTS_PER_MINUTE
          MaxRequests,    \* bound: requests of each workload
          MaxEvents,      \* bound: events of each workload
          MaxTasks, MaxFaults   \* bounds

ASSUME ProjectAssumption == OwnProject \in Projects
ASSUME PipelinesAssumption == Pipelines \subseteq Seq([deps : SUBSET Nat, chk : BOOLEAN])
ASSUME LimitAssumption == PollLimit \in Nat \ {0} /\ RateLimit \in Nat

VARIABLES workload,    \* what the clients of this behaviour send
          mem,         \* memory of the isolates
          log,         \* every event published, in order
          inflight,    \* events whose INSERT has not been answered
          table,       \* events in office_events
          stream,      \* the clients' streams
          overtaken,   \* events that reached the table behind a stream's cursor
          tasks, box,  \* rows of tasks; the worker container
          requests, faults

bus == <<log, inflight, table, stream, overtaken>>
work == <<tasks, box>>
vars == <<workload, mem, bus, work, requests, faults>>

NoSession == [events |-> {}, task |-> 0, pc |-> "idle"]
Fresh == [pipelines |-> <<>>, approvals |-> <<>>, iterations |-> [t \in 1..MaxTasks |-> 0], seq |-> 0,
          life |-> 0, pool |-> FALSE, hits |-> 0, sessions |-> [c \in Conversations |-> NoSession],
          conversationOf |-> <<>>]
Closed == [pc |-> "off", iso |-> "none", cursor |-> 0, lastId |-> 0, since |-> 0, got |-> {},
           rows |-> {}, view |-> {}, polling |-> FALSE]

TypeOK ==
  /\ workload \in Workloads
  /\ \A i \in Isolates : mem[i].seq \in 0..Len(log) /\ \A t \in 1..MaxTasks : mem[i].iterations[t] \in Nat
  /\ inflight \subseteq DOMAIN log /\ table \subseteq DOMAIN log /\ inflight \cap table = {}
  /\ \A s \in Streams : stream[s].got \subseteq DOMAIN log /\ stream[s].pc \in {"off", "replay", "on"}
  /\ \A s \in Streams : stream[s].pc = "on" => stream[s].iso \in Isolates
  /\ \A t \in DOMAIN tasks : tasks[t].status \in {"QUEUED", "RUNNING", "COMPLETED", "FAILED", "CANCELLED"}
  /\ box \in [up : BOOLEAN, renew : BOOLEAN, alarm : BOOLEAN, trigger : BOOLEAN, broken : BOOLEAN]
  /\ requests \in 0..MaxRequests[workload] /\ faults \in 0..MaxFaults

Init ==
  /\ workload \in Workloads
  /\ mem = [i \in Isolates |-> Fresh]
  /\ log = <<>> /\ inflight = {} /\ table = {} /\ overtaken = [s \in Streams |-> {}]
  /\ stream = [s \in Streams |-> Closed]
  /\ tasks = <<>> /\ box = [up |-> FALSE, renew |-> FALSE, alarm |-> FALSE, trigger |-> FALSE, broken |-> FALSE]
  /\ requests = 0 /\ faults = 0

\* A client sends a request of the given workload.
Request(kinds) == workload \in kinds /\ requests < MaxRequests[workload] /\ requests' = requests + 1

Fault == faults < MaxFaults /\ faults' = faults + 1

-----------------------------------------------------------------------------
(* The event bus *)

SeqsOf(K) == {log[k].seq : k \in K}
MaxOf(n, S) == CHOOSE m \in S \cup {n} : \A x \in S \cup {n} : m >= x

\* Events a listener is called with: its isolate's, of its project.
Notified(s, i, project, new) ==
  IF stream[s].pc = "on" /\ stream[s].iso = i /\ project = OwnProject THEN new ELSE {}

\* Publish the events one after the other: each gets the isolate's next number,
\* its INSERT starts if a pool is set, and listeners are called on the spot.
Publish(i, kinds, project, ref, pool) ==
  LET new == {Len(log) + k : k \in DOMAIN kinds}
      last == mem[i].seq + Len(kinds)
      cursor == [s \in Streams |-> IF Notified(s, i, project, new) = {} THEN stream[s].cursor
                                   ELSE MaxOf(stream[s].cursor, {last})]
  IN  /\ Len(log) + Len(kinds) <= MaxEvents[workload]
      /\ log' = log \o [k \in DOMAIN kinds |->
                          [seq |-> mem[i].seq + k, from |-> <<i, mem[i].life>>, project |-> project,
                           kind |-> kinds[k], ref |-> ref]]
      /\ inflight' = IF pool THEN inflight \cup new ELSE inflight
      /\ stream' = [s \in Streams |->
                      IF Notified(s, i, project, new) = {} THEN stream[s]
                      ELSE [stream[s] EXCEPT !.got = @ \cup Notified(s, i, project, new),
                                             !.cursor = cursor[s], !.lastId = last]]
      /\ overtaken' = [s \in Streams |->
                         overtaken[s] \cup {k \in table : cursor[s] # stream[s].cursor /\ log[k].seq <= cursor[s]}]
      /\ UNCHANGED table

\* The INSERT of an event succeeds; it may come late.  Only streams read the table.
PersistEvent(k) ==
  /\ workload = "events" /\ k \in inflight /\ inflight' = inflight \ {k} /\ table' = table \cup {k}
  /\ overtaken' = [s \in Streams |->
                     IF log[k].seq <= stream[s].cursor THEN overtaken[s] \cup {k} ELSE overtaken[s]]
  /\ UNCHANGED <<workload, mem, log, stream, work, requests, faults>>

\* The INSERT fails: the error is swallowed.
LoseEvent(k) ==
  /\ workload = "events" /\ k \in inflight /\ inflight' = inflight \ {k} /\ Fault
  /\ UNCHANGED <<workload, mem, log, table, stream, overtaken, work, requests>>

-----------------------------------------------------------------------------
(* Streams *)

\* Mutant: the newest rows first.
Missed_Newest(cursor, limit) ==
  LET due == {k \in table : log[k].project = OwnProject /\ log[k].seq > cursor}
  IN  {k \in due : Cardinality({j \in due : log[j].seq > log[k].seq \/ (log[j].seq = log[k].seq /\ j < k)}) < limit}

\* SELECT ... WHERE sequence > cursor ORDER BY sequence LIMIT n.
Missed(cursor, limit) ==
  LET due == {k \in table : log[k].project = OwnProject /\ log[k].seq > cursor}
  IN  {k \in due : Cardinality({j \in due : log[j].seq < log[k].seq \/ (log[j].seq = log[k].seq /\ j < k)}) < limit}

\* Rows of a SELECT are written to the stream: the cursor moves over them.
Deliver(s, st) ==
  LET cursor == MaxOf(st.cursor, SeqsOf(st.rows))
  IN  /\ stream' = [stream EXCEPT ![s] =
                      [st EXCEPT !.got = @ \cup st.rows, !.rows = {}, !.view = {}, !.polling = FALSE,
                                 !.cursor = cursor,
                                 !.lastId = IF st.rows = {} THEN @ ELSE MaxOf(0, SeqsOf(st.rows))]]
      /\ overtaken' = [overtaken EXCEPT ![s] = @ \cup {k \in table \ st.view : log[k].seq <= cursor}]

\* GET /office/stream: a client that has seen an event asks for what it missed.
Connect(s, i) ==
  /\ workload = "events" /\ stream[s].pc = "off"
  /\ mem' = [mem EXCEPT ![i].pool = TRUE]
  /\ stream' = [stream EXCEPT ![s].pc = IF stream[s].lastId > 0 THEN "replay" ELSE "on", ![s].iso = i,
                              ![s].since = Len(log), ![s].cursor = stream[s].lastId, ![s].view = table,
                              ![s].rows = IF stream[s].lastId > 0 THEN Missed(stream[s].lastId, 2 * PollLimit) ELSE {}]
  /\ UNCHANGED <<workload, log, inflight, table, overtaken, work, requests, faults>>

\* The missed rows arrive; only then does the stream subscribe.
Replay(s) ==
  /\ stream[s].pc = "replay"
  /\ Deliver(s, [stream[s] EXCEPT !.pc = "on", !.since = Len(log)])
  /\ UNCHANGED <<workload, mem, log, inflight, table, work, requests, faults>>

PollStart(s) ==
  /\ stream[s].pc = "on" /\ ~stream[s].polling
  /\ Missed(stream[s].cursor, PollLimit) # {}
  /\ stream' = [stream EXCEPT ![s].polling = TRUE, ![s].view = table,
                              ![s].rows = Missed(stream[s].cursor, PollLimit)]
  /\ UNCHANGED <<workload, mem, log, inflight, table, overtaken, work, requests, faults>>

PollEnd(s) ==
  /\ stream[s].pc = "on" /\ stream[s].polling
  /\ Deliver(s, stream[s])
  /\ UNCHANGED <<workload, mem, log, inflight, table, work, requests, faults>>

\* A stream broken from either side.
Broken(st) == [st EXCEPT !.pc = "off", !.cursor = st.lastId, !.rows = {}, !.view = {}, !.polling = FALSE]

Disconnect(s) ==
  /\ stream[s].pc # "off" /\ Fault
  /\ stream' = [stream EXCEPT ![s] = Broken(@)]
  /\ UNCHANGED <<workload, mem, log, inflight, table, overtaken, work, requests>>

\* The platform drops an isolate: its memory and its listeners are gone.
Evict(i) ==
  /\ mem[i] # [Fresh EXCEPT !.life = mem[i].life] /\ Fault
  /\ mem' = [mem EXCEPT ![i] = [Fresh EXCEPT !.life = mem[i].life + 1]]
  /\ stream' = [s \in Streams |-> IF stream[s].iso = i /\ stream[s].pc # "off" THEN Broken(stream[s]) ELSE stream[s]]
  /\ inflight' = {k \in inflight : log[k].from[1] # i}
  /\ UNCHANGED <<workload, log, table, overtaken, work, requests>>

-----------------------------------------------------------------------------
(* Pipelines: every operation is one synchronous call. *)

PostPipeline(i, given) ==
  /\ Request({"pipelines"}) /\ given # <<>>
  /\ ValidateDAG([k \in DOMAIN given |-> given[k].deps])
  /\ mem' = [mem EXCEPT ![i].pipelines = Append(@, CreatePipeline(given))]
  /\ UNCHANGED <<workload, bus, work, faults>>

PostTick(i, n) ==
  /\ Request({"pipelines"})
  /\ mem' = [mem EXCEPT ![i].pipelines[n] = TickPipeline(@)]
  /\ UNCHANGED <<workload, bus, work, faults>>

\* Any authenticated principal decides; no earlier decision is looked at.
PostCheckpointDecision(i, n, k, decision) ==
  /\ Request({"pipelines"}) /\ mem[i].pipelines[n].steps[k].chk # "NONE"
  /\ mem' = [mem EXCEPT ![i].pipelines[n] = DecideCheckpoint(@, k, decision)]
  /\ UNCHANGED <<workload, bus, work, faults>>

\* Reported by whoever executed the step.
StepCompleted(i, n, k) ==
  /\ Request({"pipelines"})
  /\ mem' = [mem EXCEPT ![i].pipelines[n] = CompleteStep(@, k)]
  /\ UNCHANGED <<workload, bus, work, faults>>

-----------------------------------------------------------------------------
(* Approvals, reviews and plans: they publish events. *)

RequestApproval(i, project) ==
  /\ Request({"approvals", "events"})
  /\ mem' = [mem EXCEPT ![i].approvals = Append(@, [id |-> Len(log) + 1, project |-> project, status |-> "PENDING"]),
                        ![i].seq = @ + 1, ![i].pool = TRUE]
  /\ Publish(i, <<"APPROVAL_REQUESTED">>, project, Len(log) + 1, TRUE)
  /\ UNCHANGED <<workload, work, faults>>

\* Only the CEO, only in the principal's project, only once.
MayDecide(role, item) == role = "CEO" /\ item.project = OwnProject /\ item.status = "PENDING"

DecideApproval(i, n, role, decision) ==
  LET item == mem[i].approvals[n]
  IN  /\ Request({"approvals"}) /\ MayDecide(role, item)
      /\ mem' = [mem EXCEPT ![i].approvals[n].status = IF decision = "GRANT" THEN "GRANTED" ELSE "REJECTED",
                            ![i].seq = @ + 1, ![i].pool = TRUE]
      /\ Publish(i, <<IF decision = "GRANT" THEN "APPROVAL_GRANTED" ELSE "APPROVAL_REJECTED">>,
                 item.project, item.id, TRUE)
      /\ UNCHANGED <<workload, work, faults>>

PostReview(i, t, evidence) ==
  LET n == mem[i].iterations[t] + 1
  IN  /\ Request({"approvals"})
      /\ mem' = [mem EXCEPT ![i].iterations[t] = n, ![i].seq = @ + Len(ReviewEvents(n, evidence)), ![i].pool = TRUE]
      /\ Publish(i, ReviewEvents(n, evidence), OwnProject, t, TRUE)
      /\ UNCHANGED <<workload, work, faults>>

\* The route sets no pool: without an earlier request its events stay in memory.
PostPlan(i, project) ==
  /\ Request({"events"})
  /\ mem' = [mem EXCEPT ![i].seq = @ + 4]
  /\ Publish(i, <<"OBJECTIVE_SUBMITTED", "MEETING_STARTED", "PLAN_FORMULATED", "MEETING_ENDED">>, project,
             0, mem[i].pool)
  /\ UNCHANGED <<workload, work, faults>>

NewTask(priority) == [status |-> "QUEUED", held |-> FALSE, fresh |-> TRUE, priority |-> priority, result |-> "none",
                      agent |-> "developer"]

\* The plan comes back from the client: neither its status nor its order is checked.
ExecuteStep(i, given, k) ==
  LET plan == CreateOrganizationalPlan(given)
      agent == plan.agents[k]
      handoff == \E d \in plan.deps[k] : \A e \in plan.deps[k] : d <= e /\ plan.agents[d] \notin {"none", agent}
      kinds == <<"STEP_DELEGATED", "AGENT_STARTED_WORK">> \o (IF handoff THEN <<"AGENT_HANDOFF">> ELSE <<>>)
  IN  /\ Request({"events"}) /\ Len(tasks) < MaxTasks
      /\ tasks' = Append(tasks, NewTask(1)) /\ box' = [box EXCEPT !.trigger = TRUE]
      /\ IF agent = "none" THEN UNCHANGED <<bus, mem>>
         ELSE /\ mem' = [mem EXCEPT ![i].seq = @ + Len(kinds)]
              /\ Publish(i, kinds, OwnProject, k, mem[i].pool)
      /\ UNCHANGED <<workload, faults>>

-----------------------------------------------------------------------------
(* Tasks and the CEO's commands *)

CheckRateLimit(i) == mem[i].hits < RateLimit

\* POST /tasks: a request counts against its sender before anything is looked at.
\* The approval an intent needs is computed and logged; the task is queued anyway.
PostTask(i, m, valid) ==
  /\ Request({"tasks", "commands"}) /\ CheckRateLimit(i) /\ Len(tasks) < MaxTasks
  /\ mem' = [mem EXCEPT ![i].hits = @ + 1]
  /\ IF valid THEN /\ tasks' = Append(tasks, NewTask(EngineeringTask(m).priority))
                   /\ box' = [box EXCEPT !.trigger = TRUE]
     ELSE UNCHANGED work
  /\ UNCHANGED <<workload, bus, faults>>

WindowPasses(i) ==
  /\ mem[i].hits > 0 /\ mem' = [mem EXCEPT ![i].hits = 0]
  /\ UNCHANGED <<workload, bus, work, requests, faults>>

\* POST /tasks/:id/retry and /cancel update the row whatever its status.
PostRetry(t) ==
  /\ Request({"tasks"})
  /\ tasks' = [tasks EXCEPT ![t].status = "QUEUED", ![t].fresh = TRUE] /\ box' = [box EXCEPT !.trigger = TRUE]
  /\ UNCHANGED <<workload, mem, bus, faults>>

PostCancel(t) ==
  /\ Request({"tasks"}) /\ tasks' = [tasks EXCEPT ![t].status = "CANCELLED", ![t].fresh = TRUE]
  /\ UNCHANGED <<workload, mem, bus, box, faults>>

Told(type, t, by) == [type |-> type, task |-> t, by |-> by]

Received(session) == [session EXCEPT !.events = @ \cup {Told("RECEIVED", 0, "chief")}]

\* An unclear message is asked about; no task comes of it.
Clarified(session) == [Received(session) EXCEPT !.events = @ \cup {Told("CLARIFICATION_REQUESTED", 0, "chief")}]

\* A question is answered on the spot.
Answered(session) == [Received(session) EXCEPT !.events = @ \cup {Told("COMPLETED", 0, "chief")}]

\* The task a directive becomes, through the intake or straight into the repository.
CommandTask(m) == [NewTask(1) EXCEPT !.agent = SelectSpecialistForTask(m)]

\* The reality gate: a directive is queued, and executed only by a worker at hand.
Queued(session, t, executes) ==
  [Received(session) EXCEPT !.events = @ \cup {Told("QUEUED", t, "chief")}, !.task = t,
                            !.pc = IF executes THEN "execute" ELSE "idle"]

\* POST /office/ceo/command: clarify, answer, or queue.  The intake may fail.
Command(i, c, m, sync, ok) ==
  LET t == Len(tasks) + 1
      acts == ~IsAmbiguousCommand(m) /\ ~IsStatusInquiry(m)
      after(session) == CASE IsAmbiguousCommand(m) -> Clarified(session)
                          [] ~IsAmbiguousCommand(m) /\ IsStatusInquiry(m) -> Answered(session)
                          [] acts /\ ok -> Queued(session, t, sync /\ i \in Attached)
                          [] OTHER -> Received(session)
  IN  /\ Request({"commands"}) /\ mem[i].sessions[c].pc = "idle" /\ (acts => t <= MaxTasks)
      /\ mem' = [mem EXCEPT ![i].sessions[c] = after(@),
                            ![i].conversationOf = IF acts /\ ok THEN Append(@, <<t, c>>) ELSE @]
      /\ tasks' = IF acts /\ ok THEN Append(tasks, CommandTask(m)) ELSE tasks
      /\ IF ok THEN UNCHANGED faults ELSE Fault
      /\ UNCHANGED <<workload, bus, box>>

Queueing == {t \in DOMAIN tasks : tasks[t].status = "QUEUED"}
Stale == {t \in DOMAIN tasks : tasks[t].status = "RUNNING" /\ ~tasks[t].fresh}

\* A claim takes the highest priority, then the oldest, of the queued and the stale rows.
ClaimNext(t) ==
  LET ready == Queueing \cup Stale
  IN  t \in ready /\ \A u \in ready : \/ tasks[t].priority > tasks[u].priority
                                      \/ tasks[t].priority = tasks[u].priority /\ t <= u

\* How a worker leaves a row: with passing tests, failing tests, nothing, or an error.
Ended(row, result) == [row EXCEPT !.status = IF result = "error" THEN "FAILED" ELSE "COMPLETED",
                                  !.held = FALSE, !.fresh = TRUE, !.result = result]

FindByTaskId(i, t) ==
  {mem[i].conversationOf[k][2] : k \in {k \in DOMAIN mem[i].conversationOf : mem[i].conversationOf[k][1] = t}}

RecordTaskCompletion(session, t) == [session EXCEPT !.events = @ \cup {Told("COMPLETED", t, "worker")}]

RecordTaskFailure(session, t) == [session EXCEPT !.events = @ \cup {Told("FAILED", t, "worker")}]

\* A worker tells the conversation of its own process about a task, if there is one.
Recorded(i, t, result) ==
  [c \in Conversations |->
     CASE c \notin FindByTaskId(i, t) -> mem[i].sessions[c]
       [] c \in FindByTaskId(i, t) /\ result = "error" -> RecordTaskFailure(mem[i].sessions[c], t)
       [] OTHER -> RecordTaskCompletion(mem[i].sessions[c], t)]

\* Synchronous execution: the attached worker runs the next task, whosever it is.
SyncExecute(i, c, t, result) ==
  /\ mem[i].sessions[c].pc = "execute" /\ ClaimNext(t)
  /\ tasks' = [tasks EXCEPT ![t] = Ended(@, result)]
  /\ mem' = [mem EXCEPT ![i].sessions = [Recorded(i, t, result) EXCEPT ![c].pc = "report"]]
  /\ UNCHANGED <<workload, bus, box, requests, faults>>

NothingToExecute(i, c) ==
  /\ mem[i].sessions[c].pc = "execute" /\ Queueing \cup Stale = {}
  /\ mem' = [mem EXCEPT ![i].sessions[c].pc = "report"]
  /\ UNCHANGED <<workload, bus, work, requests, faults>>

\* The row of the command's own task.
Reported(i, c) == tasks[mem[i].sessions[c].task]

\* What the conversation is told after a synchronous execution: a completed task is
\* reviewed from its own evidence first.
ReportCompleted(t) == {Told("COMPLETED", t, "chief")}

ReportBlocked(t) == {Told("FAILED", t, "chief")}

ReportFailed(t) == {Told("FAILED", t, "chief")}

SyncReview(i, c) ==
  LET t == mem[i].sessions[c].task
      evidence == ExtractReviewContextFromTask(Reported(i, c).result)
      n == mem[i].iterations[t] + 1
      told == IF EvaluateReview(n, evidence) = "APPROVED" THEN ReportCompleted(t) ELSE ReportBlocked(t)
  IN  /\ mem[i].sessions[c].pc = "report" /\ Reported(i, c).status = "COMPLETED"
      /\ mem' = [mem EXCEPT ![i].sessions[c].pc = "idle", ![i].seq = @ + Len(ReviewEvents(n, evidence)),
                            ![i].iterations[t] = n, ![i].sessions[c].events = @ \cup told]
      /\ Publish(i, ReviewEvents(n, evidence), OwnProject, t, mem[i].pool)
      /\ UNCHANGED <<workload, work, requests, faults>>

SyncFail(i, c) ==
  /\ mem[i].sessions[c].pc = "report" /\ Reported(i, c).status # "COMPLETED"
  /\ mem' = [mem EXCEPT ![i].sessions[c].pc = "idle",
                        ![i].sessions[c].events = @ \cup ReportFailed(mem[i].sessions[c].task)]
  /\ UNCHANGED <<workload, bus, work, requests, faults>>

-----------------------------------------------------------------------------
(* The worker container *)

Active == {t \in DOMAIN tasks : tasks[t].status \in {"QUEUED", "RUNNING"}}

\* triggerContainerWorker: a container that is up is left alone, one that is
\* down starts, with activity renewal and an alarm; an error is swallowed.
TriggerContainer(ok) ==
  /\ workload = "tasks" /\ box.trigger
  /\ IF ok THEN UNCHANGED faults ELSE Fault
  /\ box' = IF ok /\ ~box.up THEN [up |-> TRUE, renew |-> TRUE, alarm |-> TRUE, trigger |-> FALSE, broken |-> FALSE]
            ELSE [box EXCEPT !.trigger = FALSE]
  /\ UNCHANGED <<workload, mem, bus, tasks, requests>>

WorkerTakes(t) ==
  /\ workload = "tasks" /\ box.up /\ ClaimNext(t) /\ \A u \in DOMAIN tasks : ~tasks[u].held
  /\ tasks' = [tasks EXCEPT ![t].status = "RUNNING", ![t].held = TRUE, ![t].fresh = TRUE]
  /\ UNCHANGED <<workload, mem, bus, box, requests, faults>>

\* The container's process has no conversation to tell.
WorkerEnds(t, result) ==
  /\ tasks[t].held /\ tasks' = [tasks EXCEPT ![t] = Ended(@, result)]
  /\ UNCHANGED <<workload, mem, bus, box, requests, faults>>

Down == /\ box' = [box EXCEPT !.up = FALSE, !.renew = FALSE]
        /\ tasks' = [t \in DOMAIN tasks |-> [tasks[t] EXCEPT !.held = FALSE]]

\* Every twenty seconds: nothing to do ends the renewal for good.
RenewActivity ==
  /\ box.renew /\ Active = {} /\ box' = [box EXCEPT !.renew = FALSE]
  /\ UNCHANGED <<workload, mem, bus, tasks, requests, faults>>

\* sleepAfter passes: only renewal keeps the container up.
OnActivityExpired ==
  /\ box.up /\ ~box.renew /\ Down
  /\ UNCHANGED <<workload, mem, bus, requests, faults>>

ContainerCrash ==
  /\ box.up /\ Fault /\ Down
  /\ UNCHANGED <<workload, mem, bus, requests>>

LeaseExpires(t) ==
  /\ tasks[t].status = "RUNNING" /\ ~tasks[t].held /\ tasks[t].fresh
  /\ tasks' = [tasks EXCEPT ![t].fresh = FALSE]
  /\ UNCHANGED <<workload, mem, bus, box, requests, faults>>

\* Mutant: the chain goes on only while something is queued.
AlarmAgain_Queued == Queueing # {}

\* The next alarm is set while any task is active.
AlarmAgain == Active # {}

\* The durable alarm: stale tasks go back to the queue.  A database error is
\* swallowed, and sets no further alarm.
Alarm(ok) ==
  /\ box.alarm
  /\ IF ok THEN UNCHANGED faults ELSE Fault
  /\ tasks' = IF ok THEN [t \in DOMAIN tasks |-> IF t \in Stale THEN [tasks[t] EXCEPT !.status = "QUEUED", !.fresh = TRUE] ELSE tasks[t]]
              ELSE tasks
  /\ box' = [box EXCEPT !.alarm = ok /\ AlarmAgain, !.broken = ~ok,
                        !.trigger = @ \/ (ok /\ (Queueing # {} \/ Stale # {}))]
  /\ UNCHANGED <<workload, mem, bus, requests>>

Next ==
  \/ \E k \in DOMAIN log : PersistEvent(k) \/ LoseEvent(k)
  \/ \E s \in Streams : (\E i \in Isolates : Connect(s, i)) \/ Replay(s) \/ PollStart(s) \/ PollEnd(s) \/ Disconnect(s)
  \/ \E i \in Isolates :
       \/ Evict(i) \/ WindowPasses(i)
       \/ \E given \in Pipelines : PostPipeline(i, given)
       \/ \E n \in DOMAIN mem[i].pipelines :
            \/ PostTick(i, n)
            \/ \E k \in DOMAIN mem[i].pipelines[n].steps :
                 \/ StepCompleted(i, n, k)
                 \/ \E d \in {"GRANT", "REJECT"} : PostCheckpointDecision(i, n, k, d)
       \/ \E project \in Projects : RequestApproval(i, project)
       \/ PostPlan(i, OwnProject)
       \/ \E n \in DOMAIN mem[i].approvals, role \in {"CEO", "DEVELOPER"}, d \in {"GRANT", "REJECT"} :
            DecideApproval(i, n, role, d)
       \/ \E t \in 1..MaxTasks, evidence \in {"passed", "failed", "unknown"} : PostReview(i, t, evidence)
       \/ \E given \in Plans : \E k \in DOMAIN CreateOrganizationalPlan(given).deps : ExecuteStep(i, given, k)
       \/ \E m \in Messages, valid \in BOOLEAN : PostTask(i, m, valid)
       \/ \E c \in Conversations :
            \/ \E m \in Messages, sync \in BOOLEAN, ok \in BOOLEAN : Command(i, c, m, sync, ok)
            \/ NothingToExecute(i, c) \/ SyncReview(i, c) \/ SyncFail(i, c)
            \/ \E t \in DOMAIN tasks, result \in Results : SyncExecute(i, c, t, result)
  \/ \E t \in DOMAIN tasks : \/ PostRetry(t) \/ PostCancel(t) \/ WorkerTakes(t) \/ LeaseExpires(t)
                             \/ \E result \in Results : WorkerEnds(t, result)
  \/ \E ok \in BOOLEAN : TriggerContainer(ok) \/ Alarm(ok)
  \/ RenewActivity \/ OnActivityExpired \/ ContainerCrash

\* The platform delivers a durable alarm, and leases run out.
Fairness == WF_vars(Alarm(TRUE)) /\ \A t \in 1..MaxTasks : WF_vars(t \in DOMAIN tasks /\ LeaseExpires(t))

Spec == Init /\ [][Next]_vars /\ Fairness

-----------------------------------------------------------------------------
(* Properties *)

\* Replay and polling skip no row that was in the table when they read it, except
\* one with the same number as a row they delivered: two isolates count on their
\* own (ORDER BY sequence LIMIT n of /office/stream).
NoSilentGap ==
  \A s \in Streams : \A k \in table :
    (log[k].project = OwnProject /\ log[k].seq <= stream[s].cursor /\ k \notin stream[s].got) =>
      k \in overtaken[s] \/ \E j \in stream[s].got : j # k /\ log[j].seq = log[k].seq

\* Work a dead container left behind goes back to the queue or to a new container,
\* unless the database fails an alarm: the chain of alarms does not end while a task
\* is active (alarm() of PubDevLoopWorkerContainer).
AlarmRecoversWork ==
  \A t \in 1..MaxTasks :
    (box.alarm /\ t \in DOMAIN tasks /\ tasks[t].status = "RUNNING" /\ ~tasks[t].held)
      ~> (t \in DOMAIN tasks => tasks[t].status # "RUNNING" \/ tasks[t].held \/ box.broken)
=============================================================================
