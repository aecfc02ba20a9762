----------------------------- MODULE PdlServer -----------------------------
(***************************************************************************)
(* The PDL API, a server of its own: one process, no pool on its event bus. *)
(* It keeps pipelines, approvals, review rounds and the last events in      *)
(* memory, replays missed events to browsers from that memory, and takes    *)
(* tasks in: the steps of plans and the promotions of prototypes.  A        *)
(* request waits for the database between its steps; a restart drops it.    *)
(***************************************************************************)
EXTENDS OfficeApi

CONSTANTS Clients,        \* browsers that follow the server's stream
          Promotions,     \* promotions handed off: id, session, branch, authorized
          MaxHistory,     \* events the bus remembers (maxHistorySize: 250)
          MaxTrail        \* bound: events the server publishes

ASSUME HistoryAssumption == MaxHistory \in Nat \ {0}

VARIABLES server,    \* memory of the process
          trail,     \* every event the server published, in order
          client,    \* the browsers
          calls,     \* requests that wait for the database
          lineage    \* what each task's row says of its promotion

serverVars == <<server, trail, client, calls, lineage>>

Listen(life) == [life |-> life, seq |-> 0, history |-> <<>>, pipelines |-> <<>>, approvals |-> <<>>,
                 iterations |-> [t \in 1..MaxTasks |-> 0]]
Unmarked == [promo |-> "none", session |-> "none", branch |-> "none"]

ServerTypeOK ==
  /\ server.seq \in 0..Len(trail) /\ Len(server.history) <= MaxHistory /\ Len(trail) <= MaxTrail
  /\ \A c \in Clients : client[c].pc \in {"off", "on"} /\ client[c].base \in 0..Len(client[c].got)
  /\ \A n \in DOMAIN calls :
       calls[n].pc \in {"list", "create", "announce", "mark", "announced", "marked", "unmarked", "known", "failed", "lost"}
  /\ workload = "intakes" => DOMAIN lineage = DOMAIN tasks

ServerInit ==
  /\ Init /\ server = Listen(0) /\ trail = <<>> /\ calls = <<>> /\ lineage = <<>>
  /\ client = [c \in Clients |-> [pc |-> "off", got |-> <<>>, base |-> 0, start |-> 0, horizon |-> 0]]

-----------------------------------------------------------------------------
(* The event bus *)

\* push, then shift while the buffer is too long.
Remember(history, events) ==
  LET all == history \o events
  IN  IF Len(all) <= MaxHistory THEN all ELSE SubSeq(all, Len(all) - MaxHistory + 1, Len(all))

\* A filter by project lets an event without a project through.
MatchesFilter(project) == project \in {OwnProject, "none"}

Hears(cl, events) ==
  [cl EXCEPT !.got = @ \o [k \in DOMAIN events |-> <<events[k].life, events[k].seq>>]]

\* The events of one request, all of one project, reach every open stream on the spot.
Announce(memory, kinds, project, ref) ==
  LET new == [k \in DOMAIN kinds |-> [life |-> server.life, seq |-> server.seq + k, project |-> project,
                                      kind |-> kinds[k], ref |-> ref]]
  IN  /\ Len(trail) + Len(kinds) <= MaxTrail
      /\ trail' = trail \o new
      /\ server' = [memory EXCEPT !.seq = @ + Len(kinds), !.history = Remember(@, new)]
      /\ client' = [c \in Clients |-> IF client[c].pc = "on" /\ MatchesFilter(project) THEN Hears(client[c], new)
                                      ELSE client[c]]

\* A set of positions, the smallest first.
InOrder(positions) == CHOOSE s \in SetToSeqs(positions) : \A j, k \in DOMAIN s : j < k => s[j] < s[k]

\* The history, filtered twice.
GetEventsSince(last) ==
  LET due == InOrder({k \in DOMAIN server.history :
                        server.history[k].seq > last /\ MatchesFilter(server.history[k].project)})
  IN  [k \in DOMAIN due |-> server.history[due[k]]]

LastEventId(cl) == IF cl.got = <<>> THEN 0 ELSE Last(cl.got)[2]

\* Has the client heard of this life of the server?
Follows(cl) == cl.got # <<>> /\ Last(cl.got)[1] = server.life

\* GET /office/stream: the replay and the subscription are one turn.  Without an
\* event seen before, nothing is replayed.
OpenStream(c) ==
  LET cl == client[c]
      missed == IF LastEventId(cl) > 0 THEN GetEventsSince(LastEventId(cl)) ELSE <<>>
  IN  /\ workload = "browsers" /\ cl.pc = "off"
      /\ client' = [client EXCEPT ![c] =
                      [Hears(cl, missed) EXCEPT
                         !.pc = "on", !.base = Len(cl.got),
                         !.start = IF Follows(cl) THEN @ ELSE server.seq,
                         !.horizon = IF Follows(cl) THEN MaxOf(@, {server.seq - MaxHistory}) ELSE 0]]
      /\ UNCHANGED <<vars, server, trail, calls, lineage>>

Cut(cl, kept) == [cl EXCEPT !.pc = "off", !.got = SubSeq(@, 1, kept)]

\* The connection breaks: the last of what the server wrote never arrived.
CloseStream(c, kept) ==
  /\ client[c].pc = "on" /\ kept \in client[c].base..Len(client[c].got) /\ Fault
  /\ client' = [client EXCEPT ![c] = Cut(@, kept)]
  /\ UNCHANGED <<workload, mem, bus, work, requests, server, trail, calls, lineage>>

\* The process stops and a new one listens: memory, streams and requests are gone.
Restart ==
  /\ workload \in {"browsers", "intakes"} /\ Fault
  /\ server' = Listen(server.life + 1)
  /\ client' = [c \in Clients |-> Cut(client[c], Len(client[c].got))]
  /\ calls' = [n \in DOMAIN calls |->
                 IF calls[n].pc \in {"list", "create", "announce", "mark"} THEN [calls[n] EXCEPT !.pc = "lost"] ELSE calls[n]]
  /\ UNCHANGED <<workload, mem, bus, work, requests, trail, lineage>>

-----------------------------------------------------------------------------
(* Requests answered in one turn *)

\* POST /office/plans
ServerPlan(project) ==
  /\ Request({"browsers"})
  /\ Announce(server, <<"OBJECTIVE_SUBMITTED", "MEETING_STARTED", "PLAN_FORMULATED", "MEETING_ENDED">>, project, 0)
  /\ UNCHANGED <<workload, mem, bus, work, faults, calls, lineage>>

\* POST /office/reviews/evaluate
ServerReview(t, evidence, project) ==
  LET n == server.iterations[t] + 1
  IN  /\ Request({"browsers"})
      /\ Announce([server EXCEPT !.iterations[t] = n], ReviewEvents(n, evidence), project, t)
      /\ UNCHANGED <<workload, mem, bus, work, faults, calls, lineage>>

\* POST /office/approvals/request
ServerRequestApproval(project) ==
  /\ Request({"browsers"})
  /\ Announce([server EXCEPT !.approvals = Append(@, [id |-> Len(trail) + 1, project |-> project, status |-> "PENDING"])],
              <<"APPROVAL_REQUESTED">>, project, Len(trail) + 1)
  /\ UNCHANGED <<workload, mem, bus, work, faults, calls, lineage>>

\* POST /office/approvals/:id/decide
ServerDecideApproval(n, role, decision) ==
  LET item == server.approvals[n]
      granted == decision = "GRANT"
  IN  /\ Request({"browsers"}) /\ MayDecide(role, item)
      /\ Announce([server EXCEPT !.approvals[n].status = IF granted THEN "GRANTED" ELSE "REJECTED"],
                  <<IF granted THEN "APPROVAL_GRANTED" ELSE "APPROVAL_REJECTED">>, item.project, item.id)
      /\ UNCHANGED <<workload, mem, bus, work, faults, calls, lineage>>

PipelineStep(kept) ==
  /\ Request({"boards"}) /\ server' = [server EXCEPT !.pipelines = kept]
  /\ UNCHANGED <<workload, mem, bus, work, faults, trail, client, calls, lineage>>

\* POST /office/pipelines/create
ServerPostPipeline(given) ==
  /\ given # <<>> /\ ValidateDAG([k \in DOMAIN given |-> given[k].deps])
  /\ PipelineStep(Append(server.pipelines, CreatePipeline(given)))

\* POST /office/pipelines/:id/tick
ServerPostTick(n) == PipelineStep([server.pipelines EXCEPT ![n] = TickPipeline(@)])

\* POST /office/pipelines/:id/checkpoints/:stepId/decide
ServerDecideCheckpoint(n, k, decision) ==
  /\ server.pipelines[n].steps[k].chk # "NONE"
  /\ PipelineStep([server.pipelines EXCEPT ![n] = DecideCheckpoint(@, k, decision)])

-----------------------------------------------------------------------------
(* Requests that take a task in *)

Waiting(call) ==
  /\ Request({"intakes"}) /\ calls' = Append(calls, call)
  /\ UNCHANGED <<workload, mem, bus, work, faults, server, trail, client, lineage>>

Goes(n, pc) == calls' = [calls EXCEPT ![n].pc = pc]

\* POST /office/plans/execute-step: the intake first.
PostExecuteStep(given, k) ==
  Waiting([kind |-> "step", plan |-> CreateOrganizationalPlan(given), step |-> k, pc |-> "create", task |-> 0])

\* Mutant: only the promotion in the result counts.
Existing_ResultOnly(p) == {t \in DOMAIN lineage : lineage[t].promo = p.id}

\* A task of the same promotion, or of the same session on the same branch.
Existing(p) ==
  {t \in DOMAIN lineage : \/ lineage[t].promo = p.id
                          \/ lineage[t].branch = p.branch /\ lineage[t].session = p.session}

\* Has a request for this promotion been answered with a marked task before?
Taken(p) == \E n \in DOMAIN calls : calls[n].kind = "promotion" /\ calls[n].promo = p /\ calls[n].pc = "marked"

\* POST /tasks/ingest: a complete request for an authorized repository.
PostIngest(p) ==
  /\ p.authorized
  /\ Waiting([kind |-> "promotion", promo |-> p, pc |-> "list", task |-> 0, late |-> Taken(p), blind |-> FALSE])

\* The adapter lists the tasks; a failed query lists the memory of the process.
ListTasks(n, ok) ==
  /\ calls[n].pc = "list"
  /\ calls' = [calls EXCEPT ![n].pc = IF ok /\ Existing(calls[n].promo) # {} THEN "known" ELSE "create",
                            ![n].blind = ~ok]
  /\ IF ok THEN UNCHANGED faults ELSE Fault
  /\ UNCHANGED <<workload, mem, bus, work, requests, server, trail, client, lineage>>

\* processIntake commits the task with its sealed spec, or nothing.
IntakeEnds(n, ok) ==
  /\ calls[n].pc = "create" /\ Len(tasks) < MaxTasks
  /\ IF ok
     THEN /\ tasks' = Append(tasks, NewTask(1))
          /\ lineage' = Append(lineage, IF calls[n].kind = "step" THEN Unmarked
                                        ELSE [Unmarked EXCEPT !.branch = calls[n].promo.branch])
          /\ calls' = [calls EXCEPT ![n].pc = IF calls[n].kind = "step" THEN "announce" ELSE "mark",
                                    ![n].task = Len(tasks) + 1]
          /\ UNCHANGED faults
     ELSE Goes(n, "failed") /\ Fault /\ UNCHANGED <<tasks, lineage>>
  /\ UNCHANGED <<workload, mem, bus, box, requests, server, trail, client>>

\* Only then the delegation is announced, with a handoff from the agent of the first
\* step it depends on.
AnnounceStep(n) ==
  LET plan == calls[n].plan
      k == calls[n].step
      agent == plan.agents[k]
      handoff == \E d \in plan.deps[k] : \A e \in plan.deps[k] : d <= e /\ plan.agents[d] \notin {"none", agent}
  IN  /\ calls[n].pc = "announce" /\ Goes(n, "announced")
      /\ IF agent = "none" THEN UNCHANGED <<server, trail, client>>
         ELSE Announce(server, <<"STEP_DELEGATED", "AGENT_STARTED_WORK">> \o (IF handoff THEN <<"AGENT_HANDOFF">> ELSE <<>>),
                       OwnProject, calls[n].task)
      /\ UNCHANGED <<workload, mem, bus, work, requests, faults, lineage>>

\* The row is told its promotion and its session; a failed update is answered as done.
MarkTask(n, ok) ==
  /\ calls[n].pc = "mark" /\ Goes(n, IF ok THEN "marked" ELSE "unmarked")
  /\ IF ok THEN UNCHANGED faults ELSE Fault
  /\ lineage' = IF ok THEN [lineage EXCEPT ![calls[n].task] =
                              [promo |-> calls[n].promo.id, session |-> calls[n].promo.session, branch |-> calls[n].promo.branch]]
                ELSE lineage
  /\ UNCHANGED <<workload, mem, bus, work, requests, server, trail, client>>

\* A worker ends the task: its result replaces the one with the promotion.
WorkerOverwrites(t) ==
  /\ workload = "intakes" /\ tasks[t].status = "QUEUED"
  /\ tasks' = [tasks EXCEPT ![t] = Ended(@, "clean")] /\ lineage' = [lineage EXCEPT ![t].promo = "none"]
  /\ UNCHANGED <<workload, mem, bus, box, requests, faults, server, trail, client, calls>>

ServerNext ==
  \/ \E c \in Clients : OpenStream(c) \/ \E kept \in 0..MaxTrail : CloseStream(c, kept)
  \/ Restart
  \/ \E project \in Projects \cup {"none"} : ServerPlan(project)
  \/ \E project \in Projects : ServerRequestApproval(project)
  \/ \E t \in 1..MaxTasks, evidence \in {"passed", "failed", "unknown"} : ServerReview(t, evidence, OwnProject)
  \/ \E n \in DOMAIN server.approvals, role \in {"CEO", "DEVELOPER"}, d \in {"GRANT", "REJECT"} :
       ServerDecideApproval(n, role, d)
  \/ \E given \in Pipelines : ServerPostPipeline(given)
  \/ \E n \in DOMAIN server.pipelines :
       \/ ServerPostTick(n)
       \/ \E k \in DOMAIN server.pipelines[n].steps, d \in {"GRANT", "REJECT"} : ServerDecideCheckpoint(n, k, d)
  \/ \E given \in Plans : \E k \in DOMAIN CreateOrganizationalPlan(given).deps : PostExecuteStep(given, k)
  \/ \E p \in Promotions : PostIngest(p)
  \/ \E n \in DOMAIN calls : \/ AnnounceStep(n)
                             \/ \E ok \in BOOLEAN : ListTasks(n, ok) \/ IntakeEnds(n, ok) \/ MarkTask(n, ok)
  \/ \E t \in DOMAIN tasks : WorkerOverwrites(t)

-----------------------------------------------------------------------------
(* Properties *)

\* Once a pipeline is under way, a step is handed out only when what it depends
\* on is done and its checkpoint has been granted, whatever the order in which
\* ticks, early decisions and completions arrive (tickPipeline, decideCheckpoint).
ReleasedStepsAreCleared ==
  \A p \in ToSet(server.pipelines) \cup UNION {ToSet(mem[i].pipelines) : i \in Isolates} :
    p.status \in {"RUNNING", "WAITING_APPROVAL"} =>
      \A k \in DOMAIN p.steps : p.steps[k].status = "READY" =>
        p.steps[k].deps \subseteq Done(p) /\ p.steps[k].chk # "PENDING"

\* A browser that comes back to a living server with its last event id gets every
\* event of its project once and in order, however the connection broke, as long as
\* no more than the buffer holds was published in between (replay from the ring
\* buffer and subscription of /office/stream).
StreamIsExact ==
  \A c \in Clients : client[c].pc = "on" =>
    LET got == client[c].got
        mine == {k \in DOMAIN got : got[k][1] = server.life}
    IN  /\ \A j, k \in mine : j < k => got[j][2] < got[k][2]
        /\ \A e \in ToSet(trail) :
             (e.life = server.life /\ MatchesFilter(e.project) /\ e.seq > client[c].start /\ e.seq > client[c].horizon)
               => \E k \in mine : got[k][2] = e.seq

\* Once a promotion has been answered, a later request for it creates nothing, even
\* when a worker has overwritten the result that named it (the search of
\* PdlTaskIngestionAdapter.ingest), unless its list of the tasks failed.
PromotionIsTakenOnce ==
  \A n \in DOMAIN calls :
    (calls[n].kind = "promotion" /\ calls[n].late /\ ~calls[n].blind) => calls[n].task = 0
=============================================================================
