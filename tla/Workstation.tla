----------------------------- MODULE Workstation -----------------------------
(***************************************************************************)
(* A browser with the office open: the store, the event stream client, the *)
(* polling of Home, the chat, the plan viewer and the record player, and   *)
(* the server they talk to.                                                *)
(*                                                                         *)
(* JavaScript runs one callback at a time, so an action is the code        *)
(* between two awaits.  The requests of loadData are answered one by one,  *)
(* each from the server's state at that time or not at all.  Timers of one *)
(* walk fire in order; those of different ones in any order.  The texts of *)
(* the chat are left out: what is kept is who has replied.                 *)
(*                                                                         *)
(* The server is the API worker on several isolates: each has a list of    *)
(* approvals and a numbering of events of its own, and the platform may    *)
(* drop it at any time; tasks and the table of events are shared.          *)
(***************************************************************************)
EXTENDS Naturals, Sequences, FiniteSets, SequencesExt

-----------------------------------------------------------------------------
(* Pure rules of the browser's office: how an employee's state is derived  *)
(* from the tasks, who reacts to an event, which gateway answers a chat,   *)
(* what the routes of the worker return to it and which record plays next. *)
(* Texts are left out: an answer is usable or it is not.                   *)

\* deriveOperationalState: statuses are those of the employee's tasks,
\* recent says that one of them was completed in the last 15 seconds
DeriveOperationalState(agent, statuses, recent, actionLoading) ==
  CASE agent = "chief-of-staff" /\ actionLoading -> "thinking"
    [] "RUNNING" \in statuses -> (IF agent = "reviewer" THEN "reviewing" ELSE IF agent = "architect" THEN "thinking" ELSE "working")
    [] recent -> "celebrating"
    [] "QUEUED" \in statuses -> "waiting_for_dependency"
    [] "BLOCKED" \in statuses -> "blocked"
    [] actionLoading /\ agent \in {"developer", "architect"} -> "working"
    [] OTHER -> "idle"

\* What an employee shows while executing a step.
ActiveState(agent) ==
  IF agent = "reviewer" THEN "reviewing" ELSE IF agent = "architect" THEN "thinking" ELSE "working"

OperationalStates ==
  {"thinking", "reviewing", "working", "celebrating", "waiting_for_dependency", "blocked", "idle"}

\* handleIncomingStreamEvent: who speaks
SpeakersOf(e) ==
  CASE e.type = "OBJECTIVE_SUBMITTED" -> {"ceo"}
    [] e.type = "PLAN_FORMULATED" -> {"chief-of-staff"}
    [] e.type = "STEP_DELEGATED" -> {e.target} \ {"none"}
    [] e.type \in {"AGENT_STARTED_WORK", "AGENT_FINISHED_WORK", "AGENT_FAILED_WORK", "MESSAGE_SENT", "MESSAGE_RECEIVED",
                   "AGENT_RESPONDED", "REVIEW_FINDING", "REVIEW_CHANGES_REQUESTED", "REVIEW_APPROVED"} -> {e.actor} \ {"none"}
    [] OTHER -> {}

\* handleIncomingStreamEvent: who walks
MoversOf(e) ==
  CASE e.type = "AGENT_HANDOFF" /\ "none" \notin {e.actor, e.target} -> {e.target}
    [] e.type = "MEETING_STARTED" -> {"chief-of-staff", "ceo"}
    [] e.type \in {"REVIEW_FINDING", "REVIEW_CHANGES_REQUESTED"} /\ e.actor # "none" -> {"developer"}
    [] OTHER -> {}

\* The states of a walk: approaching, interacting after 1.4 s, returning
\* after 3.8 s, and over after the duration, which is 5 s or more.
NextPhase(phase) == CASE phase = "approaching" -> "interacting" [] phase = "interacting" -> "returning" [] OTHER -> "idle"

-----------------------------------------------------------------------------
(* Models are asked in order, each with a timeout; the first usable answer *)
(* counts.                                                                 *)

\* The model whose answer is taken, 0 when there is none.
FirstUsable(answers) ==
  LET usable == {i \in DOMAIN answers : answers[i]} IN
  IF usable = {} THEN 0 ELSE CHOOSE i \in usable : \A j \in usable : i <= j

\* executeAutonomousStepLlm: a deliverable or an exception
StepDeliverable(answers) == FirstUsable(answers) # 0

\* POST /office/chat, the cascade of OpenRouter models
OpenRouterReplies(key, answers) == key /\ FirstUsable(answers) # 0

\* POST /office/chat, the cascade of 9Router models, and what is said when
\* no model answered: the audit of the repositories or a line of lore
ChatGateway(agent, key, openRouter, nineRouter) ==
  IF OpenRouterReplies(key, openRouter) THEN "openrouter"
  ELSE IF FirstUsable(nineRouter) # 0 THEN "9router"
  ELSE IF agent = "chief-of-staff" THEN "autonomous-audit" ELSE "contextual-lore"

\* callLlmForAgent: the gateway shown once the worker has replied
ShownGateway(gateway) == IF gateway = "9router" THEN "9ROUTER" ELSE "OPENROUTER"

\* callLlmForAgent: the browser's own models, and the local engine after them
BrowserGateway(answers, shown) == IF FirstUsable(answers) # 0 THEN "9ROUTER" ELSE shown

\* generateMultiAgentReaction: subjects that everybody has something to say
\* about; a prompt is the set of what it mentions
ThemedReaction(prompt) ==
  CASE "pool" \in prompt -> <<"developer", "architect", "qa-engineer", "reviewer", "chief-of-staff">>
    [] "pool" \notin prompt /\ "food" \in prompt -> <<"developer", "reviewer", "architect", "chief-of-staff">>
    [] {"pool", "food"} \cap prompt = {} /\ "greeting" \in prompt -> <<"chief-of-staff", "developer">>
    [] OTHER -> <<>>

\* generateMultiAgentReaction: who was asked or is mentioned, else everybody
PersonalReaction(prompt, target) ==
  LET named == SelectSeq(<<"chief-of-staff", "developer", "architect", "reviewer", "qa-engineer">>,
                         LAMBDA a : a = target \/ a \in prompt) IN
  IF named # <<>> THEN <<Head(named)>>
  ELSE <<"developer", "architect", "reviewer", "qa-engineer", "chief-of-staff">>

\* callLlmForAgent, its last resort: whose words the employee who was asked
\* replies with
LocalVoice(prompt, target) ==
  IF "insult" \in prompt /\ target \in {"chief-of-staff", "developer", "architect", "reviewer", "qa-engineer"} THEN target
  ELSE IF ThemedReaction(prompt) # <<>> THEN Head(ThemedReaction(prompt))
  ELSE Head(PersonalReaction(prompt, target))

\* GET /office/approvals: those of a project on the list of the isolate that
\* answers, decided ones included
ListApprovals(approvals, project) ==
  [a \in DOMAIN approvals |-> IF approvals[a].project = project THEN approvals[a].status ELSE "none"]

\* POST /office/projects: without a token, and when both creations are
\* refused, the project is answered as created all the same
CreateProject(name, token, org, user) ==
  [project |-> name, onGitHub |-> token /\ (org \/ user), published |-> token /\ (org \/ user)]

-----------------------------------------------------------------------------
(* The record player.                                                      *)

Feed == "album-pubrecords"
ShuffleDisc == "album-pubrecords-shuffle"

\* Records that the shuffle may choose.
Playable(albums) == {albums[i] : i \in DOMAIN albums} \ {Feed, ShuffleDisc}

\* What the shuffle may play after current.
ShuffleChoices(albums, current) ==
  IF Playable(albums) \ {current} # {} THEN Playable(albums) \ {current} ELSE Playable(albums)

IndexOfAlbum(albums, album) == CHOOSE i \in DOMAIN albums : albums[i] = album

NextAlbum(albums, current) == albums[(IndexOfAlbum(albums, current) % Len(albums)) + 1]

PrevAlbum(albums, current) == albums[((IndexOfAlbum(albums, current) + Len(albums) - 2) % Len(albums)) + 1]

-----------------------------------------------------------------------------
(* The browser                                                             *)

CONSTANTS Agents,      \* employees
          Tasks,       \* tasks, of the server and of the browser alone
          Approvals, Projects, Albums,
          Isolates,    \* of the API worker
          Slots,       \* loads that may be under way at once
          MaxModels,   \* models of a cascade
          EventCap,    \* office events kept, 100 in the code
          Scenarios    \* what happens at the server, what the user does, what fails

ASSUME WorkstationAssumption ==
  /\ "ceo" \notin Agents /\ "chief-of-staff" \in Agents
  /\ EventCap \in Nat \ {0} /\ MaxModels \in Nat \ {0}

VARIABLES
  sc,       \* the scenario
  srv,      \* the server: script position, tasks, approvals and events of the isolates, table of events
  net,      \* failures the network and the platform may still cause
  clients,  \* OfficeEventStreamClients made so far
  cur,      \* streamClient: the current one, 0 when null
  ui,       \* the store
  mods,     \* maps and sets of the store's module
  loads,    \* calls of loadData under way
  side,     \* fetchAwarenessData, fetchSkillsData and fetchPipelinesData under way
  moves,    \* walks whose timers have not all fired
  bubbleTimers, handoffTimers, cheers,  \* other timers
  acts,     \* what the user has started
  music     \* the record player

vars == <<sc, srv, net, clients, cur, ui, mods, loads, side, moves, bubbleTimers, handoffTimers, cheers, acts, music>>

timerVars == <<moves, bubbleTimers, handoffTimers, cheers>>

People == Agents \cup {"ceo"}

Answers == [1..MaxModels -> BOOLEAN]

-----------------------------------------------------------------------------
(* The event stream: its client and its end at the server.                 *)

\* The script of what happens at the server.
Event(i) == sc.script[i]

\* A client, and the stream that an isolate keeps for it: what the stream
\* was subscribed to, the number it has come to, its SELECTs under way and
\* what it has sent.  passed is for the properties only: the rows whose
\* number the stream went past without reading them.
NewClient(project) ==
  [project |-> project, source |-> "connecting", closed |-> FALSE, timer |-> FALSE, last |-> 0, status |-> "connecting",
   iso |-> "none", live |-> FALSE, cursor |-> 0, asked |-> {}, out |-> <<>>, passed |-> {}]

\* The stream's cancel: no listener, no polls, and what was sent is lost.
Unplugged(c) ==
  [c EXCEPT !.source = "none", !.iso = "none", !.live = FALSE, !.cursor = c.last, !.asked = {}, !.out = <<>>,
            !.passed = {k \in @ \cup Range(c.out) : srv.num[k] <= c.last}]

\* OfficeEventStreamClient.close
CloseClient(c) ==
  [Unplugged(c) EXCEPT !.closed = TRUE, !.timer = FALSE, !.status = "disconnected", !.last = 0, !.cursor = 0, !.passed = {}]

\* initStream: close the old client, connect a new one
ClientsAfterInit(project) ==
  Append(IF cur = 0 THEN clients ELSE [clients EXCEPT ![cur] = CloseClient(@)], NewClient(project))

\* The rows of a project after a number.  The SELECTs return 50 or 100 of
\* them, which is more than a script has.
RowsAfter(v, project, number) == {k \in v.table : Event(k).project = project /\ v.num[k] > number}

\* ORDER BY sequence: isolates number alike, and equals come in any order.
InOrder(rows) ==
  {s \in SetToSeqs(rows) : \A x, y \in DOMAIN s : x < y => srv.num[s[x]] <= srv.num[s[y]]}

\* Events are written to the stream and the cursor moves to the highest of
\* their numbers, past rows that were not read.
Written(c, s, v) ==
  LET cursor == Max({c.cursor} \cup {v.num[k] : k \in Range(s)})
      behind == {k \in RowsAfter(v, c.project, c.cursor) : v.num[k] <= cursor} IN
  [c EXCEPT !.out = @ \o s, !.cursor = cursor, !.passed = (@ \cup behind) \ Range(s)]

\* onopen: a client that has seen events asks for those after the last one,
\* one that has not goes live at once
Opened(n) ==
  LET c == clients[n] IN
  /\ c.source = "connecting"
  /\ \E i \in sc.isolates :
       clients' = [clients EXCEPT ![n] =
         [c EXCEPT !.source = "open", !.status = "connected", !.iso = i, !.live = (c.last = 0),
                   !.asked = IF c.last = 0 THEN {} ELSE {[after |-> c.last, rows |-> RowsAfter(srv, c.project, c.last)]}]]
  /\ ui' = [ui EXCEPT !.stream = "connected"]
  /\ UNCHANGED <<sc, srv, net, cur, mods, loads, side, moves, bubbleTimers, handoffTimers, cheers, acts, music>>

\* The stream's timer: the interval does not wait for the SELECT before.
PollAsked(n) ==
  LET c == clients[n] IN
  /\ c.live /\ Cardinality(c.asked) < sc.polls
  /\ clients' = [clients EXCEPT ![n].asked = @ \cup {[after |-> c.cursor, rows |-> RowsAfter(srv, c.project, c.cursor)]}]
  /\ UNCHANGED <<sc, srv, net, cur, ui, mods, loads, side, timerVars, acts, music>>

Spend(ok) == /\ ok \/ net.fails > 0
             /\ net' = IF ok THEN net ELSE [net EXCEPT !.fails = @ - 1]

\* A SELECT is answered, as of when it was sent or as of now, or fails,
\* which is ignored; after the first one the stream goes live.
Answered(n, ok) ==
  LET c == clients[n] IN
  /\ Spend(ok)
  /\ \E q \in c.asked :
       LET d == [c EXCEPT !.asked = @ \ {q}, !.live = TRUE] IN
       \E rows \in IF ok THEN {q.rows, RowsAfter(srv, c.project, q.after)} ELSE {{}} :
         \E s \in InOrder(rows) : clients' = [clients EXCEPT ![n] = Written(d, s, srv)]
  /\ UNCHANGED <<sc, srv, cur, ui, mods, loads, side, timerVars, acts, music>>

\* Mutant: only the first failure is retried.
AfterError_Once(c) == [Unplugged(c) EXCEPT !.status = "error", !.timer = ~c.closed /\ c.last = 0]

\* onerror, scheduleReconnect
AfterError(c) == [Unplugged(c) EXCEPT !.status = "error", !.timer = ~c.closed]

Broken(n) ==
  /\ clients[n].source # "none" /\ net.errors > 0
  /\ clients' = [clients EXCEPT ![n] = AfterError(@)]
  /\ net' = [net EXCEPT !.errors = @ - 1]
  /\ ui' = [ui EXCEPT !.stream = "error"]
  /\ UNCHANGED <<sc, srv, cur, mods, loads, side, moves, bubbleTimers, handoffTimers, cheers, acts, music>>

\* The reconnect timer: connect again unless closed meanwhile.
Reconnect(n) ==
  LET c == [clients[n] EXCEPT !.timer = FALSE] IN
  /\ clients[n].timer
  /\ IF c.source # "none" \/ c.closed THEN clients' = [clients EXCEPT ![n] = c] /\ UNCHANGED ui
     ELSE /\ clients' = [clients EXCEPT ![n] = [c EXCEPT !.source = "connecting", !.status = "connecting"]]
          /\ ui' = [ui EXCEPT !.stream = "connecting"]
  /\ UNCHANGED <<sc, srv, net, cur, mods, loads, side, moves, bubbleTimers, handoffTimers, cheers, acts, music>>

-----------------------------------------------------------------------------
(* Bubbles and walks.                                                      *)

\* triggerSpeechBubble for several employees: the newest bubble of a sender
\* replaces the older one, whose timer goes on; a bubble is identified by
\* its cause and its sender
Speak(u, who, id) == [u EXCEPT !.bubble = [p \in People |-> IF p \in who THEN id ELSE @[p]]]

BubbleTimersOf(who, id) == {[id |-> id, who |-> p] : p \in who}

\* dismissSpeechBubble
DismissSpeechBubble(u, t) ==
  [u EXCEPT !.bubble[t.who] = IF @ = t.id THEN 0 ELSE @]

BubbleTimer(t) ==
  /\ t \in bubbleTimers
  /\ ui' = DismissSpeechBubble(ui, t)
  /\ bubbleTimers' = bubbleTimers \ {t}
  /\ UNCHANGED <<sc, srv, net, clients, cur, mods, loads, side, moves, handoffTimers, cheers, acts, music>>

\* triggerSpatialMovement, its start
Approach(spatial, who) == [p \in People |-> IF p \in who THEN "approaching" ELSE spatial[p]]

\* The timer that ends a walk is the last one.
LastPhase(phase) == phase = "returning"

\* triggerSpatialMovement, one of its timers
MoveTimer(m) ==
  /\ m \in moves
  /\ mods' = [mods EXCEPT !.spatial[m.who] = NextPhase(m.phase)]
  /\ ui' = [ui EXCEPT !.spatial[m.who] = NextPhase(m.phase)]
  /\ moves' = (moves \ {m}) \cup (IF LastPhase(m.phase) THEN {} ELSE {[m EXCEPT !.phase = NextPhase(m.phase)]})
  /\ UNCHANGED <<sc, srv, net, clients, cur, loads, side, bubbleTimers, handoffTimers, cheers, acts, music>>

-----------------------------------------------------------------------------
(* Events from the stream.                                                 *)

\* The list of events, newest first, without its oldest ones.
Newest(events) == SubSeq(events, 1, IF Len(events) > EventCap THEN EventCap ELSE Len(events))

\* recordOfficeEvent: an event that is on the list is put first again
Recorded(events, i) == Newest(<<i>> \o SelectSeq(events, LAMBDA x : x # i))

\* handleIncomingStreamEvent: approvals and the meeting room
WithEvent(u, e, i) ==
  LET v == [u EXCEPT !.events = Recorded(@, i)] IN
  CASE e.type = "APPROVAL_REQUESTED" -> [v EXCEPT !.approvals[e.approval] = "PENDING", !.ceo = "waiting_for_approval"]
    [] e.type \in {"APPROVAL_GRANTED", "APPROVAL_REJECTED"} -> [v EXCEPT !.approvals[e.approval] = "none", !.ceo = "idle"]
    [] e.type = "MEETING_STARTED" -> [v EXCEPT !.meeting = TRUE]
    [] e.type = "MEETING_ENDED" -> [v EXCEPT !.meeting = FALSE]
    [] OTHER -> v

\* Mutant: an event is known while it is on the list.
IsKnown_OnTheList(i) == \E k \in DOMAIN ui.events : ui.events[k] = i

\* processedEventIds
IsKnown(i) == i \in mods.processed

\* handleIncomingStreamEvent
HandleIncomingStreamEvent(i) ==
  IF IsKnown(i) THEN UNCHANGED <<ui, mods, moves, bubbleTimers, handoffTimers>>
  ELSE LET e == Event(i)
           movers == MoversOf(e)
           u == Speak(WithEvent(ui, e, i), SpeakersOf(e), i) IN
       /\ ui' = [u EXCEPT !.spatial = Approach(@, movers)]
       /\ mods' = [mods EXCEPT !.processed = @ \cup {i}, !.spatial = Approach(@, movers),
                               !.applied[i] = @ + 1,
                               !.handoffs = IF e.type = "AGENT_HANDOFF" THEN @ \cup movers ELSE @]
       /\ moves' = moves \cup {[by |-> i, who |-> p, phase |-> "approaching"] : p \in movers}
       /\ bubbleTimers' = bubbleTimers \cup BubbleTimersOf(SpeakersOf(e), i)
       /\ handoffTimers' = handoffTimers \cup
            (IF e.type = "AGENT_HANDOFF" THEN {[by |-> i, who |-> p] : p \in movers} ELSE {})

\* An event arrives, in the order in which the stream has sent them.
Deliver(n) ==
  LET c == clients[n] IN
  /\ c.out # <<>>
  /\ clients' = [clients EXCEPT ![n] = [c EXCEPT !.out = Tail(@), !.last = Max({@, srv.num[Head(c.out)]})]]
  /\ HandleIncomingStreamEvent(Head(c.out))
  /\ UNCHANGED <<sc, srv, net, cur, loads, side, cheers, acts, music>>

-----------------------------------------------------------------------------
(* loadData.                                                               *)

NoTasks == [t \in Tasks |-> "none"]
NoApprovals == [a \in Approvals |-> "none"]

IdleLoad == [on |-> FALSE, project |-> "none", gotTasks |-> FALSE, gotApprovals |-> FALSE,
             tasks |-> NoTasks, approvals |-> NoApprovals]

\* The requests of a load are sent.
Requested(project) == [IdleLoad EXCEPT !.on = TRUE, !.project = project]

\* The next call of loadData, when there is room for it.
FreeSlot == {l \in 1..sc.slots : ~loads[l].on /\ \A j \in 1..(l - 1) : loads[j].on}

\* The polling timer of Home.
StartLoad(l) ==
  /\ cur # 0 /\ l \in FreeSlot
  /\ loads' = [loads EXCEPT ![l] = Requested(ui.project)]
  /\ UNCHANGED <<sc, srv, net, clients, cur, ui, mods, side, timerVars, acts, music>>

\* A handoff's timer: its badge is taken away and the office loaded again.
HandoffTimer(t, l) ==
  /\ t \in handoffTimers /\ l \in FreeSlot
  /\ mods' = [mods EXCEPT !.handoffs = @ \ {t.who}]
  /\ loads' = [loads EXCEPT ![l] = Requested(ui.project)]
  /\ handoffTimers' = handoffTimers \ {t}
  /\ UNCHANGED <<sc, srv, net, clients, cur, ui, side, moves, bubbleTimers, cheers, acts, music>>

\* fetchTasks: a failure counts as an empty list
TasksAnswered(l, ok) ==
  /\ loads[l].on /\ ~loads[l].gotTasks /\ Spend(ok)
  /\ loads' = [loads EXCEPT ![l] = [@ EXCEPT !.gotTasks = TRUE, !.tasks = IF ok THEN srv.tasks ELSE NoTasks]]
  /\ UNCHANGED <<sc, srv, clients, cur, ui, mods, side, timerVars, acts, music>>

\* fetchApprovals: so does this one; any isolate may answer, from its own list
ApprovalsAnswered(l, ok) ==
  /\ loads[l].on /\ ~loads[l].gotApprovals /\ Spend(ok)
  /\ \E i \in sc.isolates :
       loads' = [loads EXCEPT ![l] =
         [@ EXCEPT !.gotApprovals = TRUE,
                   !.approvals = IF ok THEN ListApprovals(srv.approvals[i], loads[l].project) ELSE NoApprovals]]
  /\ UNCHANGED <<sc, srv, clients, cur, ui, mods, side, timerVars, acts, music>>

\* loadData: tasks whose status is another than the one observed before
ChangedTasks(tasks) ==
  {t \in Tasks : tasks[t] # "none" /\ mods.observed[t] \notin {"none", tasks[t]}}

\* recordOfficeEvent for each of them that ended or started: its id is new
Announced(events, tasks) ==
  LET n == Cardinality({t \in ChangedTasks(tasks) : tasks[t] \in {"COMPLETED", "FAILED", "RUNNING"}}) IN
  Newest([k \in 1..n |-> 0] \o events)

StatusesOf(tasks, agent) == {tasks[t] : t \in {x \in Tasks : sc.owner[x] = agent}}

\* The approvals of the answer replace those shown.
ShownApprovals(u, load) == load.approvals

\* loadData, its set: employees, tasks, approvals, the CEO
WithLoad(u, load, recent) ==
  [u EXCEPT !.op = [a \in Agents |->
                      DeriveOperationalState(a, StatusesOf(load.tasks, a),
                                             recent /\ "COMPLETED" \in StatusesOf(load.tasks, a), u.loading)],
            !.spatial = mods.spatial,
            !.tasks = load.tasks,
            !.approvals = ShownApprovals(u, load),
            !.ceo = IF \E a \in Approvals : load.approvals[a] = "PENDING" THEN "waiting_for_approval" ELSE @]

Panels(project) == {[kind |-> k, project |-> project] : k \in sc.panels}

\* All the answers are there.
FinishLoad(l, recent) ==
  /\ loads[l].on /\ loads[l].gotTasks /\ loads[l].gotApprovals
  /\ ui' = [WithLoad(ui, loads[l], recent) EXCEPT !.events = Announced(@, loads[l].tasks)]
  /\ mods' = [mods EXCEPT !.observed = [t \in Tasks |-> IF loads[l].tasks[t] = "none" THEN @[t] ELSE loads[l].tasks[t]]]
  /\ loads' = [loads EXCEPT ![l] = IdleLoad]
  /\ side' = side \cup Panels(ui.project)
  /\ UNCHANGED <<sc, srv, net, clients, cur, timerVars, acts, music>>

\* fetchAwarenessData, fetchSkillsData: the panel shows what was asked for;
\* fetchPipelinesData: the pipeline that was open stays open
PanelAnswered(f, ok) ==
  /\ f \in side /\ Spend(ok)
  /\ side' = side \ {f}
  /\ ui' = IF ~ok THEN ui
           ELSE [ui EXCEPT !.panel[f.kind] = f.project,
                           !.pipeline = IF f.kind # "pipelines" THEN @
                                        ELSE IF f.project \notin sc.piped THEN "none"
                                        ELSE IF @ # "none" THEN @ ELSE f.project]
  /\ UNCHANGED <<sc, srv, clients, cur, mods, loads, timerVars, acts, music>>

-----------------------------------------------------------------------------
(* The active project.                                                     *)

\* setActiveProject: a new stream, a load and the panels
ActiveProjectSet(project, l) ==
  /\ l \in FreeSlot
  /\ clients' = ClientsAfterInit(project) /\ cur' = Len(clients) + 1
  /\ loads' = [loads EXCEPT ![l] = Requested(project)]
  /\ side' = side \cup Panels(project)

\* The user chooses another project.
SetActiveProject(l) ==
  /\ ui.switched < Len(sc.switches)
  /\ LET project == sc.switches[ui.switched + 1] IN
     /\ ActiveProjectSet(project, l)
     /\ ui' = [ui EXCEPT !.project = project, !.switched = @ + 1, !.stream = "connecting"]
  /\ UNCHANGED <<sc, srv, net, mods, timerVars, acts, music>>

\* Home is taken down: closeStream.
Unmount ==
  /\ cur # 0 /\ net.remounts > 0
  /\ clients' = [clients EXCEPT ![cur] = CloseClient(@)] /\ cur' = 0
  /\ ui' = [ui EXCEPT !.stream = "disconnected"]
  /\ net' = [net EXCEPT !.remounts = @ - 1]
  /\ UNCHANGED <<sc, srv, mods, loads, side, timerVars, acts, music>>

\* Home is shown again: loadData, initStream.
Mount(l) ==
  /\ cur = 0 /\ l \in FreeSlot
  /\ clients' = ClientsAfterInit(ui.project) /\ cur' = Len(clients) + 1
  /\ loads' = [loads EXCEPT ![l] = Requested(ui.project)]
  /\ ui' = [ui EXCEPT !.stream = "connecting"]
  /\ UNCHANGED <<sc, srv, net, mods, side, timerVars, acts, music>>

-----------------------------------------------------------------------------
(* What the user starts.  Several of these may be under way: what disables *)
(* the buttons is actionLoading, which each of them resets for itself.     *)

Kind(k) == sc.acts[k]

\* Bubbles of what the user starts are numbered after those of the events.
BubbleId(k, n) == Len(sc.script) + 10 * k + n

Goto(k, pc) == acts' = [acts EXCEPT ![k].pc = pc]

\* The chat form and the ambient chatter wait for the spinner and the replies.
ChatFree == ~ui.loading /\ ui.responding = "none"

\* submitObjective
SubmitObjective(k) ==
  /\ Kind(k) = "submit" /\ acts[k].pc = "todo" /\ ChatFree
  /\ ui' = [Speak(ui, {"chief-of-staff"}, BubbleId(k, 1)) EXCEPT !.loading = TRUE]
  /\ bubbleTimers' = bubbleTimers \cup BubbleTimersOf({"chief-of-staff"}, BubbleId(k, 1))
  /\ Goto(k, "wait")
  /\ UNCHANGED <<sc, srv, net, clients, cur, mods, loads, side, moves, handoffTimers, cheers, music>>

\* submitObjective, both of its ends
SpinnerAfterCommand(ok) == FALSE

\* submitObjective, once sendCeoCommand has answered: the specialist starts
\* to work and the task is put on the list; an answer that was lost or failed
\* may have left a task at the server
CommandAnswered(k, ok, specialist, created) ==
  LET task == sc.command
      spoken == IF ok /\ specialist THEN {sc.owner[task]} ELSE {}
      u == [Speak(ui, spoken, BubbleId(k, 2)) EXCEPT !.loading = SpinnerAfterCommand(ok)]
  IN
  /\ Kind(k) = "submit" /\ acts[k].pc = "wait"
  /\ Spend(ok) /\ (~ok => ~specialist)
  /\ srv' = IF created THEN [srv EXCEPT !.tasks[task] = "QUEUED"] ELSE srv
  /\ ui' = [u EXCEPT !.op = [a \in Agents |-> IF a \in spoken THEN "working" ELSE @[a]],
                     !.tasks = IF ok /\ created THEN [@ EXCEPT ![task] = "QUEUED"] ELSE @]
  /\ bubbleTimers' = bubbleTimers \cup BubbleTimersOf(spoken, BubbleId(k, 2))
  /\ Goto(k, "done")
  /\ UNCHANGED <<sc, clients, cur, mods, loads, side, moves, handoffTimers, cheers, music>>

\* executeAllSteps
ExecuteAllSteps(k) ==
  /\ Kind(k) = "all" /\ acts[k].pc = "todo" /\ ~ui.loading
  /\ ui' = [Speak(ui, {"chief-of-staff"}, BubbleId(k, 1)) EXCEPT !.loading = TRUE]
  /\ bubbleTimers' = bubbleTimers \cup BubbleTimersOf({"chief-of-staff"}, BubbleId(k, 1))
  /\ Goto(k, "dispatch")
  /\ UNCHANGED <<sc, srv, net, clients, cur, mods, loads, side, moves, handoffTimers, cheers, music>>

\* executeStep
ExecuteStep(k) ==
  /\ Kind(k) = "step" /\ acts[k].pc = "todo" /\ ~ui.loading
  /\ ui' = [ui EXCEPT !.loading = TRUE]
  /\ Goto(k, "dispatch")
  /\ UNCHANGED <<sc, srv, net, clients, cur, mods, loads, side, timerVars, music>>

Step(k) == sc.steps[acts[k].i]

\* executeStep, once executePlanStep has answered: with the task of the
\* server or, when that failed, with one the browser makes up; the server may
\* have made its task all the same
StepDispatched(k, ok, made) ==
  LET agent == Step(k).agent
      task == IF ok THEN Step(k).task ELSE Step(k).local
      id == BubbleId(k, 2 * acts[k].i + 1) IN
  /\ acts[k].pc = "dispatch" /\ Spend(ok) /\ (ok => made)
  /\ srv' = IF made THEN [srv EXCEPT !.tasks[Step(k).task] = "QUEUED"] ELSE srv
  /\ ui' = [Speak(ui, {agent}, id) EXCEPT !.tasks[task] = "RUNNING", !.op[agent] = ActiveState(agent),
                                          !.spatial[agent] = "interacting"]
  /\ bubbleTimers' = bubbleTimers \cup BubbleTimersOf({agent}, id)
  /\ acts' = [acts EXCEPT ![k] = [@ EXCEPT !.pc = "think", !.task = task]]
  /\ UNCHANGED <<sc, clients, cur, mods, loads, side, moves, handoffTimers, cheers, music>>

\* The task of the step on the list, when a load has not taken it away.
WithOutcome(tasks, task, status) == IF tasks[task] = "none" THEN tasks ELSE [tasks EXCEPT ![task] = status]

\* executeAllSteps, its finally
Finished(u) == [u EXCEPT !.loading = FALSE, !.op = [a \in Agents |-> "idle"],
                         !.spatial = [p \in People |-> IF p \in Agents THEN "idle" ELSE @[p]]]

LastStep(k) == Kind(k) = "step" \/ acts[k].i = Len(sc.steps)

\* executeStep, once the model has delivered
StepCompleted(k, answers) ==
  LET agent == Step(k).agent
      id == BubbleId(k, 2 * acts[k].i + 2)
      closing == Kind(k) = "all" /\ LastStep(k)
      said == {agent} \cup (IF closing THEN {"chief-of-staff"} ELSE {})
      u == [Speak(ui, said, id) EXCEPT !.tasks = WithOutcome(@, acts[k].task, "COMPLETED"),
                                       !.op[agent] = "celebrating", !.spatial[agent] = "idle", !.loading = FALSE] IN
  /\ acts[k].pc = "think" /\ StepDeliverable(answers)
  /\ ui' = IF closing THEN Finished(u) ELSE u
  /\ cheers' = cheers \cup {[by |-> k, i |-> acts[k].i, who |-> agent]}
  /\ bubbleTimers' = bubbleTimers \cup BubbleTimersOf(said, id)
  /\ Goto(k, IF LastStep(k) THEN "done" ELSE "pause")
  /\ UNCHANGED <<sc, srv, net, clients, cur, mods, loads, side, moves, handoffTimers, music>>

\* executeStep, when no model has delivered; executeAllSteps stops there
StepFailed(k, answers) ==
  LET agent == Step(k).agent
      u == [ui EXCEPT !.tasks = WithOutcome(@, acts[k].task, "FAILED"), !.op[agent] = "idle",
                      !.spatial[agent] = "idle", !.loading = FALSE] IN
  /\ acts[k].pc = "think" /\ ~StepDeliverable(answers)
  /\ ui' = IF Kind(k) = "all" THEN Finished(u) ELSE u
  /\ Goto(k, "done")
  /\ UNCHANGED <<sc, srv, net, clients, cur, mods, loads, side, timerVars, music>>

\* executeAllSteps, after the pause between two steps
NextStep(k) ==
  /\ acts[k].pc = "pause"
  /\ ui' = [ui EXCEPT !.loading = TRUE]
  /\ acts' = [acts EXCEPT ![k] = [@ EXCEPT !.pc = "dispatch", !.i = @ + 1]]
  /\ UNCHANGED <<sc, srv, net, clients, cur, mods, loads, side, timerVars, music>>

\* executeStep: the celebration ends
CheerTimer(c) ==
  /\ c \in cheers
  /\ ui' = [ui EXCEPT !.op[c.who] = IF @ = "celebrating" THEN "idle" ELSE @]
  /\ cheers' = cheers \ {c}
  /\ UNCHANGED <<sc, srv, net, clients, cur, mods, loads, side, moves, bubbleTimers, handoffTimers, acts, music>>

\* decidePipelineCheckpointAction
DecidePipelineCheckpoint(k) ==
  /\ Kind(k) = "pipeline" /\ acts[k].pc = "todo"
  /\ ui' = [ui EXCEPT !.loading = TRUE]
  /\ Goto(k, "wait")
  /\ UNCHANGED <<sc, srv, net, clients, cur, mods, loads, side, timerVars, music>>

PipelineAnswered(k, ok) ==
  /\ Kind(k) = "pipeline" /\ acts[k].pc = "wait" /\ Spend(ok)
  /\ ui' = [ui EXCEPT !.loading = FALSE]
  /\ Goto(k, "done")
  /\ UNCHANGED <<sc, srv, clients, cur, mods, loads, side, timerVars, music>>

\* createNewProject: what was created becomes the active project
CreateNewProject(k, l, token, org, user) ==
  LET created == CreateProject(sc.newProject, token, org, user).project IN
  /\ Kind(k) = "create" /\ acts[k].pc = "todo"
  /\ ActiveProjectSet(created, l)
  /\ ui' = [ui EXCEPT !.project = created, !.stream = "connecting"]
  /\ Goto(k, "done")
  /\ UNCHANGED <<sc, srv, net, mods, timerVars, music>>

-----------------------------------------------------------------------------
(* The chat with the employees.                                            *)

\* GlobalOfficeChat.handleSubmit
SubmitChat(k) ==
  /\ Kind(k) = "talk" /\ acts[k].pc = "todo" /\ ChatFree
  /\ ui' = [ui EXCEPT !.responding = sc.asked[1]]
  /\ Goto(k, "backend")
  /\ UNCHANGED <<sc, srv, net, clients, cur, mods, loads, side, timerVars, music>>

\* The reply is shown and the next employee asked.
Replied(k, gateway, voice) ==
  LET agent == sc.asked[acts[k].i]
      last == acts[k].i = Len(sc.asked)
      id == BubbleId(k, acts[k].i) IN
  /\ ui' = [Speak(ui, {agent}, id) EXCEPT !.gateway = gateway, !.replies = Append(@, [by |-> agent, voice |-> voice]),
                                          !.responding = IF last THEN "none" ELSE sc.asked[acts[k].i + 1]]
  /\ bubbleTimers' = bubbleTimers \cup BubbleTimersOf({agent}, id)
  /\ acts' = [acts EXCEPT ![k] = [@ EXCEPT !.pc = IF last THEN "done" ELSE "backend", !.i = IF last THEN @ ELSE @ + 1]]

\* callLlmForAgent: the worker replies, whatever its models did
BackendReplied(k, key, openRouter, nineRouter) ==
  /\ Kind(k) = "talk" /\ acts[k].pc = "backend"
  /\ LET agent == sc.asked[acts[k].i] IN
     Replied(k, ShownGateway(ChatGateway(agent, key, openRouter, nineRouter)), agent)
  /\ UNCHANGED <<sc, srv, net, clients, cur, mods, loads, side, moves, handoffTimers, cheers, music>>

\* callLlmForAgent: the worker cannot be reached or takes too long
BackendFailed(k) ==
  /\ Kind(k) = "talk" /\ acts[k].pc = "backend" /\ Spend(FALSE)
  /\ Goto(k, "models")
  /\ UNCHANGED <<sc, srv, clients, cur, ui, mods, loads, side, timerVars, music>>

\* callLlmForAgent: the models of the browser, then its own engine
ModelsAsked(k, answers) ==
  LET agent == sc.asked[acts[k].i] IN
  Replied(k, BrowserGateway(answers, ui.gateway), IF FirstUsable(answers) # 0 THEN agent ELSE LocalVoice(sc.prompt, agent))

ModelsReplied(k, answers) ==
  /\ Kind(k) = "talk" /\ acts[k].pc = "models"
  /\ ModelsAsked(k, answers)
  /\ UNCHANGED <<sc, srv, net, clients, cur, mods, loads, side, moves, handoffTimers, cheers, music>>

\* triggerAmbientBanter, generateRealOfficeBanter: lines of a model or
\* lines that are always there
Banter(k) ==
  /\ Kind(k) = "banter" /\ acts[k].pc = "todo" /\ ChatFree
  /\ Goto(k, "lines")
  /\ UNCHANGED <<sc, srv, net, clients, cur, ui, mods, loads, side, timerVars, music>>

\* One line, by its timer: the office may have become busy.
BanterLine(k) ==
  LET agent == sc.asked[acts[k].i]
      id == BubbleId(k, acts[k].i) IN
  /\ acts[k].pc = "lines"
  /\ ui' = Speak(ui, {agent}, id)
  /\ bubbleTimers' = bubbleTimers \cup BubbleTimersOf({agent}, id)
  /\ acts' = [acts EXCEPT ![k] = IF @.i = Len(sc.asked) THEN [@ EXCEPT !.pc = "done"] ELSE [@ EXCEPT !.i = @ + 1]]
  /\ UNCHANGED <<sc, srv, net, clients, cur, mods, loads, side, moves, handoffTimers, cheers, music>>

-----------------------------------------------------------------------------
(* The record player: what the store says and what the audio engine does.  *)

Silent == [playing |-> FALSE, album |-> Albums[3], shuffle |-> FALSE, radio |-> FALSE,
           engine |-> "none", heard |-> FALSE]

\* OfficeAudioEngine.play, OfficeAudioEngine.stop
Play(m, album) == [m EXCEPT !.album = album, !.playing = TRUE, !.engine = album, !.heard = TRUE]
Stop(m) == [m EXCEPT !.playing = FALSE, !.engine = "none"]

Player(m) == music' = m /\ UNCHANGED <<sc, srv, net, clients, cur, ui, mods, loads, side, timerVars, acts>>

\* toggleRadioMode
ToggleRadioMode ==
  IF music.radio THEN Player([music EXCEPT !.radio = FALSE])
  ELSE \E a \in Playable(Albums) : Player([Play(music, a) EXCEPT !.radio = TRUE, !.shuffle = TRUE])

\* setVinylShuffle
SetVinylShuffle ==
  IF music.shuffle THEN Player([music EXCEPT !.shuffle = FALSE])
  ELSE \E a \in ShuffleChoices(Albums, music.album) : Player([Play(music, a) EXCEPT !.shuffle = TRUE])

\* togglePlayVinyl
TogglePlayVinyl ==
  \/ music.playing /\ Player(Stop(music))
  \/ /\ ~music.playing
     /\ IF music.album = ShuffleDisc \/ music.shuffle \/ music.radio
        THEN \E a \in Playable(Albums) : Player([Play(music, a) EXCEPT !.shuffle = TRUE])
        ELSE Player(Play(music, music.album))

\* selectVinylAlbum
Selected(m, album) ==
  IF album = ShuffleDisc THEN {[Play(m, a) EXCEPT !.shuffle = TRUE] : a \in Playable(Albums)}
  ELSE {[Play(m, album) EXCEPT !.shuffle = FALSE]}

SelectVinylAlbum(album) == \E m \in Selected(music, album) : Player(m)

\* playNextVinylTrack, playPrevVinylTrack, in the order of the records
Turned(m, album) == IF album = ShuffleDisc THEN Selected(m, album) ELSE {Play(m, album)}

\* playNextVinylTrack and playPrevVinylTrack while the records are shuffled
Shuffled(m) == {Play(m, a) : a \in ShuffleChoices(Albums, m.album)}

InShuffle(m) == (m.shuffle \/ m.radio) /\ Cardinality(Playable(Albums)) > 1

PlayNextVinylTrack ==
  \E m \in IF InShuffle(music) THEN Shuffled(music) ELSE Turned(music, NextAlbum(Albums, music.album)) : Player(m)

PlayPrevVinylTrack ==
  \E m \in IF InShuffle(music) THEN Shuffled(music) ELSE Turned(music, PrevAlbum(Albums, music.album)) : Player(m)

\* The player of the track says that it is over: by a message, by its event
\* or to the watchdog, possibly several times and possibly late.
TrackFinished == music.heard /\ PlayNextVinylTrack

-----------------------------------------------------------------------------
(* The server and the system.                                              *)

NoItems == [a \in Approvals |-> [project |-> "none", status |-> "none"]]

Decided == [APPROVAL_GRANTED |-> "GRANTED", APPROVAL_REJECTED |-> "REJECTED"]

\* decideApproval: unknown to the isolate asked, or decided before
Refused(i, e) == e.type \in DOMAIN Decided /\ srv.approvals[i][e.approval].status # "PENDING"

\* requestApproval, decideApproval
Filed(items, e) ==
  CASE e.type = "APPROVAL_REQUESTED" -> [items EXCEPT ![e.approval] = [project |-> e.project, status |-> "PENDING"]]
    [] e.type \in DOMAIN Decided -> [items EXCEPT ![e.approval].status = Decided[e.type]]
    [] OTHER -> items

\* A row appears in the table, possibly behind the cursor of a stream that
\* has not sent the event.
Stored(c, k, number) ==
  IF Event(k).project = c.project /\ number <= c.cursor /\ k \notin Range(c.out) \cup mods.processed
  THEN [c EXCEPT !.passed = @ \cup {k}] ELSE c

\* OfficeEventBus.publish on an isolate: its next number, an INSERT under
\* way (or, in a scenario that says so, done at once or failing), and the
\* isolate's streams of the project are told.
Published(i, k) ==
  LET number == srv.last[i] + 1
      v == [srv EXCEPT !.pos = k, !.last[i] = number, !.num[k] = number, !.approvals[i] = Filed(@, Event(k)),
                       !.inserts = @ \cup {x \in {[event |-> k, isolate |-> i]} : sc.inserts = "late"},
                       !.table = @ \cup {x \in {k} : sc.inserts = "at once"}]
      told(c) == IF c.live /\ c.iso = i /\ c.project = Event(k).project THEN Written(c, <<k>>, v) ELSE c IN
  /\ srv' = v
  /\ clients' = [n \in DOMAIN clients |-> IF k \in v.table THEN Stored(told(clients[n]), k, number) ELSE told(clients[n])]

\* What happens at the server, in the order of the scenario and on any isolate.
Publish(i) ==
  LET k == srv.pos + 1 IN
  /\ k <= Len(sc.script)
  /\ \/ /\ Event(k).kind = "task"
        /\ srv' = [srv EXCEPT !.pos = k, !.tasks[Event(k).task] = Event(k).status]
        /\ UNCHANGED clients
     \/ /\ Event(k).kind = "event" /\ Refused(i, Event(k))
        /\ srv' = [srv EXCEPT !.pos = k]
        /\ UNCHANGED clients
     \/ Event(k).kind = "event" /\ ~Refused(i, Event(k)) /\ Published(i, k)
  /\ UNCHANGED <<sc, net, cur, ui, mods, loads, side, timerVars, acts, music>>

\* persistEvent: an INSERT succeeds, late perhaps; one that fails is forgotten
PersistEvent(x) ==
  /\ x \in srv.inserts
  /\ srv' = [srv EXCEPT !.inserts = @ \ {x}, !.table = @ \cup {x.event}]
  /\ clients' = [n \in DOMAIN clients |-> Stored(clients[n], x.event, srv.num[x.event])]
  /\ UNCHANGED <<sc, net, cur, ui, mods, loads, side, timerVars, acts, music>>

\* The platform drops an isolate: its approvals, numbering and INSERTs are
\* gone and its streams break.
Evict(i) ==
  /\ net.evictions > 0
  /\ net' = [net EXCEPT !.evictions = @ - 1]
  /\ srv' = [srv EXCEPT !.approvals[i] = NoItems, !.last[i] = 0, !.inserts = {x \in @ : x.isolate # i}]
  /\ clients' = [n \in DOMAIN clients |-> IF clients[n].iso = i THEN AfterError(clients[n]) ELSE clients[n]]
  /\ ui' = IF \E n \in DOMAIN clients : clients[n].iso = i THEN [ui EXCEPT !.stream = "error"] ELSE ui
  /\ UNCHANGED <<sc, cur, mods, loads, side, timerVars, acts, music>>

\* Home has just been shown: its first load and its stream are under way.  In
\* a scenario without slots everything happens between two loads.
Init ==
  /\ sc \in Scenarios
  /\ srv = [pos |-> 0, tasks |-> NoTasks, approvals |-> [i \in sc.isolates |-> NoItems], last |-> [i \in sc.isolates |-> 0],
            num |-> [k \in DOMAIN sc.script |-> 0], inserts |-> {}, table |-> {}]
  /\ net = [errors |-> sc.errors, fails |-> sc.fails, remounts |-> sc.remounts, evictions |-> sc.evictions]
  /\ clients = <<NewClient(sc.start)>> /\ cur = 1
  /\ ui = [tasks |-> NoTasks, approvals |-> NoApprovals, ceo |-> "idle", op |-> [a \in Agents |-> "idle"],
           spatial |-> [p \in People |-> "idle"], bubble |-> [p \in People |-> 0], meeting |-> FALSE, events |-> <<>>,
           loading |-> FALSE, stream |-> "connecting", project |-> sc.start, switched |-> 0,
           panel |-> [k \in {"awareness", "skills", "pipelines"} |-> "none"], pipeline |-> "none",
           gateway |-> "OPENROUTER", responding |-> "none", replies |-> <<>>]
  /\ mods = [observed |-> NoTasks, processed |-> {}, spatial |-> [p \in People |-> "idle"], handoffs |-> {},
             applied |-> [i \in DOMAIN sc.script |-> 0]]
  /\ loads = [l \in Slots |-> IF l = 1 /\ sc.slots > 0 THEN Requested(sc.start) ELSE IdleLoad]
  /\ side = {} /\ moves = {} /\ bubbleTimers = {} /\ handoffTimers = {} /\ cheers = {}
  /\ acts = [k \in DOMAIN sc.acts |-> [pc |-> "todo", i |-> 1, task |-> "none"]]
  /\ music = Silent

ServerStep ==
  \/ \E i \in sc.isolates : Publish(i) \/ Evict(i)
  \/ \E x \in srv.inserts : PersistEvent(x)

StreamStep ==
  \E n \in DOMAIN clients :
    \/ Opened(n) \/ Broken(n) \/ Reconnect(n) \/ Deliver(n) \/ PollAsked(n)
    \/ \E ok \in BOOLEAN : Answered(n, ok)

LoadStep ==
  \E l \in Slots :
    \/ StartLoad(l) \/ Mount(l) \/ SetActiveProject(l)
    \/ \E ok \in BOOLEAN : TasksAnswered(l, ok) \/ ApprovalsAnswered(l, ok) \/ FinishLoad(l, ok)

PanelStep == \E f \in side, ok \in BOOLEAN : PanelAnswered(f, ok)

TimerStep ==
  \/ \E t \in bubbleTimers : BubbleTimer(t)
  \/ \E m \in moves : MoveTimer(m)
  \/ \E t \in handoffTimers, l \in Slots : HandoffTimer(t, l)
  \/ \E c \in cheers : CheerTimer(c)

\* What the user does.
UserStep(k) ==
  \/ SubmitObjective(k) \/ ExecuteAllSteps(k) \/ ExecuteStep(k) \/ DecidePipelineCheckpoint(k)
  \/ SubmitChat(k) \/ Banter(k)
  \/ \E l \in Slots, token, org, user \in BOOLEAN : CreateNewProject(k, l, token, org, user)

\* What follows by itself.
ActStep(k) ==
  \/ \E ok, specialist, created \in BOOLEAN : CommandAnswered(k, ok, specialist, created)
  \/ \E ok, made \in BOOLEAN : StepDispatched(k, ok, made)
  \/ \E ok \in BOOLEAN : PipelineAnswered(k, ok)
  \/ \E answers \in Answers : StepCompleted(k, answers) \/ StepFailed(k, answers) \/ ModelsReplied(k, answers)
  \/ NextStep(k)
  \/ \E key \in BOOLEAN, openRouter, nineRouter \in Answers : BackendReplied(k, key, openRouter, nineRouter)
  \/ BackendFailed(k) \/ BanterLine(k)

MusicStep ==
  /\ sc.music
  /\ \/ ToggleRadioMode \/ SetVinylShuffle \/ TogglePlayVinyl \/ PlayNextVinylTrack \/ PlayPrevVinylTrack \/ TrackFinished
     \/ \E a \in Range(Albums) : SelectVinylAlbum(a)

Next ==
  \/ ServerStep \/ Unmount
  \/ StreamStep \/ LoadStep \/ PanelStep \/ TimerStep \/ MusicStep
  \/ \E k \in DOMAIN acts : UserStep(k) \/ ActStep(k)

\* Timers fire, requests and SELECTs are answered or fail, a stream opens or
\* breaks and what it has sent arrives.  Nothing forces the user, what happens
\* at the server, the INSERT of an event or a failure.
Fairness ==
  /\ WF_vars(\E l \in Slots : StartLoad(l))
  /\ \A l \in Slots : WF_vars(\E ok \in BOOLEAN : TasksAnswered(l, ok) \/ ApprovalsAnswered(l, ok) \/ FinishLoad(l, ok))
  /\ WF_vars(PanelStep)
  /\ WF_vars(\E n \in DOMAIN clients : Opened(n) \/ Reconnect(n))
  /\ WF_vars(\E n \in DOMAIN clients : Deliver(n))
  /\ WF_vars(\E n \in DOMAIN clients : PollAsked(n))
  /\ WF_vars(\E n \in DOMAIN clients, ok \in BOOLEAN : Answered(n, ok))
  /\ \A k \in 1..2 : WF_vars(k \in DOMAIN acts /\ ActStep(k))

Spec == Init /\ [][Next]_vars /\ Fairness

-----------------------------------------------------------------------------
(* Properties.                                                             *)

Phases == {"approaching", "interacting", "returning"}

\* The store, its module and the requests hold values of their types, and
\* the list of events its limit.
TypeOK ==
  /\ ui.tasks \in [Tasks -> {"none", "QUEUED", "RUNNING", "COMPLETED", "FAILED"}]
  /\ ui.approvals \in [Approvals -> {"none", "PENDING", "GRANTED", "REJECTED"}]
  /\ ui.op \in [Agents -> OperationalStates]
  /\ ui.spatial \in [People -> Phases \cup {"idle"}]
  /\ Len(ui.events) <= EventCap
  /\ ui.project \in Projects
  /\ cur \in 0..Len(clients)
  /\ mods.processed \subseteq DOMAIN sc.script
  /\ \A m \in moves : m.phase \in Phases

\* An event changes the office once, although streams that reconnect or
\* start afresh send it again and the list of events forgets it
\* (processedEventIds).
EventsTakeEffectOnce == \A i \in DOMAIN mods.applied : mods.applied[i] <= 1

\* Nobody is left standing in the office: who is away from the desk is on a
\* walk whose timers are pending or at work on a step, however walks, steps
\* and loads overlap (triggerSpatialMovement).
WalksEndAtTheDesk ==
  \A p \in People : ui.spatial[p] # "idle" =>
    \/ \E m \in moves : m.who = p
    \/ \E k \in DOMAIN acts : acts[k].pc = "think" /\ Step(k).agent = p

\* Once the server is quiet, the approvals Home shows are always the active
\* project's as some isolate lists them, in spite of late answers, failures,
\* switches, evictions and late events: with one isolate the list itself, with
\* several never a mixture, another project's or an older one.
ApprovalsConverge ==
  <>[](cur # 0 => \E i \in sc.isolates : ui.approvals = ListApprovals(srv.approvals[i], ui.project))

\* Every event of the project in the table takes effect, however streams break
\* and whichever isolate published it, except the rows whose number the stream
\* had gone past before it could read them.
StreamCatchesUp ==
  <>[](cur # 0 => \A k \in srv.table : Event(k).project = ui.project => k \in mods.processed \cup clients[cur].passed)

\* Everybody who was asked replies once, in turn, and the chat is free again.
EveryoneReplies ==
  \A k \in 1..2 :
    (k \in DOMAIN acts /\ Kind(k) = "talk" /\ acts[k].pc # "todo")
      ~> ([i \in DOMAIN ui.replies |-> ui.replies[i].by] = sc.asked /\ ui.responding = "none")

\* When the server and the people have finished, the screen comes to the state of the office: the approvals
\* shown are the project's as an isolate has them, the stream has caught up with the table but for rows behind
\* its cursor, everybody asked has replied and who is away from the desk is on the way back or at work.
ScreenConverges == ApprovalsConverge /\ StreamCatchesUp /\ EveryoneReplies /\ []WalksEndAtTheDesk
=============================================================================
