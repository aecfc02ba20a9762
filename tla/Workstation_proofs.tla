------------------------- MODULE Workstation_proofs -------------------------
(***************************************************************************)
(* What holds in the browser for any script of the server, any user and    *)
(* any order of timers and answers.                                        *)
(***************************************************************************)
EXTENDS Workstation, TLAPS

-----------------------------------------------------------------------------
(* The inductive invariant *)

\* Records have the fields that the steps below read and write.
Furnished(u) == "spatial" \in DOMAIN u /\ DOMAIN u.spatial = People

ModFields == {"observed", "processed", "spatial", "handoffs", "applied"}

Desks ==
  /\ Furnished(ui)
  /\ DOMAIN mods = ModFields /\ DOMAIN mods.spatial = People
  /\ \A m \in moves : DOMAIN m = {"by", "who", "phase"} /\ m.phase \in Phases
  /\ \A k \in DOMAIN acts : DOMAIN acts[k] = {"pc", "i", "task"}

\* An event that is not marked as processed has had no effect yet.
Once == \A i \in DOMAIN mods.applied : mods.applied[i] \in {0, 1} /\ (i \notin mods.processed => mods.applied[i] = 0)

OnAWalk(p, ms) == \E m \in ms : m.who = p

AtWork(p, as, steps) == \E k \in DOMAIN as : as[k].pc = "think" /\ steps[as[k].i].agent = p

\* The module's own map of places only knows of walks.
Walks == \A p \in People : mods.spatial[p] # "idle" => OnAWalk(p, moves)

Away == \A p \in People : ui.spatial[p] # "idle" => OnAWalk(p, moves) \/ AtWork(p, acts, sc.steps)

Inv == Desks /\ Once /\ Walks /\ Away

LEMMA InitIsFine == Init => Inv
<1> SUFFICES ASSUME Init PROVE Inv
  OBVIOUS
<1>1. /\ mods = [observed |-> NoTasks, processed |-> {}, spatial |-> [p \in People |-> "idle"], handoffs |-> {},
                 applied |-> [i \in DOMAIN sc.script |-> 0]]
      /\ moves = {} /\ acts = [k \in DOMAIN sc.acts |-> [pc |-> "todo", i |-> 1, task |-> "none"]]
  BY DEF Init
<1>2. "spatial" \in DOMAIN ui /\ ui.spatial = [p \in People |-> "idle"]
  BY DEF Init
<1>3. Desks
  BY <1>1, <1>2 DEF Desks, Furnished, ModFields
<1>4. Once /\ Walks /\ Away
  BY <1>1, <1>2 DEF Once, Walks, Away
<1> QED BY <1>3, <1>4 DEF Inv

-----------------------------------------------------------------------------
(* Kinds of steps *)

\* What the store shows of where people are is left alone, or a person is called back.
CalledBack(u, v) ==
  Furnished(v) /\ \A p \in People : v.spatial[p] \in {"idle", u.spatial[p]}

\* Nobody stops working.
WorkGoesOn(as, bs) ==
  /\ DOMAIN bs = DOMAIN as
  /\ \A k \in DOMAIN as : /\ DOMAIN as[k] = {"pc", "i", "task"} => DOMAIN bs[k] = {"pc", "i", "task"}
                          /\ as[k].pc = "think" => bs[k].pc = "think" /\ bs[k].i = as[k].i

Quietly == CalledBack(ui, ui') /\ UNCHANGED <<sc, moves>> /\ WorkGoesOn(acts, acts')

ModsKept ==
  DOMAIN mods' = DOMAIN mods /\ mods'.spatial = mods.spatial /\ mods'.applied = mods.applied
  /\ mods'.processed = mods.processed

LEMMA QuietlyKeeps == ASSUME Inv, Quietly, ModsKept PROVE Inv'
<1>1. Desks' /\ Once'
  BY DEF Inv, Desks, Once, Quietly, ModsKept, CalledBack, WorkGoesOn, Furnished
<1>2. Walks'
  BY DEF Inv, Walks, Quietly, ModsKept
<1>3. Away'
  <2> SUFFICES ASSUME NEW p \in People, ui'.spatial[p] # "idle"
               PROVE  OnAWalk(p, moves') \/ AtWork(p, acts', sc'.steps)
    BY DEF Away
  <2>1. ui.spatial[p] # "idle"
    BY DEF Quietly, CalledBack
  <2>2. OnAWalk(p, moves) \/ AtWork(p, acts, sc.steps)
    BY <2>1 DEF Inv, Away
  <2>3. AtWork(p, acts, sc.steps) => AtWork(p, acts', sc'.steps)
    BY DEF Quietly, WorkGoesOn, AtWork
  <2> QED BY <2>2, <2>3 DEF Quietly
<1> QED BY <1>1, <1>2, <1>3 DEF Inv

\* The parts of a step that say so little that they are said once.
LEMMA Same ==
  ASSUME Inv
  PROVE  /\ ui' = ui => CalledBack(ui, ui')
         /\ acts' = acts => WorkGoesOn(acts, acts')
         /\ mods' = mods => ModsKept
BY DEF Inv, Desks, CalledBack, WorkGoesOn, ModsKept

\* An act that is not thinking moves on.
LEMMA Moved ==
  ASSUME Inv, NEW k \in DOMAIN acts, acts[k].pc # "think",
         DOMAIN acts' = DOMAIN acts, \A j \in DOMAIN acts \ {k} : acts'[j] = acts[j],
         DOMAIN acts'[k] = {"pc", "i", "task"}
  PROVE  WorkGoesOn(acts, acts')
BY DEF Inv, Desks, WorkGoesOn

LEMMA Went ==
  ASSUME Inv, NEW k \in DOMAIN acts, acts[k].pc # "think", NEW pc, Goto(k, pc)
  PROVE  WorkGoesOn(acts, acts')
<1>1. DOMAIN acts' = DOMAIN acts /\ \A j \in DOMAIN acts \ {k} : acts'[j] = acts[j]
  BY DEF Goto
<1>2. DOMAIN acts'[k] = {"pc", "i", "task"}
  BY DEF Goto, Inv, Desks
<1> QED BY <1>1, <1>2, Moved

-----------------------------------------------------------------------------
(* The stream *)

LEMMA WithEventDesk ==
  ASSUME Furnished(ui), NEW e, NEW i, NEW v, v = WithEvent(ui, e, i)
  PROVE  Furnished(v) /\ v.spatial = ui.spatial
<1> DEFINE w == [ui EXCEPT !.events = Recorded(@, i)]
<1>1. Furnished(w) /\ w.spatial = ui.spatial
  BY DEF Furnished
<1>2. \/ v = [w EXCEPT !.approvals[e.approval] = "PENDING", !.ceo = "waiting_for_approval"]
      \/ v = [w EXCEPT !.approvals[e.approval] = "none", !.ceo = "idle"]
      \/ v = [w EXCEPT !.meeting = TRUE]
      \/ v = [w EXCEPT !.meeting = FALSE]
      \/ v = w
  BY DEF WithEvent
<1> HIDE DEF w
<1> QED BY <1>1, <1>2 DEF Furnished

LEMMA HandleKeeps ==
  ASSUME Inv, NEW i, HandleIncomingStreamEvent(i), UNCHANGED <<sc, acts>>
  PROVE  Inv'
<1>1. CASE IsKnown(i)
  BY <1>1, QuietlyKeeps, Same DEF HandleIncomingStreamEvent, Quietly
<1>2. CASE ~IsKnown(i)
  <2> DEFINE e == Event(i)
             movers == MoversOf(e)
             w == WithEvent(ui, e, i)
             new == {[by |-> i, who |-> p, phase |-> "approaching"] : p \in movers}
  <2> HIDE DEF e, movers, w
  <2>1. /\ ui' = [Speak(w, SpeakersOf(e), i) EXCEPT !.spatial = Approach(@, movers)]
        /\ mods' = [mods EXCEPT !.processed = @ \cup {i}, !.spatial = Approach(@, movers),
                                !.applied[i] = @ + 1,
                                !.handoffs = IF e.type = "AGENT_HANDOFF" THEN @ \cup movers ELSE @]
        /\ moves' = moves \cup new
    BY <1>2 DEF HandleIncomingStreamEvent, e, movers, w
  <2>2. Furnished(w) /\ w.spatial = ui.spatial
    BY WithEventDesk DEF w, Inv, Desks
  <2>3. Furnished(ui') /\ \A p \in People : ui'.spatial[p] = IF p \in movers THEN "approaching" ELSE ui.spatial[p]
    BY <2>1, <2>2 DEF Speak, Approach, Furnished
  <2>4. /\ DOMAIN mods' = ModFields /\ DOMAIN mods'.spatial = People
        /\ \A p \in People : mods'.spatial[p] = IF p \in movers THEN "approaching" ELSE mods.spatial[p]
        /\ mods'.processed = mods.processed \cup {i}
        /\ mods'.applied = [mods.applied EXCEPT ![i] = @ + 1]
    BY <2>1 DEF Inv, Desks, ModFields, Approach
  <2>5. ASSUME NEW p \in movers PROVE OnAWalk(p, moves')
    <3> DEFINE m == [by |-> i, who |-> p, phase |-> "approaching"]
    <3>1. m \in moves'
      BY <2>1
    <3>2. m.who = p
      OBVIOUS
    <3> QED BY <3>1, <3>2 DEF OnAWalk
  <2>6. \A p \in People : OnAWalk(p, moves) => OnAWalk(p, moves')
    BY <2>1 DEF OnAWalk
  <2>7. Desks'
    <3>1. \A m \in moves' : DOMAIN m = {"by", "who", "phase"} /\ m.phase \in Phases
      BY <2>1 DEF Inv, Desks, Phases
    <3> QED BY <2>3, <2>4, <3>1 DEF Inv, Desks
  <2>8. Once'
    BY <1>2, <2>4 DEF Inv, Once, IsKnown
  <2>9. Walks' /\ Away'
    BY <2>3, <2>4, <2>5, <2>6 DEF Inv, Walks, Away
  <2> QED BY <2>7, <2>8, <2>9 DEF Inv
<1> QED BY <1>1, <1>2

LEMMA StreamKeeps == ASSUME Inv, StreamStep PROVE Inv'
<1>1. PICK n \in DOMAIN clients : \/ Opened(n) \/ Broken(n) \/ Reconnect(n) \/ Deliver(n) \/ PollAsked(n)
                                  \/ \E ok \in BOOLEAN : Answered(n, ok)
  BY DEF StreamStep
<1>2. CASE Opened(n) \/ Broken(n) \/ Reconnect(n)
  <2>1. CalledBack(ui, ui')
    BY <1>2 DEF Opened, Broken, Reconnect, CalledBack, Furnished, Inv, Desks
  <2>2. UNCHANGED <<sc, moves, acts, mods>>
    BY <1>2 DEF Opened, Broken, Reconnect
  <2> QED BY <2>1, <2>2, Same, QuietlyKeeps DEF Quietly
<1>3. CASE Deliver(n)
  <2>1. \E i : HandleIncomingStreamEvent(i)
    BY <1>3 DEF Deliver
  <2>2. UNCHANGED <<sc, acts>>
    BY <1>3 DEF Deliver
  <2> QED BY <2>1, <2>2, HandleKeeps
<1>4. CASE PollAsked(n) \/ \E ok \in BOOLEAN : Answered(n, ok)
  <2>1. UNCHANGED <<sc, moves, acts, mods, ui>>
    BY <1>4 DEF PollAsked, Answered, timerVars
  <2> QED BY <2>1, Same, QuietlyKeeps DEF Quietly
<1> QED BY <1>1, <1>2, <1>3, <1>4

-----------------------------------------------------------------------------
(* Loads, panels, the record player and the server *)

LEMMA LoadKeeps == ASSUME Inv, LoadStep PROVE Inv'
<1>1. PICK l \in Slots :
        \/ StartLoad(l) \/ Mount(l) \/ SetActiveProject(l)
        \/ \E ok \in BOOLEAN : TasksAnswered(l, ok) \/ ApprovalsAnswered(l, ok) \/ FinishLoad(l, ok)
  BY DEF LoadStep
<1>2. CASE StartLoad(l) \/ \E ok \in BOOLEAN : TasksAnswered(l, ok) \/ ApprovalsAnswered(l, ok)
  <2>1. UNCHANGED <<sc, moves, acts, mods, ui>>
    BY <1>2 DEF StartLoad, TasksAnswered, ApprovalsAnswered, timerVars
  <2> QED BY <2>1, Same, QuietlyKeeps DEF Quietly
<1>3. CASE Mount(l) \/ SetActiveProject(l)
  <2>1. CalledBack(ui, ui')
    BY <1>3 DEF Mount, SetActiveProject, CalledBack, Furnished, Inv, Desks
  <2>2. UNCHANGED <<sc, moves, acts, mods>>
    BY <1>3 DEF Mount, SetActiveProject, timerVars
  <2> QED BY <2>1, <2>2, Same, QuietlyKeeps DEF Quietly
<1>4. ASSUME NEW ok \in BOOLEAN, FinishLoad(l, ok) PROVE Inv'
  <2>1. /\ ui' = [WithLoad(ui, loads[l], ok) EXCEPT !.events = Announced(@, loads[l].tasks)]
        /\ UNCHANGED <<sc, acts, moves>>
    BY <1>4 DEF FinishLoad, timerVars
  <2>2. /\ DOMAIN mods' = DOMAIN mods /\ mods'.spatial = mods.spatial /\ mods'.applied = mods.applied
        /\ mods'.processed = mods.processed
    BY <1>4 DEF FinishLoad, Inv, Desks, ModFields
  <2>3. Furnished(ui') /\ ui'.spatial = mods.spatial
    BY <2>1 DEF WithLoad, Furnished, Inv, Desks
  <2>4. Desks' /\ Once' /\ Walks'
    BY <2>1, <2>2, <2>3 DEF Inv, Desks, Once, Walks
  <2>5. Away'
    BY <2>1, <2>3 DEF Inv, Walks, Away
  <2> QED BY <2>4, <2>5 DEF Inv
<1> QED BY <1>1, <1>2, <1>3, <1>4

LEMMA PanelKeeps == ASSUME Inv, PanelStep PROVE Inv'
<1>1. PICK f \in side, ok \in BOOLEAN : PanelAnswered(f, ok)
  BY DEF PanelStep
<1>2. CalledBack(ui, ui')
  BY <1>1 DEF PanelAnswered, CalledBack, Furnished, Inv, Desks
<1>3. UNCHANGED <<sc, moves, acts, mods>>
  BY <1>1 DEF PanelAnswered, timerVars
<1> QED BY <1>2, <1>3, Same, QuietlyKeeps DEF Quietly

LEMMA MusicKeeps == ASSUME Inv, MusicStep PROVE Inv'
<1>1. \E m : Player(m)
  BY DEF MusicStep, ToggleRadioMode, SetVinylShuffle, TogglePlayVinyl, PlayNextVinylTrack, PlayPrevVinylTrack,
         TrackFinished, SelectVinylAlbum
<1>2. UNCHANGED <<sc, moves, acts, mods, ui>>
  BY <1>1 DEF Player, timerVars
<1> QED BY <1>2, Same, QuietlyKeeps DEF Quietly

LEMMA ServerKeeps == ASSUME Inv, ServerStep \/ Unmount PROVE Inv'
<1>1. \/ Unmount \/ \E i : Publish(i) \/ Evict(i)
      \/ \E x : PersistEvent(x)
  BY DEF ServerStep
<1>2. ui' = ui \/ \E status : ui' = [ui EXCEPT !.stream = status]
  BY <1>1 DEF Publish, Evict, PersistEvent, Unmount
<1>3. CalledBack(ui, ui')
  BY <1>2 DEF CalledBack, Furnished, Inv, Desks
<1>4. UNCHANGED <<sc, moves, acts, mods>>
  BY <1>1 DEF Publish, Evict, PersistEvent, Unmount, timerVars
<1> QED BY <1>3, <1>4, Same, QuietlyKeeps DEF Quietly

-----------------------------------------------------------------------------
(* Timers *)

LEMMA MoveKeeps == ASSUME Inv, NEW m, MoveTimer(m) PROVE Inv'
<1> DEFINE next == NextPhase(m.phase)
           on == [m EXCEPT !.phase = next]
<1>1. /\ m \in moves /\ DOMAIN m = {"by", "who", "phase"} /\ m.phase \in Phases
      /\ UNCHANGED <<sc, acts>>
  BY DEF MoveTimer, Inv, Desks
<1>2. next \in Phases \cup {"idle"} /\ (next = "idle" <=> LastPhase(m.phase))
  BY <1>1 DEF NextPhase, LastPhase, Phases
<1>3. /\ mods' = [mods EXCEPT !.spatial[m.who] = next] /\ ui' = [ui EXCEPT !.spatial[m.who] = next]
      /\ moves' = (moves \ {m}) \cup (IF LastPhase(m.phase) THEN {} ELSE {on})
  BY DEF MoveTimer
<1>4. DOMAIN on = {"by", "who", "phase"} /\ on.phase = next /\ on.who = m.who
  BY <1>1
<1> HIDE DEF next, on
<1>5. Furnished(ui') /\ \A p \in People : ui'.spatial[p] = IF p = m.who THEN next ELSE ui.spatial[p]
  BY <1>3 DEF Inv, Desks, Furnished
<1>6. /\ DOMAIN mods' = ModFields /\ DOMAIN mods'.spatial = People
      /\ \A p \in People : mods'.spatial[p] = IF p = m.who THEN next ELSE mods.spatial[p]
      /\ mods'.processed = mods.processed /\ mods'.applied = mods.applied
  BY <1>3 DEF Inv, Desks, ModFields
<1>7. Desks'
  <2>1. \A x \in moves' : DOMAIN x = {"by", "who", "phase"} /\ x.phase \in Phases
    BY <1>1, <1>2, <1>3, <1>4 DEF Inv, Desks
  <2> QED BY <1>1, <1>5, <1>6, <2>1 DEF Inv, Desks
<1>8. \A p \in People : p # m.who /\ OnAWalk(p, moves) => OnAWalk(p, moves')
  BY <1>3 DEF OnAWalk
<1>9. next # "idle" => OnAWalk(m.who, moves')
  BY <1>2, <1>3, <1>4 DEF OnAWalk
<1>10. Once'
  BY <1>6 DEF Inv, Once
<1>11. Walks' /\ Away'
  BY <1>1, <1>5, <1>6, <1>8, <1>9 DEF Inv, Walks, Away
<1> QED BY <1>7, <1>10, <1>11 DEF Inv

LEMMA TimerKeeps == ASSUME Inv, TimerStep PROVE Inv'
<1>1. ASSUME NEW t, BubbleTimer(t) PROVE Inv'
  <2>1. CalledBack(ui, ui')
    BY <1>1 DEF BubbleTimer, DismissSpeechBubble, CalledBack, Furnished, Inv, Desks
  <2>2. UNCHANGED <<sc, moves, acts, mods>>
    BY <1>1 DEF BubbleTimer
  <2> QED BY <2>1, <2>2, Same, QuietlyKeeps DEF Quietly
<1>2. ASSUME NEW c, CheerTimer(c) PROVE Inv'
  <2>1. CalledBack(ui, ui')
    BY <1>2 DEF CheerTimer, CalledBack, Furnished, Inv, Desks
  <2>2. UNCHANGED <<sc, moves, acts, mods>>
    BY <1>2 DEF CheerTimer
  <2> QED BY <2>1, <2>2, Same, QuietlyKeeps DEF Quietly
<1>3. ASSUME NEW t, NEW l, HandoffTimer(t, l) PROVE Inv'
  <2>1. ModsKept
    BY <1>3 DEF HandoffTimer, ModsKept, Inv, Desks, ModFields
  <2>2. UNCHANGED <<sc, moves, acts, ui>>
    BY <1>3 DEF HandoffTimer
  <2> QED BY <2>1, <2>2, Same, QuietlyKeeps DEF Quietly
<1> QED BY <1>1, <1>2, <1>3, MoveKeeps DEF TimerStep

-----------------------------------------------------------------------------
(* What the user starts *)

LEMMA SpeakDesk ==
  ASSUME NEW u, Furnished(u), NEW who, NEW id, NEW v, v = Speak(u, who, id)
  PROVE  Furnished(v) /\ v.spatial = u.spatial
BY DEF Speak, Furnished

LEMMA UserKeeps == ASSUME Inv, NEW k \in DOMAIN acts, UserStep(k) PROVE Inv'
<1>1. ASSUME NEW l, NEW token, NEW org, NEW user, CreateNewProject(k, l, token, org, user) PROVE Inv'
  <2>1. CalledBack(ui, ui')
    BY <1>1 DEF CreateNewProject, CalledBack, Furnished, Inv, Desks
  <2>2. UNCHANGED <<sc, moves, mods>>
    BY <1>1 DEF CreateNewProject, timerVars
  <2>3. WorkGoesOn(acts, acts')
    BY <1>1, Went DEF CreateNewProject
  <2> QED BY <2>1, <2>2, <2>3, Same, QuietlyKeeps DEF Quietly
<1>2. CASE SubmitObjective(k) \/ ExecuteAllSteps(k)
  <2>1. \E w : w = Speak(ui, {"chief-of-staff"}, BubbleId(k, 1)) /\ ui' = [w EXCEPT !.loading = TRUE]
    BY <1>2 DEF SubmitObjective, ExecuteAllSteps
  <2>2. CalledBack(ui, ui')
    BY <2>1, SpeakDesk DEF CalledBack, Furnished, Inv, Desks
  <2>3. UNCHANGED <<sc, moves, mods>>
    BY <1>2 DEF SubmitObjective, ExecuteAllSteps
  <2>4. WorkGoesOn(acts, acts')
    BY <1>2, Went DEF SubmitObjective, ExecuteAllSteps
  <2> QED BY <2>2, <2>3, <2>4, Same, QuietlyKeeps DEF Quietly
<1>3. CASE ExecuteStep(k) \/ DecidePipelineCheckpoint(k) \/ SubmitChat(k) \/ Banter(k)
  <2>1. CalledBack(ui, ui')
    BY <1>3 DEF ExecuteStep, DecidePipelineCheckpoint, SubmitChat, Banter, CalledBack, Furnished, Inv, Desks
  <2>2. UNCHANGED <<sc, moves, mods>>
    BY <1>3 DEF ExecuteStep, DecidePipelineCheckpoint, SubmitChat, Banter, timerVars
  <2>3. WorkGoesOn(acts, acts')
    BY <1>3, Went DEF ExecuteStep, DecidePipelineCheckpoint, SubmitChat, Banter
  <2> QED BY <2>1, <2>2, <2>3, Same, QuietlyKeeps DEF Quietly
<1> QED BY <1>1, <1>2, <1>3 DEF UserStep

-----------------------------------------------------------------------------
(* What follows by itself *)

LEMMA DispatchKeeps == ASSUME Inv, NEW k \in DOMAIN acts, NEW ok, NEW made, StepDispatched(k, ok, made) PROVE Inv'
<1> DEFINE agent == Step(k).agent
<1>1. PICK u, task : /\ Furnished(u) /\ u.spatial = ui.spatial
                     /\ ui' = [u EXCEPT !.tasks[task] = "RUNNING", !.op[agent] = ActiveState(agent),
                                         !.spatial[agent] = "interacting"]
                     /\ acts' = [acts EXCEPT ![k] = [@ EXCEPT !.pc = "think", !.task = task]]
  <2> DEFINE u == Speak(ui, {agent}, BubbleId(k, 2 * acts[k].i + 1))
             task == IF ok THEN Step(k).task ELSE Step(k).local
  <2>1. Furnished(u) /\ u.spatial = ui.spatial
    BY SpeakDesk DEF Inv, Desks
  <2>2. /\ ui' = [u EXCEPT !.tasks[task] = "RUNNING", !.op[agent] = ActiveState(agent),
                          !.spatial[agent] = "interacting"]
        /\ acts' = [acts EXCEPT ![k] = [@ EXCEPT !.pc = "think", !.task = task]]
    BY Zenon DEF StepDispatched
  <2> HIDE DEF u, task, agent
  <2> QED BY <2>1, <2>2, Zenon
<1>2. acts[k].pc = "dispatch" /\ UNCHANGED <<sc, mods, moves>>
  BY DEF StepDispatched
<1>3. /\ DOMAIN acts' = DOMAIN acts /\ acts'[k].pc = "think" /\ acts'[k].i = acts[k].i
      /\ DOMAIN acts'[k] = {"pc", "i", "task"}
      /\ \A j \in DOMAIN acts \ {k} : acts'[j] = acts[j]
  BY <1>1 DEF Inv, Desks
<1>4. sc'.steps[acts'[k].i].agent = agent
  BY <1>2, <1>3 DEF Step
<1> HIDE DEF agent
<1>5. Furnished(ui') /\ \A p \in People : p # agent => ui'.spatial[p] = ui.spatial[p]
  BY <1>1 DEF Furnished
<1>6. Desks' /\ Once' /\ Walks'
  BY <1>2, <1>3, <1>5 DEF Inv, Desks, Once, Walks
<1>7. AtWork(agent, acts', sc'.steps)
  BY <1>3, <1>4 DEF AtWork
<1>8. \A p \in People : AtWork(p, acts, sc.steps) => AtWork(p, acts', sc'.steps)
  BY <1>2, <1>3 DEF AtWork
<1>9. Away'
  BY <1>2, <1>5, <1>7, <1>8 DEF Inv, Away
<1> QED BY <1>6, <1>9 DEF Inv

\* Who has finished is at the desk, and everybody else remains excused.
LEMMA DoneKeeps ==
  ASSUME Inv, NEW k \in DOMAIN acts, NEW pc, Goto(k, pc), UNCHANGED <<sc, mods, moves>>,
         CalledBack(ui, ui'), Step(k).agent \in People => ui'.spatial[Step(k).agent] = "idle"
  PROVE  Inv'
<1>1. /\ DOMAIN acts' = DOMAIN acts /\ \A j \in DOMAIN acts \ {k} : acts'[j] = acts[j]
      /\ DOMAIN acts'[k] = {"pc", "i", "task"}
  BY DEF Goto, Inv, Desks
<1>2. Desks' /\ Once' /\ Walks'
  BY <1>1 DEF Inv, Desks, Once, Walks, CalledBack
<1>3. ASSUME NEW p \in People, ui'.spatial[p] # "idle" PROVE OnAWalk(p, moves') \/ AtWork(p, acts', sc'.steps)
  <2>1. ui.spatial[p] # "idle" /\ p # sc.steps[acts[k].i].agent
    BY <1>3 DEF CalledBack, Step
  <2>2. OnAWalk(p, moves) \/ AtWork(p, acts, sc.steps)
    BY <2>1 DEF Inv, Away
  <2>3. AtWork(p, acts, sc.steps) => AtWork(p, acts', sc'.steps)
    BY <1>1, <2>1 DEF AtWork
  <2> QED BY <2>2, <2>3
<1>4. Away'
  BY <1>3 DEF Away
<1> QED BY <1>2, <1>4 DEF Inv

LEMMA CompletedKeeps == ASSUME Inv, NEW k \in DOMAIN acts, NEW answers, StepCompleted(k, answers) PROVE Inv'
<1> DEFINE agent == Step(k).agent
<1>1. PICK w, u, said, id :
        /\ w = Speak(ui, said, id)
        /\ u = [w EXCEPT !.tasks = WithOutcome(@, acts[k].task, "COMPLETED"), !.op[agent] = "celebrating",
                         !.spatial[agent] = "idle", !.loading = FALSE]
        /\ ui' = Finished(u) \/ ui' = u
  BY DEF StepCompleted
<1>2. (\E pc : Goto(k, pc)) /\ UNCHANGED <<sc, mods, moves>>
  BY DEF StepCompleted
<1>3. Furnished(w) /\ w.spatial = ui.spatial
  BY <1>1, SpeakDesk DEF Inv, Desks
<1> HIDE DEF agent
<1>4. Furnished(u) /\ \A p \in People : u.spatial[p] = IF p = agent THEN "idle" ELSE ui.spatial[p]
  BY <1>1, <1>3 DEF Furnished
<1>5. /\ Furnished(ui')
      /\ \A p \in People : ui'.spatial[p] = u.spatial[p] \/ ui'.spatial[p] = "idle"
  <2>1. CASE ui' = u
    BY <1>4, <2>1
  <2>2. CASE ui' = Finished(u)
    BY <1>4, <2>2 DEF Finished, Furnished
  <2> QED BY <1>1, <2>1, <2>2
<1>6. CalledBack(ui, ui') /\ (agent \in People => ui'.spatial[agent] = "idle")
  BY <1>4, <1>5 DEF CalledBack
<1> QED BY <1>2, <1>6, DoneKeeps DEF agent

LEMMA FailedKeeps == ASSUME Inv, NEW k \in DOMAIN acts, NEW answers, StepFailed(k, answers) PROVE Inv'
<1> DEFINE agent == Step(k).agent
<1>1. PICK u :
        /\ u = [ui EXCEPT !.tasks = WithOutcome(@, acts[k].task, "FAILED"), !.op[agent] = "idle",
                          !.spatial[agent] = "idle", !.loading = FALSE]
        /\ ui' = Finished(u) \/ ui' = u
  BY DEF StepFailed
<1>2. (\E pc : Goto(k, pc)) /\ UNCHANGED <<sc, mods, moves>>
  BY DEF StepFailed, timerVars
<1> HIDE DEF agent
<1>4. Furnished(u) /\ \A p \in People : u.spatial[p] = IF p = agent THEN "idle" ELSE ui.spatial[p]
  BY <1>1 DEF Furnished, Inv, Desks
<1>5. /\ Furnished(ui')
      /\ \A p \in People : ui'.spatial[p] = u.spatial[p] \/ ui'.spatial[p] = "idle"
  <2>1. CASE ui' = u
    BY <1>4, <2>1
  <2>2. CASE ui' = Finished(u)
    BY <1>4, <2>2 DEF Finished, Furnished
  <2> QED BY <1>1, <2>1, <2>2
<1>6. CalledBack(ui, ui') /\ (agent \in People => ui'.spatial[agent] = "idle")
  BY <1>4, <1>5 DEF CalledBack
<1> QED BY <1>2, <1>6, DoneKeeps DEF agent

\* A reply moves the chat on and nobody's place.
LEMMA RepliedKeeps ==
  ASSUME Inv, NEW k \in DOMAIN acts, acts[k].pc # "think", NEW gateway, NEW voice, Replied(k, gateway, voice),
         UNCHANGED <<sc, mods, moves>>
  PROVE  Inv'
<1>0. PICK w, who, id, g, r, b :
        w = Speak(ui, who, id) /\ ui' = [w EXCEPT !.gateway = g, !.replies = r, !.responding = b]
  BY DEF Replied
<1>1. Furnished(w) /\ w.spatial = ui.spatial
  BY <1>0, SpeakDesk DEF Inv, Desks
<1>2. CalledBack(ui, ui')
  BY <1>0, <1>1 DEF CalledBack, Furnished
<1>3. WorkGoesOn(acts, acts')
  <2>1. DOMAIN acts' = DOMAIN acts /\ \A j \in DOMAIN acts \ {k} : acts'[j] = acts[j]
    BY DEF Replied
  <2>2. DOMAIN acts'[k] = {"pc", "i", "task"}
    BY DEF Replied, Inv, Desks
  <2> QED BY <2>1, <2>2, Moved
<1> QED BY <1>2, <1>3, Same, QuietlyKeeps DEF Quietly

LEMMA ActKeeps == ASSUME Inv, NEW k \in DOMAIN acts, ActStep(k) PROVE Inv'
<1>1. ASSUME NEW ok, NEW specialist, NEW created, CommandAnswered(k, ok, specialist, created) PROVE Inv'
  <2>1. PICK w, v, spoken, id : /\ w = Speak(ui, spoken, id) /\ v = [w EXCEPT !.loading = SpinnerAfterCommand(ok)]
                                /\ \E t, o : ui' = [v EXCEPT !.op = o, !.tasks = t]
    BY <1>1 DEF CommandAnswered
  <2>2. Furnished(w) /\ w.spatial = ui.spatial
    BY <2>1, SpeakDesk DEF Inv, Desks
  <2>3. CalledBack(ui, ui')
    BY <2>1, <2>2 DEF CalledBack, Furnished
  <2>4. UNCHANGED <<sc, moves, mods>>
    BY <1>1 DEF CommandAnswered
  <2>5. WorkGoesOn(acts, acts')
    BY <1>1, Went DEF CommandAnswered
  <2> QED BY <2>3, <2>4, <2>5, Same, QuietlyKeeps DEF Quietly
<1>2. ASSUME NEW ok, PipelineAnswered(k, ok) PROVE Inv'
  <2>1. CalledBack(ui, ui')
    BY <1>2 DEF PipelineAnswered, CalledBack, Furnished, Inv, Desks
  <2>2. UNCHANGED <<sc, moves, mods>> /\ WorkGoesOn(acts, acts')
    BY <1>2, Went DEF PipelineAnswered, timerVars
  <2> QED BY <2>1, <2>2, Same, QuietlyKeeps DEF Quietly
<1>3. ASSUME NEW answers, ModelsReplied(k, answers) PROVE Inv'
  <2>1. (\E g, v : Replied(k, g, v)) /\ acts[k].pc # "think" /\ UNCHANGED <<sc, moves, mods>>
    BY <1>3 DEF ModelsReplied, ModelsAsked
  <2> QED BY <2>1, RepliedKeeps
<1>4. ASSUME NEW key, NEW openRouter, NEW nineRouter, BackendReplied(k, key, openRouter, nineRouter) PROVE Inv'
  <2>1. (\E g, v : Replied(k, g, v)) /\ acts[k].pc # "think" /\ UNCHANGED <<sc, moves, mods>>
    BY <1>4 DEF BackendReplied
  <2> QED BY <2>1, RepliedKeeps
<1>5. CASE NextStep(k)
  <2>1. CalledBack(ui, ui')
    BY <1>5 DEF NextStep, CalledBack, Furnished, Inv, Desks
  <2>2. UNCHANGED <<sc, moves, mods>> /\ acts[k].pc # "think"
    BY <1>5 DEF NextStep, timerVars
  <2>others. DOMAIN acts' = DOMAIN acts /\ \A j \in DOMAIN acts \ {k} : acts'[j] = acts[j]
    BY <1>5 DEF NextStep
  <2>4. DOMAIN acts'[k] = {"pc", "i", "task"}
    BY <1>5 DEF NextStep, Inv, Desks
  <2> QED BY <2>1, <2>2, <2>others, <2>4, Moved, Same, QuietlyKeeps DEF Quietly
<1>6. CASE BackendFailed(k)
  <2>1. UNCHANGED <<sc, moves, mods, ui>> /\ WorkGoesOn(acts, acts')
    BY <1>6, Went DEF BackendFailed, timerVars
  <2> QED BY <2>1, Same, QuietlyKeeps DEF Quietly
<1>7. CASE BanterLine(k)
  <2>1. PICK agent, id : ui' = Speak(ui, {agent}, id)
    BY <1>7 DEF BanterLine
  <2>2. CalledBack(ui, ui')
    BY <2>1, SpeakDesk DEF CalledBack, Inv, Desks
  <2>3. UNCHANGED <<sc, moves, mods>> /\ acts[k].pc # "think"
    BY <1>7 DEF BanterLine
  <2>4. DOMAIN acts' = DOMAIN acts /\ \A j \in DOMAIN acts \ {k} : acts'[j] = acts[j]
    BY <1>7 DEF BanterLine
  <2>5. DOMAIN acts'[k] = {"pc", "i", "task"}
    BY <1>7 DEF BanterLine, Inv, Desks
  <2> QED BY <2>2, <2>3, <2>4, <2>5, Moved, Same, QuietlyKeeps DEF Quietly
<1> QED BY <1>1, <1>2, <1>3, <1>4, <1>5, <1>6, <1>7, DispatchKeeps, CompletedKeeps, FailedKeeps DEF ActStep

-----------------------------------------------------------------------------
(* Theorems *)

LEMMA NextKeeps == Inv /\ [Next]_vars => Inv'
<1> SUFFICES ASSUME Inv, [Next]_vars PROVE Inv'
  OBVIOUS
<1>1. CASE UNCHANGED vars
  <2>1. UNCHANGED <<sc, moves, acts, mods, ui>>
    BY <1>1 DEF vars
  <2> QED BY <2>1, Same, QuietlyKeeps DEF Quietly
<1>2. ASSUME NEW k \in DOMAIN acts, UserStep(k) \/ ActStep(k) PROVE Inv'
  BY <1>2, UserKeeps, ActKeeps
<1> QED BY <1>1, <1>2, ServerKeeps, StreamKeeps, LoadKeeps, PanelKeeps, TimerKeeps, MusicKeeps DEF Next

\* Of the browser, in every reachable state.
THEOREM Invariance == Spec => []Inv
BY InitIsFine, NextKeeps, PTL DEF Spec

\* Each event of a stream changes the office at most once, whatever is sent again.
THEOREM OnceAndForAll == Spec => []EventsTakeEffectOnce
<1>1. Inv => EventsTakeEffectOnce
  BY DEF Inv, Once, EventsTakeEffectOnce
<1> QED BY <1>1, Invariance, PTL

\* Whoever is away from the desk is on a walk that ends or at work on a step that ends.
THEOREM NobodyIsLeftStanding == Spec => []WalksEndAtTheDesk
<1>1. Inv => WalksEndAtTheDesk
  BY DEF Inv, Away, OnAWalk, AtWork, Step, WalksEndAtTheDesk
<1> QED BY <1>1, Invariance, PTL
=============================================================================
