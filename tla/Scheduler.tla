----------------------------- MODULE Scheduler ------------------------------
(***************************************************************************)
(* PdlContinuousScheduler: concurrent start() and stop() calls, the loops  *)
(* they start and end, and the session objects they share.  An action is   *)
(* the stretch of a method between two awaits.  A start() call, the        *)
(* session it creates and the loop it starts carry one name.               *)
(*                                                                         *)
(* Session objects are shared by reference: sovereignSessions and          *)
(* activeSession may hold the same object, updateSession() replaces the    *)
(* object of the map by a copy.  An object is named after the call that    *)
(* allocates it.  What a cycle does to its task is in TaskLifecycle; its   *)
(* autonomy_cycles record is read by nobody here and left out.             *)
(***************************************************************************)
EXTENDS Governance, FiniteSets

CONSTANTS
  Sessions,    \* calls of start()
  Stops,       \* operators' calls of stop()
  GovRows,     \* the governance rows operators write
  PatientStart,\* start() is called when no call, and no loop, is under way
  PatientStop, \* stop() is not called while a start() is under way
  MaxChanges,  \* bound: changes of the governance row
  None

ASSUME SchedulerAssumption ==
  /\ GovRows \subseteq [level : Levels, kill : BOOLEAN, maxTasks : Nat, maxFailures : Nat]
  /\ PatientStart \in BOOLEAN /\ PatientStop \in BOOLEAN /\ MaxChanges \in Nat
  /\ Sessions \cap Stops = {} /\ None \notin Sessions \cup Stops

VARIABLES
  gov,        \* the limits the governance engine answers with
  hasWorker,  \* whether this process configured a worker
  objects,    \* the session objects
  table,      \* sovereignSessions: the object of each session
  active,     \* activeSession
  running,    \* isLoopRunning
  controller, \* abortController, named after its start()
  aborted,    \* the aborted controllers
  pc,         \* where each call and each loop is
  asked,      \* the counts a loop has passed to evaluateContinuation()
  listening,  \* the controller a sleeping loop listens to
  succeeded, failing, \* history: successes and failure streak under each start()
  late,       \* history: dispatches of a loop since it was told to stop (2: or more)
  changes

shared == << objects, table, active >>
signals == << running, controller, aborted >>
history == << succeeded, failing, late >>
vars == << gov, hasWorker, shared, signals, pc, asked, listening, history, changes >>

Calls == Sessions \cup Stops

\* Objects are allocated by createSession(), by stop() and by the loop's save.
Created(s) == << "created", s >>
StoppedBy(c) == << "stopped", c >>
Saved(s) == << "saved", s >>
Refs == { Created(s) : s \in Sessions } \cup { StoppedBy(c) : c \in Calls }
          \cup { Saved(s) : s \in Sessions }

Object == [id : Sessions, state : {"RUNNING", "BLOCKED", "COMPLETED", "FAILED", "STOPPED"},
           tasks : Nat, failures : Nat]

ASSUME NoneIsNothing == None \notin Refs /\ None \notin Object

LoopPoints == {"kill", "preGate", "recorded", "executing", "dozing", "sleeping",
               "outcome", "saved", "postGate", "stopping"}

TypeOK ==
  /\ gov \in [level : Levels, kill : BOOLEAN, maxTasks : Nat \ {0}, maxFailures : Nat \ {0}]
  /\ hasWorker \in BOOLEAN
  /\ objects \in [Refs -> Object \cup {None}]
  /\ table \in [Sessions -> Refs \cup {None}]
  /\ active \in Refs \cup {None}
  /\ running \in BOOLEAN
  /\ controller \in Sessions \cup {None} /\ aborted \subseteq Sessions
  /\ pc \in [Calls -> {"unused", "limits", "creating", "over"} \cup LoopPoints]
  /\ asked \in [Sessions -> [tasks : Nat, failures : Nat]]
  /\ listening \in [Sessions -> Sessions \cup {None}]
  /\ succeeded \in [Sessions -> Nat] /\ failing \in [Sessions -> Nat]
  /\ late \in [Sessions -> 0 .. 2] /\ changes \in Nat

Init ==
  /\ gov \in { LimitsOf(r, r.kill) : r \in GovRows }
  /\ hasWorker \in BOOLEAN
  /\ objects = [r \in Refs |-> None] /\ table = [s \in Sessions |-> None] /\ active = None
  /\ running = FALSE /\ controller = None /\ aborted = {}
  /\ pc = [c \in Calls |-> "unused"]
  /\ asked = [s \in Sessions |-> [tasks |-> 0, failures |-> 0]]
  /\ listening = [s \in Sessions |-> None]
  /\ succeeded = [s \in Sessions |-> 0] /\ failing = [s \in Sessions |-> 0]
  /\ late = [s \in Sessions |-> 0] /\ changes = 0

Goto(c, label) == pc' = [pc EXCEPT ![c] = label]

Starting(s) == pc[s] \in {"limits", "creating"}
Looping(s) == pc[s] \in LoopPoints
Busy == \E c \in Calls : pc[c] \notin {"unused", "over"}

-----------------------------------------------------------------------------
(* start() *)

\* Its guard: anything else throws CONCURRENCY_VIOLATION.
StartCall(s) ==
  /\ pc[s] = "unused"
  /\ PatientStart => ~ Busy
  /\ ~ running /\ (active # None => objects[active].state # "RUNNING")
  /\ Goto(s, "limits")
  /\ UNCHANGED << gov, hasWorker, shared, signals, asked, listening, history, changes >>

\* loadLimits() and evaluateContinuation() answered; createSession() has put
\* the object into the map.
StartDecided(s) ==
  /\ pc[s] = "limits"
  /\ objects' = [objects EXCEPT ![Created(s)] =
       [id |-> s, tasks |-> 0, failures |-> 0,
        state |-> IF EvaluateContinuation(gov, 0, 0) = "PERMITTED" THEN "RUNNING" ELSE "BLOCKED"]]
  /\ table' = [table EXCEPT ![s] = Created(s)]
  /\ Goto(s, "creating")
  /\ UNCHANGED << gov, hasWorker, active, signals, asked, listening, history, changes >>

\* createSession() returned: the loop starts, with a controller of its own.
StartFinished(s) ==
  /\ pc[s] = "creating"
  /\ active' = Created(s)
  /\ IF objects[Created(s)].state = "RUNNING"
     THEN /\ running' = TRUE /\ controller' = s /\ UNCHANGED aborted
          /\ Goto(s, "kill")
     ELSE /\ UNCHANGED signals
          /\ Goto(s, "over")
  /\ UNCHANGED << gov, hasWorker, objects, table, asked, listening, history, changes >>

-----------------------------------------------------------------------------
(* stop(), as called by an operator or by a loop *)

\* Mutant: the session is marked, nobody is signalled.
StopBegins_RecordOnly(c, state) ==
  /\ UNCHANGED signals
  /\ LET id == objects[active].id
     IN  /\ objects' = [objects EXCEPT ![StoppedBy(c)] = [objects[table[id]] EXCEPT !.state = state]]
         /\ table' = [table EXCEPT ![id] = StoppedBy(c)]
  /\ UNCHANGED active
  /\ Goto(c, "stopping")

\* Up to the await of updateSession(), which has replaced the map's object.
StopBegins(c, state) ==
  /\ running' = FALSE /\ UNCHANGED controller
  /\ aborted' = aborted \cup ({controller} \ {None})
  /\ LET id == objects[active].id
     IN  /\ objects' = [objects EXCEPT ![StoppedBy(c)] = [objects[table[id]] EXCEPT !.state = state]]
         /\ table' = [table EXCEPT ![id] = StoppedBy(c)]
  /\ UNCHANGED active
  /\ Goto(c, "stopping")

\* POST /scheduler/stop, SIGTERM.
OperatorStop(p) ==
  /\ pc[p] = "unused"
  /\ PatientStop => ~ \E s \in Sessions : Starting(s)
  /\ IF active = None
     THEN /\ running' = FALSE /\ UNCHANGED << controller, aborted, shared >>
          /\ Goto(p, "stopping")
     ELSE StopBegins(p, "STOPPED")
  /\ UNCHANGED << gov, hasWorker, asked, listening, history, changes >>

\* The operator's promise resolves; without a session there was nothing to save.
OperatorStopped(p) ==
  /\ pc[p] = "stopping"
  /\ active' = IF objects[StoppedBy(p)] = None THEN active ELSE StoppedBy(p)
  /\ Goto(p, "over")
  /\ UNCHANGED << gov, hasWorker, objects, table, signals, asked, listening, history, changes >>

\* The loop's own stop() returned: break, and start()'s finally.
LoopStopped(s) ==
  /\ pc[s] = "stopping"
  /\ active' = StoppedBy(s)
  /\ running' = FALSE
  /\ Goto(s, "over")
  /\ UNCHANGED << gov, hasWorker, objects, table, controller, aborted, asked, listening, history, changes >>

-----------------------------------------------------------------------------
(* runLoop() *)

LoopStops(s, state) ==
  /\ StopBegins(s, state)
  /\ UNCHANGED << gov, hasWorker, asked, listening, history, changes >>

\* The while condition: it looks at the CURRENT controller.
MayLoop == running /\ controller \notin aborted

\* Mutant: the loop runs until a gate ends it.
LoopHead_IgnoresSignals(s) == Goto(s, "kill") /\ UNCHANGED running

\* Back to the head of the loop, or out of it and through start()'s finally.
LoopHead(s) ==
  IF MayLoop THEN Goto(s, "kill") /\ UNCHANGED running
  ELSE Goto(s, "over") /\ running' = FALSE

\* What evaluateContinuation() is asked about.
AskGate(s) ==
  asked' = [asked EXCEPT ![s] = [tasks |-> objects[active].tasks,
                                 failures |-> objects[active].failures]]

Verdict(s) == EvaluateContinuation(gov, asked[s].tasks, asked[s].failures)

\* The kill switch, read past the cache.
KillSwitchOn(s) ==
  /\ pc[s] = "kill" /\ gov.kill
  /\ LoopStops(s, "BLOCKED")

KillSwitchOff(s) ==
  /\ pc[s] = "kill" /\ ~ gov.kill
  /\ AskGate(s)
  /\ Goto(s, "preGate")
  /\ UNCHANGED << gov, hasWorker, shared, signals, listening, history, changes >>

PreGateDenied(s) ==
  /\ pc[s] = "preGate" /\ Verdict(s) # "PERMITTED"
  /\ LoopStops(s, IF Verdict(s) = "CONSECUTIVE_TASKS_EXCEEDED" THEN "COMPLETED" ELSE "BLOCKED")

NoWorker(s) ==
  /\ pc[s] = "preGate" /\ Verdict(s) = "PERMITTED" /\ ~ hasWorker
  /\ LoopStops(s, "FAILED")

\* recordCycle() is under way.
PreGatePermitted(s) ==
  /\ pc[s] = "preGate" /\ Verdict(s) = "PERMITTED" /\ hasWorker
  /\ Goto(s, "recorded")
  /\ UNCHANGED << gov, hasWorker, shared, signals, asked, listening, history, changes >>

\* A loop is told to stop by its signals or by the kill switch.
ToldToStop == gov.kill \/ ~ MayLoop

\* worker.executeOnce() is called.
Dispatch(s) ==
  /\ pc[s] = "recorded"
  /\ late' = [late EXCEPT ![s] = IF ToldToStop THEN IF @ = 2 THEN 2 ELSE @ + 1 ELSE 0]
  /\ Goto(s, "executing")
  /\ UNCHANGED << gov, hasWorker, shared, signals, asked, listening,
                  succeeded, failing, changes >>

\* executeOnce() found nothing to claim; updateCycle() is under way.
ExecutedNothing(s) ==
  /\ pc[s] = "executing"
  /\ Goto(s, "dozing")
  /\ UNCHANGED << gov, hasWorker, shared, signals, asked, listening, history, changes >>

Succeed(object) == [object EXCEPT !.tasks = @ + 1, !.failures = 0]

\* Mutant: a failure starts a streak, and never lengthens it.
Fail_NoStreak(object) == [object EXCEPT !.failures = 1]

Fail(object) == [object EXCEPT !.failures = @ + 1]

\* executeOnce() returned, or threw: the counts of the current session move.
\* updateCycle(), and the retry or dead letter of a failure, are under way.
ExecutedTask(s) ==
  /\ pc[s] = "executing"
  /\ \/ /\ objects' = [objects EXCEPT ![active] = Succeed(@)]
        /\ succeeded' = [succeeded EXCEPT ![s] = @ + 1]
        /\ failing' = [failing EXCEPT ![s] = 0]
     \/ /\ objects' = [objects EXCEPT ![active] = Fail(@)]
        /\ failing' = [failing EXCEPT ![s] = @ + 1]
        /\ UNCHANGED succeeded
  /\ Goto(s, "outcome")
  /\ UNCHANGED << gov, hasWorker, table, active, signals, asked, listening, late, changes >>

\* interruptibleSleep() on the current controller, aborted already or not.
SleepAborted(s) ==
  /\ pc[s] = "dozing" /\ controller \in aborted
  /\ LoopStops(s, "STOPPED")

SleepBegins(s) ==
  /\ pc[s] = "dozing" /\ controller \notin aborted
  /\ listening' = [listening EXCEPT ![s] = controller]
  /\ Goto(s, "sleeping")
  /\ UNCHANGED << gov, hasWorker, shared, signals, asked, history, changes >>

SleepInterrupted(s) ==
  /\ pc[s] = "sleeping" /\ listening[s] \in aborted
  /\ LoopStops(s, "STOPPED")

\* The timer.
SleepElapses(s) ==
  /\ pc[s] = "sleeping" /\ listening[s] \notin aborted
  /\ LoopHead(s)
  /\ UNCHANGED << gov, hasWorker, shared, controller, aborted, asked, listening, history, changes >>

\* updateSession() with the counts: a new object in the map, the old one stays
\* active.
SaveSession(s) ==
  /\ pc[s] = "outcome"
  /\ LET id == objects[active].id
     IN  /\ objects' = [objects EXCEPT ![Saved(id)] =
              [objects[table[id]] EXCEPT !.tasks = objects[active].tasks,
                                         !.failures = objects[active].failures]]
         /\ table' = [table EXCEPT ![id] = Saved(id)]
  /\ Goto(s, "saved")
  /\ UNCHANGED << gov, hasWorker, active, signals, asked, listening, history, changes >>

AskPostGate(s) ==
  /\ pc[s] = "saved"
  /\ AskGate(s)
  /\ Goto(s, "postGate")
  /\ UNCHANGED << gov, hasWorker, shared, signals, listening, history, changes >>

PostGateDenied(s) ==
  /\ pc[s] = "postGate" /\ Verdict(s) # "PERMITTED"
  /\ LoopStops(s, IF Verdict(s) = "CONSECUTIVE_TASKS_EXCEEDED" THEN "COMPLETED" ELSE "FAILED")

PostGatePermitted(s) ==
  /\ pc[s] = "postGate" /\ Verdict(s) = "PERMITTED"
  /\ LoopHead(s)
  /\ UNCHANGED << gov, hasWorker, shared, controller, aborted, asked, listening, history, changes >>

-----------------------------------------------------------------------------

\* Operators rewrite the row, or the database goes away and comes back.
GovernanceChanges ==
  /\ changes < MaxChanges /\ changes' = changes + 1
  /\ gov' \in { LimitsOf(r, r.kill) : r \in GovRows } \cup {FailClosed}
  /\ gov' # gov
  /\ late' = IF gov'.kill THEN late ELSE [s \in Sessions |-> 0]
  /\ UNCHANGED << hasWorker, shared, signals, pc, asked, listening, succeeded, failing >>

StartStep(s) == StartDecided(s) \/ StartFinished(s)

LoopStep(s) ==
  \/ KillSwitchOn(s) \/ KillSwitchOff(s) \/ PreGateDenied(s) \/ NoWorker(s)
  \/ PreGatePermitted(s) \/ Dispatch(s) \/ ExecutedNothing(s) \/ ExecutedTask(s)
  \/ SleepAborted(s) \/ SleepBegins(s) \/ SleepInterrupted(s) \/ SleepElapses(s)
  \/ SaveSession(s) \/ AskPostGate(s) \/ PostGateDenied(s) \/ PostGatePermitted(s)
  \/ LoopStopped(s)

Next ==
  \/ \E s \in Sessions : StartCall(s) \/ StartStep(s) \/ LoopStep(s)
  \/ \E p \in Stops : OperatorStop(p) \/ OperatorStopped(p)
  \/ GovernanceChanges

Spec == Init /\ [][Next]_vars

\* Queries are answered, timers fire and executeOnce() returns; nobody has to
\* call start() or stop().
FairSpec ==
  /\ Spec
  /\ \A s \in Sessions : WF_vars(StartStep(s)) /\ WF_vars(LoopStep(s))
  /\ \A p \in Stops : WF_vars(OperatorStopped(p))

-----------------------------------------------------------------------------
(* Properties.  All but the last hold with patient operators. *)

\* Whenever a loop goes on to another task, the tasks it has completed and the
\* failures in a row are below the limits of that moment (a 0 in the row counts
\* as 1), whatever object activeSession is by then.
BudgetKept ==
  [][\A s \in Sessions : pc[s] = "preGate" /\ pc'[s] = "recorded" =>
       succeeded[s] < gov.maxTasks /\ failing[s] < gov.maxFailures]_vars

\* Told to stop at any point of its cycle, by stop() or by the kill switch, a
\* loop calls executeOnce() at most once more.
AtMostOneLateDispatch == \A s \in Sessions : late[s] <= 1

Quiet == \A s \in Sessions : ~ Starting(s) /\ ~ Looping(s)

\* stop(): "Gracefully requests termination of the continuous scheduler."  A
\* stop ends what is running, an idle loop that would poll for ever included.
StopTakesEffect == \A p \in Stops : pc[p] = "stopping" ~> Quiet
=============================================================================
