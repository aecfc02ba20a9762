------------------------- MODULE Governance_proofs --------------------------
(***************************************************************************)
(* What the continuous scheduler promises operators who start it only when *)
(* nothing is under way, for any number of sessions and stop() calls and   *)
(* every change of the governance row; and how long an obstacle may go     *)
(* unnoticed by the gates, for any number of processes, callers and        *)
(* operators, and any cache lifetime.                                      *)
(***************************************************************************)
EXTENDS Scheduler, GovernanceCache, TLAPS

Labels == {"unused", "limits", "creating", "over"} \cup LoopPoints

Underway(s) == Starting(s) \/ Looping(s)

\* One loop at a time, started by StartFinished alone.
LoopInv ==
  /\ pc \in [Calls -> Labels]
  /\ \A s, t \in Sessions : Underway(s) /\ Underway(t) => s = t

\* One start() at a time leaves one loop at a time.
LEMMA LoopStep_OneLoop ==
  ASSUME PatientStart, LoopInv, [Next]_vars
  PROVE  LoopInv'
<1> USE DEF LoopInv, Labels, LoopPoints, Underway, Starting, Looping
<1>1. ASSUME NEW c \in Calls, NEW l \in Labels \ {"limits"}, Goto(c, l),
             c \in Sessions => pc[c] \notin {"unused", "over"}
      PROVE  LoopInv'
  BY <1>1 DEF Goto
<1>2. ASSUME UNCHANGED pc PROVE LoopInv'
  BY <1>2
<1>3. ASSUME NEW s \in Sessions, StartCall(s) PROVE LoopInv'
  <2>1. ~ Busy /\ Goto(s, "limits")
    BY <1>3 DEF StartCall
  <2>2. \A t \in Sessions : ~ Underway(t)
    BY <2>1 DEF Busy, Calls
  <2>3. pc' = [pc EXCEPT ![s] = "limits"]
    BY <2>1 DEF Goto
  <2> QED BY <2>2, <2>3 DEF Calls
<1>4. ASSUME NEW s \in Sessions, StartStep(s) PROVE LoopInv'
  BY <1>1, <1>4 DEF StartStep, StartDecided, StartFinished, Calls
<1>5. ASSUME NEW s \in Sessions, LoopStep(s) PROVE LoopInv'
  <2>1. s \in Calls /\ pc[s] \in LoopPoints
    BY <1>5 DEF LoopStep, KillSwitchOn, KillSwitchOff, PreGateDenied, NoWorker,
                PreGatePermitted, Dispatch, ExecutedNothing, ExecutedTask, SleepAborted,
                SleepBegins, SleepInterrupted, SleepElapses, SaveSession, AskPostGate,
                PostGateDenied, PostGatePermitted, LoopStopped, Calls
  <2>2. \E l \in LoopPoints \cup {"over"} : Goto(s, l)
    BY <1>5 DEF LoopStep, KillSwitchOn, KillSwitchOff, PreGateDenied, NoWorker,
                PreGatePermitted, Dispatch, ExecutedNothing, ExecutedTask, SleepAborted,
                SleepBegins, SleepInterrupted, SleepElapses, SaveSession, AskPostGate,
                PostGateDenied, PostGatePermitted, LoopStopped, LoopStops, StopBegins,
                LoopHead
  <2> QED BY <1>1, <2>1, <2>2
<1>6. ASSUME NEW p \in Stops, OperatorStop(p) \/ OperatorStopped(p) PROVE LoopInv'
  <2>1. p \in Calls /\ p \notin Sessions
    BY SchedulerAssumption DEF Calls
  <2>2. Goto(p, "stopping") \/ Goto(p, "over")
    BY <1>6 DEF OperatorStop, OperatorStopped, StopBegins
  <2> QED BY <1>1, <2>1, <2>2
<1>7. ASSUME GovernanceChanges \/ UNCHANGED vars PROVE LoopInv'
  BY <1>2, <1>7 DEF GovernanceChanges, vars
<1> QED BY <1>3, <1>4, <1>5, <1>6, <1>7 DEF Next

\* A loop that dispatched late is told to stop for good, by the signals or by
\* the kill switch, and is past the points that lead to another dispatch.
LateInv ==
  /\ late \in [Sessions -> {0, 1}]
  /\ \A s \in Sessions : late[s] = 1 =>
       /\ pc[s] \notin {"unused", "limits", "creating", "preGate", "recorded"}
       /\ pc[s] = "kill" => gov.kill
       /\ Looping(s) => gov.kill \/ ~ MayLoop

\* Nothing but the start of a loop takes the signals back.
LEMMA SignalsLast ==
  ASSUME [Next]_vars, \A s \in Sessions : ~ StartFinished(s), ~ MayLoop
  PROVE  ~ MayLoop'
<1>1. running' = FALSE \/ UNCHANGED << running, controller, aborted >>
  BY DEF Next, StartCall, StartStep, StartDecided, LoopStep, KillSwitchOn, KillSwitchOff,
         PreGateDenied, NoWorker, PreGatePermitted, Dispatch, ExecutedNothing,
         ExecutedTask, SleepAborted, SleepBegins, SleepInterrupted, SleepElapses,
         SaveSession, AskPostGate, PostGateDenied, PostGatePermitted, LoopStopped,
         LoopStops, StopBegins, LoopHead, OperatorStop, OperatorStopped,
         GovernanceChanges, vars, signals
<1> QED BY <1>1 DEF MayLoop

\* What a step of a loop does to its place, and to the history of late
\* dispatches.
LEMMA LateLoopStep ==
  ASSUME LoopInv, LateInv, NEW s \in Sessions, LoopStep(s)
  PROVE  LateInv'
<1> USE DEF LoopInv, Labels, LoopPoints
<1>1. s \in Calls /\ pc[s] \in LoopPoints
  BY DEF LoopStep, KillSwitchOn, KillSwitchOff, PreGateDenied, NoWorker,
         PreGatePermitted, Dispatch, ExecutedNothing, ExecutedTask, SleepAborted,
         SleepBegins, SleepInterrupted, SleepElapses, SaveSession, AskPostGate,
         PostGateDenied, PostGatePermitted, LoopStopped, Calls
<1>2. UNCHANGED gov
  BY DEF LoopStep, KillSwitchOn, KillSwitchOff, PreGateDenied, NoWorker,
         PreGatePermitted, Dispatch, ExecutedNothing, ExecutedTask, SleepAborted,
         SleepBegins, SleepInterrupted, SleepElapses, SaveSession, AskPostGate,
         PostGateDenied, PostGatePermitted, LoopStopped, LoopStops
<1>3. ~ MayLoop => ~ MayLoop'
  <2>1. [Next]_vars
    BY DEF Next
  <2>2. \A t \in Sessions : ~ StartFinished(t)
    <3> SUFFICES ASSUME NEW t \in Sessions, StartFinished(t) PROVE FALSE
      OBVIOUS
    <3>1. pc[t] = "creating" /\ t # s /\ pc'[t] # "creating"
      BY <1>1 DEF StartFinished, Goto, Calls
    <3>2. \E l : Goto(s, l)
      BY DEF LoopStep, KillSwitchOn, KillSwitchOff, PreGateDenied, NoWorker,
             PreGatePermitted, Dispatch, ExecutedNothing, ExecutedTask, SleepAborted,
             SleepBegins, SleepInterrupted, SleepElapses, SaveSession, AskPostGate,
             PostGateDenied, PostGatePermitted, LoopStopped, LoopStops, StopBegins,
             LoopHead
    <3> QED BY <1>1, <3>1, <3>2 DEF Goto, Calls
  <2> QED BY <2>1, <2>2, SignalsLast
<1>4. ASSUME NEW l \in Labels \ {"preGate", "recorded", "unused", "limits", "creating"},
             Goto(s, l), UNCHANGED late,
             l = "kill" => MayLoop
      PROVE  LateInv'
  <2>1. pc' = [pc EXCEPT ![s] = l]
    BY <1>4 DEF Goto
  <2>2. \A t \in Sessions : t # s => pc'[t] = pc[t]
    BY <2>1, <1>1
  <2>3. pc'[s] = l
    BY <2>1, <1>1
  <2> QED BY <1>1, <1>2, <1>3, <1>4, <2>2, <2>3 DEF LateInv, Looping
<1>5. CASE KillSwitchOff(s)
  <2>1. late[s] = 0 /\ Goto(s, "preGate") /\ UNCHANGED late
    BY <1>5 DEF KillSwitchOff, LateInv, history
  <2> QED BY <1>1, <1>2, <1>3, <2>1 DEF LateInv, Looping, Goto
<1>6. CASE PreGatePermitted(s)
  <2>1. late[s] = 0 /\ Goto(s, "recorded") /\ UNCHANGED late
    BY <1>6 DEF PreGatePermitted, LateInv, history
  <2> QED BY <1>1, <1>2, <1>3, <2>1 DEF LateInv, Looping, Goto
<1>7. CASE Dispatch(s)
  <2>1. late[s] = 0 /\ Goto(s, "executing") /\ UNCHANGED MayLoop
    BY <1>7 DEF Dispatch, LateInv, MayLoop, signals
  <2>2. late' = [late EXCEPT ![s] = IF ToldToStop THEN 1 ELSE 0]
    BY <1>7, <2>1 DEF Dispatch, LateInv
  <2> QED BY <1>1, <1>2, <1>3, <2>1, <2>2 DEF LateInv, Looping, Goto, ToldToStop
<1>8. CASE KillSwitchOn(s) \/ PreGateDenied(s) \/ NoWorker(s) \/ SleepAborted(s)
             \/ SleepInterrupted(s) \/ PostGateDenied(s)
  BY <1>4, <1>8 DEF KillSwitchOn, PreGateDenied, NoWorker, SleepAborted,
     SleepInterrupted, PostGateDenied, LoopStops, StopBegins, history
<1>9. CASE SleepElapses(s) \/ PostGatePermitted(s)
  BY <1>4, <1>9 DEF SleepElapses, PostGatePermitted, LoopHead, history
<1>10. CASE ExecutedNothing(s) \/ ExecutedTask(s) \/ SleepBegins(s) \/ SaveSession(s)
              \/ AskPostGate(s) \/ LoopStopped(s)
  BY <1>4, <1>10 DEF ExecutedNothing, ExecutedTask, SleepBegins, SaveSession,
     AskPostGate, LoopStopped, history
<1> QED BY <1>5, <1>6, <1>7, <1>8, <1>9, <1>10 DEF LoopStep

LEMMA LateStep ==
  ASSUME LoopInv, LateInv, [Next]_vars
  PROVE  LateInv'
<1> USE DEF LoopInv, Labels, LoopPoints
<1>1. ASSUME NEW c \in Calls, NEW l \in {"unused", "limits", "creating", "over", "stopping"},
             Goto(c, l), c \in Sessions => pc[c] \in {"unused", "limits", "creating"},
             UNCHANGED << late, gov >>, ~ MayLoop => ~ MayLoop'
      PROVE  LateInv'
  <2>1. pc' = [pc EXCEPT ![c] = l]
    BY <1>1 DEF Goto
  <2>2. \A t \in Sessions : t # c => pc'[t] = pc[t]
    BY <2>1
  <2>3. c \in Sessions => late[c] = 0
    BY <1>1 DEF LateInv
  <2> QED BY <1>1, <2>2, <2>3 DEF LateInv, Looping
<1>2. CASE UNCHANGED vars
  BY <1>2 DEF LateInv, Looping, MayLoop, vars, history, signals
<1>3. ASSUME NEW s \in Sessions, StartCall(s) \/ StartDecided(s) PROVE LateInv'
  BY <1>1, <1>3 DEF StartCall, StartDecided, Calls, MayLoop, history, signals
<1>4. ASSUME NEW s \in Sessions, StartFinished(s) PROVE LateInv'
  <2>1. /\ pc[s] = "creating" /\ late[s] = 0
        /\ \A t \in Sessions : t # s => ~ Looping(t)
        /\ UNCHANGED << gov, late >>
    BY <1>4 DEF StartFinished, LateInv, Underway, Starting, history
  <2>2. Goto(s, "kill") \/ Goto(s, "over")
    BY <1>4 DEF StartFinished
  <2>3. \A t \in Sessions : t # s => pc'[t] = pc[t]
    BY <2>2 DEF Goto, Calls
  <2> QED BY <2>1, <2>3 DEF LateInv, Looping
<1>5. ASSUME NEW s \in Sessions, LoopStep(s) PROVE LateInv'
  BY <1>5, LateLoopStep
<1>6. ASSUME NEW p \in Stops, OperatorStop(p) \/ OperatorStopped(p) PROVE LateInv'
  <2>1. p \in Calls /\ p \notin Sessions
    BY SchedulerAssumption DEF Calls
  <2>2. Goto(p, "stopping") \/ Goto(p, "over")
    BY <1>6 DEF OperatorStop, OperatorStopped, StopBegins
  <2>3. UNCHANGED << gov, late >>
    BY <1>6 DEF OperatorStop, OperatorStopped, history
  <2>4. ~ MayLoop => ~ MayLoop'
    BY <1>6 DEF OperatorStop, OperatorStopped, StopBegins, MayLoop, signals
  <2> QED BY <1>1, <2>1, <2>2, <2>3, <2>4
<1>7. CASE GovernanceChanges
  <2>1. UNCHANGED << pc, signals >>
    BY <1>7 DEF GovernanceChanges
  <2>2. CASE gov'.kill
    BY <1>7, <2>1, <2>2 DEF GovernanceChanges, LateInv, Looping, MayLoop, signals
  <2>3. CASE ~ gov'.kill
    <3>1. late' = [s \in Sessions |-> 0]
      BY <1>7, <2>3 DEF GovernanceChanges
    <3> QED BY <3>1 DEF LateInv
  <2> QED BY <2>2, <2>3
<1> QED BY <1>2, <1>3, <1>4, <1>5, <1>6, <1>7 DEF Next, StartStep

\* Told to stop, by stop() or by the kill switch, a loop calls executeOnce() at
\* most once more, however many sessions, stops and governance changes there
\* are, if start() is only called when nothing is under way.
THEOREM OneLateDispatch ==
  ASSUME PatientStart
  PROVE  Spec => []AtMostOneLateDispatch
<1>1. Init => LoopInv /\ LateInv
  BY DEF Init, LoopInv, LateInv, Labels, Underway, Starting, Looping, LoopPoints, Calls
<1>2. LoopInv /\ LateInv /\ [Next]_vars => LoopInv' /\ LateInv'
  BY PatientStart, LoopStep_OneLoop, LateStep
<1>3. LateInv => AtMostOneLateDispatch
  BY DEF LateInv, AtMostOneLateDispatch
<1> QED BY <1>1, <1>2, <1>3, PTL DEF Spec

-----------------------------------------------------------------------------
(* The session objects *)

\* Every reference the scheduler follows leads to an object of the session it
\* is followed for.
StoreInv ==
  /\ TypeOK
  /\ \A r \in Refs : objects[r] \in Object => table[objects[r].id] \in Refs
  /\ \A s \in Sessions : table[s] \in Refs =>
       objects[table[s]] \in Object /\ objects[table[s]].id = s
  /\ active \in Refs => objects[active] \in Object
  /\ \A c \in Calls : objects[StoppedBy(c)] \in Object => pc[c] \in {"stopping", "over"}
  /\ \A s \in Sessions : \A r \in {Created(s), Saved(s)} :
       objects[r] \in Object => objects[r].id = s
  /\ \A s \in Sessions :
       /\ Looping(s) => active \in Refs
       /\ pc[s] = "stopping" => objects[StoppedBy(s)] \in Object
       /\ pc[s] = "creating" => objects[Created(s)] \in Object

\* An object is written only with the identity of its session.
LEMMA WriteObject ==
  ASSUME StoreInv, NEW r \in Refs, NEW o \in Object,
         objects' = [objects EXCEPT ![r] = o],
         objects[r] \in Object => objects[r].id = o.id,
         \/ table' = [table EXCEPT ![o.id] = r]
         \/ UNCHANGED table /\ table[o.id] \in Refs
  PROVE  /\ objects' \in [Refs -> Object \cup {None}]
         /\ table' \in [Sessions -> Refs \cup {None}]
         /\ objects'[r] = o /\ \A q \in Refs \ {r} : objects'[q] = objects[q]
         /\ \A q \in Refs : objects[q] \in Object => objects'[q] \in Object
         /\ \A q \in Refs : objects'[q] \in Object => table'[objects'[q].id] \in Refs
         /\ \A s \in Sessions : table'[s] \in Refs =>
              objects'[table'[s]] \in Object /\ objects'[table'[s]].id = s
<1>1. o.id \in Sessions
  BY DEF Object
<1>2. /\ objects \in [Refs -> Object \cup {None}]
      /\ table \in [Sessions -> Refs \cup {None}]
  BY DEF StoreInv, TypeOK
<1>3. /\ objects' \in [Refs -> Object \cup {None}]
      /\ table' \in [Sessions -> Refs \cup {None}]
      /\ objects'[r] = o /\ \A q \in Refs \ {r} : objects'[q] = objects[q]
  BY <1>1, <1>2
<1>4. \A q \in Refs : objects[q] \in Object => objects'[q] \in Object
  BY <1>3
<1>5. /\ table'[o.id] \in Refs
      /\ \A s \in Sessions : table[s] \in Refs => table'[s] \in Refs
      /\ \A s \in Sessions : table'[s] = table[s] \/ (s = o.id /\ table'[s] = r)
  BY <1>1, <1>2
<1>6. ASSUME NEW q \in Refs, objects'[q] \in Object
      PROVE  table'[objects'[q].id] \in Refs
  <2>1. CASE q = r
    BY <1>3, <1>5, <2>1
  <2>2. CASE q # r
    <3>1. objects'[q] = objects[q] /\ objects[q].id \in Sessions
      BY <1>3, <1>6, <2>2 DEF Object
    <3> QED BY <1>5, <1>6, <3>1 DEF StoreInv
  <2> QED BY <2>1, <2>2
<1>7. ASSUME NEW s \in Sessions, table'[s] \in Refs
      PROVE  objects'[table'[s]] \in Object /\ objects'[table'[s]].id = s
  <2>1. CASE table'[s] = r /\ s = o.id
    BY <1>3, <2>1
  <2>2. CASE table'[s] = table[s]
    <3>1. objects[table[s]] \in Object /\ objects[table[s]].id = s
      BY <1>7, <2>2 DEF StoreInv
    <3> QED BY <1>3, <1>7, <2>2, <3>1
  <2> QED BY <1>5, <2>1, <2>2
<1> QED BY <1>3, <1>4, <1>6, <1>7

LEMMA RefsDiffer ==
  ASSUME NEW s \in Sessions, NEW c \in Calls
  PROVE  /\ Created(s) \in Refs /\ Saved(s) \in Refs /\ StoppedBy(c) \in Refs
         /\ Created(s) # Saved(s) /\ Created(s) # StoppedBy(c) /\ Saved(s) # StoppedBy(c)
         /\ \A t \in Sessions :
              t # s => Created(t) # Created(s) /\ Saved(t) # Saved(s)
         /\ \A d \in Calls : d # c => StoppedBy(d) # StoppedBy(c)
BY DEF Created, Saved, StoppedBy, Refs

\* The object stop() is about to copy.
LEMMA StoredObject ==
  ASSUME StoreInv, active \in Refs
  PROVE  /\ objects[active] \in Object /\ objects[active].id \in Sessions
         /\ table[objects[active].id] \in Refs
         /\ objects[table[objects[active].id]] \in Object
         /\ objects[table[objects[active].id]].id = objects[active].id
BY DEF StoreInv, Object

SessionStates == {"RUNNING", "BLOCKED", "COMPLETED", "FAILED", "STOPPED"}

\* stop() puts a copy of the object in the map into its place.
LEMMA StopStore ==
  ASSUME StoreInv, active \in Refs, NEW c \in Calls, NEW state \in SessionStates,
         StopBegins(c, state), pc[c] \notin {"stopping", "over"}
  PROVE  /\ objects[StoppedBy(c)] \notin Object /\ StoppedBy(c) \in Refs
         /\ \E o \in Object :
              /\ o.id = objects[active].id
              /\ o.tasks = objects[table[o.id]].tasks
              /\ o.failures = objects[table[o.id]].failures
              /\ objects' = [objects EXCEPT ![StoppedBy(c)] = o]
              /\ table' = [table EXCEPT ![o.id] = StoppedBy(c)]
<1> DEFINE id == objects[active].id
           o == [objects[table[id]] EXCEPT !.state = state]
<1>1. id \in Sessions /\ objects[table[id]] \in Object /\ objects[table[id]].id = id
  BY StoredObject
<1>2. /\ o \in Object /\ o.id = id
      /\ o.tasks = objects[table[id]].tasks /\ o.failures = objects[table[id]].failures
  BY <1>1 DEF Object, SessionStates
<1>3. /\ objects' = [objects EXCEPT ![StoppedBy(c)] = o]
      /\ table' = [table EXCEPT ![id] = StoppedBy(c)]
  BY DEF StopBegins
<1>4. objects[StoppedBy(c)] \notin Object /\ StoppedBy(c) \in Refs
  BY DEF StoreInv, Refs
<1> HIDE DEF o
<1> QED BY <1>1, <1>2, <1>3, <1>4

\* The counts a finished task leaves.
LEMMA CountedObject ==
  ASSUME NEW o \in Object
  PROVE  /\ Succeed(o) \in Object /\ Succeed(o).id = o.id
         /\ Succeed(o).tasks = o.tasks + 1 /\ Succeed(o).failures = 0
         /\ Fail(o) \in Object /\ Fail(o).id = o.id
         /\ Fail(o).tasks = o.tasks /\ Fail(o).failures = o.failures + 1
<1>1. o.id \in Sessions /\ o.tasks \in Nat /\ o.failures \in Nat
  BY DEF Object
<1>2. Succeed(o) \in Object /\ Succeed(o).id = o.id
  <2> DEFINE p == [o EXCEPT !.tasks = o.tasks + 1]
  <2>1. p \in Object /\ p.id = o.id
    BY <1>1 DEF Object
  <2>2. Succeed(o) = [p EXCEPT !.failures = 0]
    BY DEF Succeed
  <2> HIDE DEF p
  <2> QED BY <2>1, <2>2 DEF Object
<1>3. Succeed(o).tasks = o.tasks + 1 /\ Succeed(o).failures = 0
  BY DEF Object, Succeed
<1>4. Fail(o) \in Object /\ Fail(o).id = o.id
  BY <1>1 DEF Object, Fail
<1>5. Fail(o).tasks = o.tasks /\ Fail(o).failures = o.failures + 1
  BY DEF Object, Fail
<1> QED BY <1>2, <1>3, <1>4, <1>5

LEMMA TypeStep ==
  ASSUME StoreInv, [Next]_vars
  PROVE  TypeOK'
<1> USE DEF history, shared, signals
<1>1. TypeOK
  BY DEF StoreInv
<1>2. ASSUME NEW c \in Calls,
             NEW l \in {"limits", "creating", "over"} \cup LoopPoints, Goto(c, l)
      PROVE  pc' \in [Calls -> {"unused", "limits", "creating", "over"} \cup LoopPoints]
  BY <1>1, <1>2 DEF TypeOK, Goto
<1>3. ASSUME NEW c \in Calls, NEW state \in SessionStates, StopBegins(c, state),
             active \in Refs, pc[c] \notin {"stopping", "over"},
             UNCHANGED << gov, hasWorker, asked, listening, history, changes >>
      PROVE  TypeOK'
  <2>1. pc' \in [Calls -> {"unused", "limits", "creating", "over"} \cup LoopPoints]
    BY <1>2, <1>3 DEF StopBegins, LoopPoints
  <2>2. /\ objects' \in [Refs -> Object \cup {None}]
        /\ table' \in [Sessions -> Refs \cup {None}]
    <3>1. PICK o \in Object :
                 /\ objects' = [objects EXCEPT ![StoppedBy(c)] = o]
                 /\ table' = [table EXCEPT ![o.id] = StoppedBy(c)]
      BY <1>3, StopStore
    <3>2. StoppedBy(c) \in Refs /\ o.id \in Sessions
      BY DEF Refs, Object
    <3> QED BY <1>1, <3>1, <3>2 DEF TypeOK
  <2>3. running' \in BOOLEAN /\ aborted' \subseteq Sessions /\ UNCHANGED << controller, active >>
    BY <1>1, <1>3 DEF StopBegins, TypeOK
  <2> QED BY <1>1, <1>3, <2>1, <2>2, <2>3 DEF TypeOK
<1>4. ASSUME NEW s \in Sessions, StartCall(s) PROVE TypeOK'
  <2>1. s \in Calls
    BY DEF Calls
  <2> QED BY <1>1, <1>2, <1>4, <2>1 DEF StartCall, TypeOK
<1>5. ASSUME NEW s \in Sessions, StartDecided(s) PROVE TypeOK'
  <2> DEFINE o == [id |-> s, tasks |-> 0, failures |-> 0,
                   state |-> IF EvaluateContinuation(gov, 0, 0) = "PERMITTED"
                             THEN "RUNNING" ELSE "BLOCKED"]
  <2>1. s \in Calls /\ Created(s) \in Refs /\ o \in Object
    BY RefsDiffer DEF Calls, Object
  <2>2. /\ objects' = [objects EXCEPT ![Created(s)] = o]
        /\ table' = [table EXCEPT ![s] = Created(s)]
        /\ Goto(s, "creating")
        /\ UNCHANGED << gov, hasWorker, active, signals, asked, listening, history, changes >>
    BY <1>5 DEF StartDecided
  <2> HIDE DEF o
  <2>3. pc' \in [Calls -> {"unused", "limits", "creating", "over"} \cup LoopPoints]
    BY <1>2, <2>1, <2>2
  <2> QED BY <1>1, <2>1, <2>2, <2>3 DEF TypeOK
<1>6. ASSUME NEW s \in Sessions, StartFinished(s) PROVE TypeOK'
  <2>1. s \in Calls /\ Created(s) \in Refs
    BY RefsDiffer DEF Calls
  <2>2. pc' \in [Calls -> {"unused", "limits", "creating", "over"} \cup LoopPoints]
    BY <1>2, <1>6, <2>1 DEF StartFinished, LoopPoints
  <2>3. running' \in BOOLEAN /\ aborted' = aborted /\ controller' \in {s, controller}
    BY <1>1, <1>6 DEF StartFinished, TypeOK
  <2> QED BY <1>1, <1>6, <2>1, <2>2, <2>3 DEF StartFinished, TypeOK
<1>7. ASSUME NEW p \in Stops, OperatorStop(p) PROVE TypeOK'
  <2>1. p \in Calls /\ "STOPPED" \in SessionStates
    BY DEF Calls, SessionStates
  <2>2. CASE active = None
    <3>1. pc' \in [Calls -> {"unused", "limits", "creating", "over"} \cup LoopPoints]
      BY <1>2, <1>7, <2>1, <2>2 DEF OperatorStop, LoopPoints
    <3> QED BY <1>1, <1>7, <2>2, <3>1 DEF OperatorStop, TypeOK
  <2>3. CASE active # None
    <3>1. active \in Refs
      BY <1>1, <2>3 DEF TypeOK
    <3> QED BY <1>3, <1>7, <2>1, <2>3, <3>1 DEF OperatorStop
  <2> QED BY <2>2, <2>3
<1>8. ASSUME NEW p \in Stops, OperatorStopped(p) PROVE TypeOK'
  <2>1. p \in Calls /\ StoppedBy(p) \in Refs
    BY DEF Calls, Refs
  <2>2. pc' \in [Calls -> {"unused", "limits", "creating", "over"} \cup LoopPoints]
    BY <1>2, <1>8, <2>1 DEF OperatorStopped
  <2> QED BY <1>1, <1>8, <2>1, <2>2 DEF OperatorStopped, TypeOK
<1>9. ASSUME GovernanceChanges PROVE TypeOK'
  <2>1. \A r \in GovRows : LimitsOf(r, r.kill) \in
          [level : Levels, kill : BOOLEAN, maxTasks : Nat \ {0}, maxFailures : Nat \ {0}]
    BY SchedulerAssumption DEF LimitsOf, OrDefault, FailClosed
  <2>2. FailClosed \in
          [level : Levels, kill : BOOLEAN, maxTasks : Nat \ {0}, maxFailures : Nat \ {0}]
    BY DEF FailClosed, Levels
  <2> QED BY <1>1, <1>9, <2>1, <2>2 DEF GovernanceChanges, TypeOK
<1>10. CASE UNCHANGED vars
  BY <1>1, <1>10 DEF TypeOK, vars
<1>11. ASSUME NEW s \in Sessions, LoopStep(s) PROVE TypeOK'
  <2>1. s \in Calls /\ Looping(s) /\ active \in Refs
    BY <1>11 DEF StoreInv, Looping, LoopPoints, LoopStep, KillSwitchOn, KillSwitchOff,
                 PreGateDenied, NoWorker, PreGatePermitted, Dispatch, ExecutedNothing,
                 ExecutedTask, SleepAborted, SleepBegins, SleepInterrupted, SleepElapses,
                 SaveSession, AskPostGate, PostGateDenied, PostGatePermitted,
                 LoopStopped, Calls
  <2>2. /\ objects[active] \in Object /\ objects[active].id \in Sessions
        /\ table[objects[active].id] \in Refs
        /\ objects[table[objects[active].id]] \in Object
        /\ objects[table[objects[active].id]].id = objects[active].id
    BY <2>1, StoredObject
  <2>3. ASSUME NEW state \in SessionStates, LoopStops(s, state),
               pc[s] \notin {"stopping", "over"}
        PROVE  TypeOK'
    BY <1>3, <2>1, <2>3 DEF LoopStops
  <2>4. CASE KillSwitchOn(s) \/ PreGateDenied(s) \/ NoWorker(s) \/ SleepAborted(s)
               \/ SleepInterrupted(s) \/ PostGateDenied(s)
    BY <2>3, <2>4 DEF KillSwitchOn, PreGateDenied, NoWorker, SleepAborted,
                      SleepInterrupted, PostGateDenied, SessionStates
  <2>5. ASSUME NEW l \in LoopPoints \cup {"over"}, Goto(s, l)
        PROVE  pc' \in [Calls -> {"unused", "limits", "creating", "over"} \cup LoopPoints]
    BY <1>2, <2>1, <2>5
  <2>6. CASE KillSwitchOff(s) \/ AskPostGate(s)
    <3>1. asked' \in [Sessions -> [tasks : Nat, failures : Nat]]
      BY <1>1, <2>2, <2>6 DEF KillSwitchOff, AskPostGate, AskGate, TypeOK, Object
    <3> QED BY <1>1, <2>5, <2>6, <3>1 DEF KillSwitchOff, AskPostGate, TypeOK, LoopPoints
  <2>7. CASE PreGatePermitted(s) \/ ExecutedNothing(s)
    BY <1>1, <2>5, <2>7 DEF PreGatePermitted, ExecutedNothing, TypeOK, LoopPoints
  <2>8. CASE Dispatch(s)
    <3>1. late' \in [Sessions -> 0 .. 2]
      BY <1>1, <2>8 DEF Dispatch, TypeOK
    <3> QED BY <1>1, <2>5, <2>8, <3>1 DEF Dispatch, TypeOK, LoopPoints
  <2>9. CASE ExecutedTask(s)
    <3>1. Succeed(objects[active]) \in Object /\ Fail(objects[active]) \in Object
      BY <2>2, CountedObject
    <3>2. objects' \in [Refs -> Object \cup {None}]
      BY <1>1, <2>9, <3>1 DEF ExecutedTask, TypeOK
    <3>3. succeeded' \in [Sessions -> Nat] /\ failing' \in [Sessions -> Nat]
      BY <1>1, <2>9 DEF ExecutedTask, TypeOK
    <3> QED BY <1>1, <2>5, <2>9, <3>2, <3>3 DEF ExecutedTask, TypeOK, LoopPoints
  <2>10. CASE SleepBegins(s)
    BY <1>1, <2>5, <2>10 DEF SleepBegins, TypeOK, LoopPoints
  <2>11. CASE SleepElapses(s) \/ PostGatePermitted(s)
    <3>1. running' \in BOOLEAN
      BY <1>1, <2>11 DEF SleepElapses, PostGatePermitted, LoopHead, TypeOK
    <3>2. pc' \in [Calls -> {"unused", "limits", "creating", "over"} \cup LoopPoints]
      BY <2>5, <2>11 DEF SleepElapses, PostGatePermitted, LoopHead, LoopPoints
    <3> QED BY <1>1, <2>11, <3>1, <3>2 DEF SleepElapses, PostGatePermitted, TypeOK
  <2>12. CASE SaveSession(s)
    <3> DEFINE id == objects[active].id
               o == [objects[table[id]] EXCEPT !.tasks = objects[active].tasks,
                                               !.failures = objects[active].failures]
    <3>1. o \in Object /\ Saved(id) \in Refs
      BY <2>1, <2>2, RefsDiffer DEF Object
    <3>2. /\ objects' = [objects EXCEPT ![Saved(id)] = o]
          /\ table' = [table EXCEPT ![id] = Saved(id)]
          /\ Goto(s, "saved")
          /\ UNCHANGED << gov, hasWorker, active, signals, asked, listening, history, changes >>
      BY <2>12 DEF SaveSession
    <3> HIDE DEF o
    <3>3. objects' \in [Refs -> Object \cup {None}] /\ table' \in [Sessions -> Refs \cup {None}]
      BY <1>1, <3>1, <3>2 DEF TypeOK
    <3> QED BY <1>1, <2>5, <3>2, <3>3 DEF TypeOK, LoopPoints
  <2>13. CASE LoopStopped(s)
    <3>1. StoppedBy(s) \in Refs
      BY <2>1, RefsDiffer
    <3> QED BY <1>1, <2>5, <2>13, <3>1 DEF LoopStopped, TypeOK
  <2>14. \/ KillSwitchOn(s) \/ PreGateDenied(s) \/ NoWorker(s) \/ SleepAborted(s)
         \/ SleepInterrupted(s) \/ PostGateDenied(s) \/ KillSwitchOff(s) \/ AskPostGate(s)
         \/ PreGatePermitted(s) \/ ExecutedNothing(s) \/ Dispatch(s) \/ ExecutedTask(s)
         \/ SleepBegins(s) \/ SleepElapses(s) \/ PostGatePermitted(s) \/ SaveSession(s)
         \/ LoopStopped(s)
    BY <1>11 DEF LoopStep
  <2> QED BY <2>4, <2>6, <2>7, <2>8, <2>9, <2>10, <2>11, <2>12, <2>13, <2>14
<1> QED BY <1>4, <1>5, <1>6, <1>7, <1>8, <1>9, <1>10, <1>11 DEF Next, StartStep

\* A step of one call that writes no object.
LEMMA StoreStill ==
  ASSUME StoreInv, TypeOK', UNCHANGED << objects, table >>,
         active' \in Refs => objects[active'] \in Object,
         active \in Refs => active' \in Refs,
         NEW c \in Calls, NEW l, Goto(c, l),
         pc[c] \in {"stopping", "over"} => l = "over",
         l # "stopping" /\ l # "creating",
         c \in Sessions /\ l \in LoopPoints => active' \in Refs
  PROVE  StoreInv'
<1>1. TypeOK /\ pc' = [pc EXCEPT ![c] = l]
  BY DEF StoreInv, Goto
<1>2. \A d \in Calls : pc'[d] = IF d = c THEN l ELSE pc[d]
  BY <1>1 DEF TypeOK
<1>3. \A d \in Calls : objects'[StoppedBy(d)] \in Object => pc'[d] \in {"stopping", "over"}
  BY <1>2 DEF StoreInv
<1>4. ASSUME NEW s \in Sessions
      PROVE  /\ pc'[s] \in LoopPoints => active' \in Refs
             /\ pc'[s] = "stopping" => objects'[StoppedBy(s)] \in Object
             /\ pc'[s] = "creating" => objects'[Created(s)] \in Object
  BY <1>2 DEF StoreInv, Looping, Calls
<1> QED BY <1>3, <1>4 DEF StoreInv, Looping

\* A step of one call that writes one object.
LEMMA StoreWrite ==
  ASSUME StoreInv, TypeOK',
         NEW r \in Refs, NEW o \in Object,
         objects' = [objects EXCEPT ![r] = o],
         objects[r] \in Object => objects[r].id = o.id,
         \/ table' = [table EXCEPT ![o.id] = r]
         \/ UNCHANGED table /\ table[o.id] \in Refs,
         UNCHANGED active,
         NEW c \in Calls, NEW l, Goto(c, l),
         pc[c] \notin {"stopping", "over"},
         l = "stopping" => r = StoppedBy(c),
         l = "creating" => r = Created(c),
         c \in Sessions /\ l \in LoopPoints => active \in Refs,
         \A d \in Calls : r = StoppedBy(d) /\ objects[r] \notin Object => d = c /\ l = "stopping",
         \A s \in Sessions : r \in {Created(s), Saved(s)} => o.id = s
  PROVE  StoreInv'
<1>1. TypeOK /\ pc' = [pc EXCEPT ![c] = l]
  BY DEF StoreInv, Goto
<1>2. \A d \in Calls : pc'[d] = IF d = c THEN l ELSE pc[d]
  BY <1>1 DEF TypeOK
<1>3. /\ objects'[r] = o /\ \A q \in Refs \ {r} : objects'[q] = objects[q]
      /\ \A q \in Refs : objects[q] \in Object => objects'[q] \in Object
      /\ \A q \in Refs : objects'[q] \in Object => table'[objects'[q].id] \in Refs
      /\ \A s \in Sessions : table'[s] \in Refs =>
           objects'[table'[s]] \in Object /\ objects'[table'[s]].id = s
  BY WriteObject
<1>4. ASSUME NEW d \in Calls, objects'[StoppedBy(d)] \in Object
      PROVE  pc'[d] \in {"stopping", "over"}
  <2>1. StoppedBy(d) \in Refs
    BY DEF Refs
  <2>2. CASE objects[StoppedBy(d)] \in Object
    <3>1. pc[d] \in {"stopping", "over"}
      BY <2>2 DEF StoreInv
    <3> QED BY <1>2, <3>1
  <2>3. CASE objects[StoppedBy(d)] \notin Object
    <3>1. StoppedBy(d) = r
      BY <1>3, <1>4, <2>1, <2>3
    <3>2. d = c /\ l = "stopping"
      BY <2>3, <3>1
    <3> QED BY <1>2, <3>2
  <2> QED BY <2>2, <2>3
<1>5. ASSUME NEW s \in Sessions, NEW q \in {Created(s), Saved(s)}, objects'[q] \in Object
      PROVE  objects'[q].id = s
  <2>1. q \in Refs
    BY DEF Refs
  <2> QED BY <1>3, <1>5, <2>1 DEF StoreInv
<1>6. ASSUME NEW s \in Sessions
      PROVE  /\ pc'[s] \in LoopPoints => active' \in Refs
             /\ pc'[s] = "stopping" => objects'[StoppedBy(s)] \in Object
             /\ pc'[s] = "creating" => objects'[Created(s)] \in Object
  <2>1. s \in Calls /\ StoppedBy(s) \in Refs /\ Created(s) \in Refs
    BY DEF Calls, Refs
  <2>2. CASE s = c
    BY <1>2, <1>3, <2>1, <2>2
  <2>3. CASE s # c
    BY <1>2, <1>3, <2>1, <2>3 DEF StoreInv, Looping
  <2> QED BY <2>2, <2>3
<1>7. active' \in Refs => objects'[active'] \in Object
  BY <1>3 DEF StoreInv
<1> QED BY <1>3, <1>4, <1>5, <1>6, <1>7 DEF StoreInv, Looping

LEMMA StoreStep ==
  ASSUME StoreInv, [Next]_vars
  PROVE  StoreInv'
<1> USE DEF history, shared, signals
<1>1. TypeOK /\ TypeOK'
  BY TypeStep DEF StoreInv
<1>2. ASSUME NEW c \in Calls, NEW state \in SessionStates, StopBegins(c, state),
             active \in Refs, pc[c] \notin {"stopping", "over"}
      PROVE  StoreInv'
  <2>1. /\ objects[StoppedBy(c)] \notin Object /\ StoppedBy(c) \in Refs
        /\ Goto(c, "stopping") /\ UNCHANGED active
    BY <1>2, StopStore DEF StopBegins
  <2>2. PICK o \in Object :
               /\ objects' = [objects EXCEPT ![StoppedBy(c)] = o]
               /\ table' = [table EXCEPT ![o.id] = StoppedBy(c)]
    BY <1>2, StopStore
  <2>3. /\ \A d \in Calls : StoppedBy(c) = StoppedBy(d) => d = c
        /\ \A s \in Sessions : StoppedBy(c) \notin {Created(s), Saved(s)}
    BY DEF StoppedBy, Created, Saved
  <2> QED BY <1>1, <1>2, <2>1, <2>2, <2>3, StoreWrite
<1>3. ASSUME NEW s \in Sessions, StartCall(s) PROVE StoreInv'
  <2>1. s \in Calls /\ pc[s] = "unused" /\ Goto(s, "limits")
        /\ UNCHANGED << objects, table, active >>
    BY <1>3 DEF StartCall, Calls
  <2>2. "limits" \notin LoopPoints
    BY DEF LoopPoints
  <2> QED BY <1>1, <2>1, <2>2, StoreStill DEF StoreInv
<1>4. ASSUME NEW s \in Sessions, StartDecided(s) PROVE StoreInv'
  <2> DEFINE o == [id |-> s, tasks |-> 0, failures |-> 0,
                   state |-> IF EvaluateContinuation(gov, 0, 0) = "PERMITTED"
                             THEN "RUNNING" ELSE "BLOCKED"]
  <2>1. s \in Calls /\ Created(s) \in Refs /\ o \in Object /\ o.id = s
    BY RefsDiffer DEF Calls, Object
  <2>2. /\ objects' = [objects EXCEPT ![Created(s)] = o]
        /\ table' = [table EXCEPT ![s] = Created(s)]
        /\ Goto(s, "creating") /\ pc[s] = "limits" /\ UNCHANGED active
    BY <1>4 DEF StartDecided
  <2> HIDE DEF o
  <2>owner. /\ objects[Created(s)] \in Object => objects[Created(s)].id = s
        /\ \A d \in Calls : Created(s) # StoppedBy(d)
        /\ \A t \in Sessions : Created(s) \in {Created(t), Saved(t)} => s = t
    BY DEF StoreInv, Created, Saved, StoppedBy
  <2>4. "creating" \notin LoopPoints
    BY DEF LoopPoints
  <2> QED BY <1>1, <2>1, <2>2, <2>owner, <2>4, StoreWrite
<1>5. ASSUME NEW s \in Sessions, StartFinished(s) PROVE StoreInv'
  <2>1. /\ s \in Calls /\ pc[s] = "creating"
        /\ active' = Created(s) /\ UNCHANGED << objects, table >>
    BY <1>5 DEF StartFinished, Calls
  <2>2. Created(s) \in Refs /\ objects[Created(s)] \in Object
    BY <2>1, RefsDiffer DEF StoreInv
  <2>3. Goto(s, "kill") \/ Goto(s, "over")
    BY <1>5 DEF StartFinished
  <2> QED BY <1>1, <2>1, <2>2, <2>3, StoreStill
<1>6. ASSUME NEW p \in Stops, OperatorStop(p) PROVE StoreInv'
  <2>1. p \in Calls /\ p \notin Sessions /\ "STOPPED" \in SessionStates /\ pc[p] = "unused"
    BY <1>6, SchedulerAssumption DEF Calls, SessionStates, OperatorStop
  <2>2. CASE active = None
    <3>1. Goto(p, "stopping") /\ UNCHANGED << objects, table, active >>
      BY <1>6, <2>2 DEF OperatorStop
    <3>2. \A d \in Calls : pc'[d] = IF d = p THEN "stopping" ELSE pc[d]
      BY <1>1, <3>1 DEF Goto, TypeOK
    <3>3. \A d \in Calls : objects'[StoppedBy(d)] \in Object => pc'[d] \in {"stopping", "over"}
      BY <2>1, <3>1, <3>2 DEF StoreInv
    <3>4. \A s \in Sessions : s \in Calls /\ pc'[s] = pc[s]
      BY <2>1, <3>2 DEF Calls
    <3> QED BY <1>1, <3>1, <3>3, <3>4 DEF StoreInv, Looping
  <2>3. CASE active # None
    <3>1. active \in Refs
      BY <1>1, <2>3 DEF TypeOK
    <3> QED BY <1>2, <1>6, <2>1, <2>3, <3>1 DEF OperatorStop
  <2> QED BY <2>2, <2>3
<1>7. ASSUME NEW p \in Stops, OperatorStopped(p) PROVE StoreInv'
  <2>1. /\ p \in Calls /\ StoppedBy(p) \in Refs /\ pc[p] = "stopping"
        /\ Goto(p, "over") /\ UNCHANGED << objects, table >>
    BY <1>7 DEF OperatorStopped, Calls, Refs
  <2>2. /\ active' \in Refs => objects[active'] \in Object
        /\ active \in Refs => active' \in Refs
    BY <1>1, <1>7, <2>1 DEF OperatorStopped, StoreInv, TypeOK
  <2>3. "over" \notin LoopPoints
    BY DEF LoopPoints
  <2> QED BY <1>1, <2>1, <2>2, <2>3, StoreStill
<1>8. CASE GovernanceChanges \/ UNCHANGED vars
  <2>1. UNCHANGED << objects, table, active, pc >>
    BY <1>8 DEF GovernanceChanges, vars
  <2> QED BY <1>1, <2>1 DEF StoreInv, Looping
<1>9. ASSUME NEW s \in Sessions, LoopStep(s) PROVE StoreInv'
  <2>1. s \in Calls /\ Looping(s) /\ active \in Refs
    BY <1>9 DEF StoreInv, Looping, LoopPoints, LoopStep, KillSwitchOn, KillSwitchOff,
                 PreGateDenied, NoWorker, PreGatePermitted, Dispatch, ExecutedNothing,
                 ExecutedTask, SleepAborted, SleepBegins, SleepInterrupted, SleepElapses,
                 SaveSession, AskPostGate, PostGateDenied, PostGatePermitted,
                 LoopStopped, Calls
  <2>2. /\ objects[active] \in Object /\ objects[active].id \in Sessions
        /\ table[objects[active].id] \in Refs
        /\ objects[table[objects[active].id]] \in Object
        /\ objects[table[objects[active].id]].id = objects[active].id
    BY <2>1, StoredObject
  <2>3. CASE KillSwitchOn(s) \/ PreGateDenied(s) \/ NoWorker(s) \/ SleepAborted(s)
               \/ SleepInterrupted(s) \/ PostGateDenied(s)
    BY <1>2, <2>1, <2>3 DEF KillSwitchOn, PreGateDenied, NoWorker, SleepAborted,
       SleepInterrupted, PostGateDenied, SessionStates, LoopStops
  <2>4. CASE KillSwitchOff(s) \/ AskPostGate(s) \/ PreGatePermitted(s) \/ ExecutedNothing(s)
               \/ Dispatch(s) \/ SleepBegins(s) \/ SleepElapses(s) \/ PostGatePermitted(s)
    <3>1. /\ pc[s] \notin {"stopping", "over"} /\ UNCHANGED << objects, table, active >>
          /\ \E l \in {"preGate", "postGate", "recorded", "dozing", "executing", "sleeping",
                       "kill", "over"} : Goto(s, l)
      BY <2>4 DEF KillSwitchOff, AskPostGate, PreGatePermitted, ExecutedNothing,
         Dispatch, SleepBegins, SleepElapses, PostGatePermitted, LoopHead
    <3> QED BY <1>1, <2>1, <2>2, <3>1, StoreStill
  <2>5. CASE ExecutedTask(s)
    <3>1. PICK o \in Object : o.id = objects[active].id /\ objects' = [objects EXCEPT ![active] = o]
      BY <2>2, <2>5, CountedObject DEF ExecutedTask
    <3>2. /\ Goto(s, "outcome") /\ pc[s] = "executing" /\ UNCHANGED << table, active >>
      BY <2>5 DEF ExecutedTask
    <3>3. /\ \A d \in Calls : ~ (active = StoppedBy(d) /\ objects[active] \notin Object)
          /\ \A t \in Sessions : active \in {Created(t), Saved(t)} => o.id = t
      BY <2>2, <3>1 DEF StoreInv
    <3> QED BY <1>1, <2>1, <2>2, <3>1, <3>2, <3>3, StoreWrite
  <2>6. CASE SaveSession(s)
    <3> DEFINE id == objects[active].id
               o == [objects[table[id]] EXCEPT !.tasks = objects[active].tasks,
                                               !.failures = objects[active].failures]
    <3>1. o \in Object /\ o.id = id /\ Saved(id) \in Refs
      BY <2>1, <2>2, RefsDiffer DEF Object
    <3>2. /\ objects' = [objects EXCEPT ![Saved(id)] = o]
          /\ table' = [table EXCEPT ![id] = Saved(id)]
          /\ Goto(s, "saved") /\ pc[s] = "outcome" /\ UNCHANGED active
      BY <2>6 DEF SaveSession
    <3> HIDE DEF o
    <3>3. /\ objects[Saved(id)] \in Object => objects[Saved(id)].id = id
          /\ \A d \in Calls : Saved(id) # StoppedBy(d)
          /\ \A t \in Sessions : Saved(id) \in {Created(t), Saved(t)} => id = t
      BY <2>2 DEF StoreInv, Created, Saved, StoppedBy
    <3> HIDE DEF id
    <3> QED BY <1>1, <2>1, <3>1, <3>2, <3>3, StoreWrite
  <2>7. CASE LoopStopped(s)
    <3>1. StoppedBy(s) \in Refs /\ objects[StoppedBy(s)] \in Object
      BY <2>1, <2>7, RefsDiffer DEF StoreInv, LoopStopped
    <3>2. /\ active' = StoppedBy(s) /\ UNCHANGED << objects, table >>
          /\ Goto(s, "over") /\ pc[s] = "stopping"
      BY <2>7 DEF LoopStopped
    <3> QED BY <1>1, <2>1, <3>1, <3>2, StoreStill
  <2>8. \/ KillSwitchOn(s) \/ PreGateDenied(s) \/ NoWorker(s) \/ SleepAborted(s)
        \/ SleepInterrupted(s) \/ PostGateDenied(s) \/ KillSwitchOff(s) \/ AskPostGate(s)
        \/ PreGatePermitted(s) \/ ExecutedNothing(s) \/ Dispatch(s) \/ ExecutedTask(s)
        \/ SleepBegins(s) \/ SleepElapses(s) \/ PostGatePermitted(s) \/ SaveSession(s)
        \/ LoopStopped(s)
    BY <1>9 DEF LoopStep
  <2> QED BY <2>3, <2>4, <2>5, <2>6, <2>7, <2>8
<1> QED BY <1>3, <1>4, <1>5, <1>6, <1>7, <1>8, <1>9 DEF Next, StartStep

LEMMA InitialStore == Init => StoreInv
<1> SUFFICES ASSUME Init PROVE StoreInv
  OBVIOUS
<1>1. TypeOK
  <2>1. \A r \in GovRows : LimitsOf(r, r.kill) \in
          [level : Levels, kill : BOOLEAN, maxTasks : Nat \ {0}, maxFailures : Nat \ {0}]
    BY SchedulerAssumption DEF LimitsOf, OrDefault, FailClosed
  <2>2. gov \in [level : Levels, kill : BOOLEAN, maxTasks : Nat \ {0}, maxFailures : Nat \ {0}]
    BY <2>1 DEF Init
  <2>3. asked \in [Sessions -> [tasks : Nat, failures : Nat]]
    BY DEF Init
  <2>objects. /\ objects \in [Refs -> Object \cup {None}]
        /\ table \in [Sessions -> Refs \cup {None}]
        /\ listening \in [Sessions -> Sessions \cup {None}]
    BY DEF Init
  <2>5. /\ pc \in [Calls -> {"unused", "limits", "creating", "over"} \cup LoopPoints]
        /\ succeeded \in [Sessions -> Nat] /\ failing \in [Sessions -> Nat]
        /\ late \in [Sessions -> 0 .. 2]
    BY DEF Init
  <2> QED BY <2>2, <2>3, <2>objects, <2>5 DEF Init, TypeOK
<1>2. /\ \A r \in Refs : objects[r] = None
      /\ \A s \in Sessions : table[s] = None
      /\ active = None
      /\ \A c \in Calls : pc[c] = "unused"
  BY DEF Init
<1> QED BY <1>1, <1>2, NoneIsNothing, RefsDiffer
        DEF StoreInv, Looping, LoopPoints, Calls, Refs

\* Every variable keeps its type, the references to shared objects included,
\* whoever calls start() and stop() and when.
THEOREM SchedulerTypes == Spec => []TypeOK
<1>1. Init => StoreInv
  BY InitialStore
<1>2. StoreInv /\ [Next]_vars => StoreInv'
  BY StoreStep
<1>3. StoreInv => TypeOK
  BY DEF StoreInv
<1> QED BY <1>1, <1>2, <1>3, PTL DEF Spec

-----------------------------------------------------------------------------
(* The budget of a session *)

\* The object at r has the counts of what happened under s.
Counted(s, r) == objects[r].tasks = succeeded[s] /\ objects[r].failures = failing[s]

\* While the loop of s may go on, the active object and, but for a save that is
\* due, the one in the map have its counts.  A stop() that begins at the kill
\* switch check still copies them, and may put its copy into activeSession
\* before the loop asks the gate: the loop is told to stop, but goes on to the
\* task this gate permits.  A stop() that begins at any other point may copy
\* counts that are about to be outdated, and the loop asks no further gate.
BudgetOf(s) ==
  /\ pc[s] \in {"unused", "limits", "creating"} => succeeded[s] = 0 /\ failing[s] = 0
  /\ Starting(s) => \A p \in Stops : pc[p] # "stopping"
  /\ pc[s] = "creating" => table[s] = Created(s) /\ Counted(s, Created(s))
  /\ Looping(s) =>
       /\ objects[active].id = s
       /\ \A p \in Stops : pc[p] = "stopping" =>
            /\ ~ MayLoop
            /\ objects[StoppedBy(p)] \in Object /\ objects[StoppedBy(p)].id = s
       /\ MayLoop \/ pc[s] = "kill" => Counted(s, active)
       /\ (MayLoop /\ pc[s] # "outcome") \/ pc[s] = "kill" => Counted(s, table[s])
       /\ pc[s] = "kill" =>
            \A p \in Stops : pc[p] = "stopping" => Counted(s, StoppedBy(p))
       /\ pc[s] = "preGate" =>
            asked[s].tasks = succeeded[s] /\ asked[s].failures = failing[s]

BudgetInv == \A s \in Sessions : BudgetOf(s)

\* A session that is not under way has nothing to keep.
LEMMA BudgetIdle ==
  ASSUME BudgetInv, NEW t \in Sessions, ~ Underway(t),
         pc'[t] = pc[t], succeeded'[t] = succeeded[t], failing'[t] = failing[t]
  PROVE  BudgetOf(t)'
<1>1. pc'[t] \notin LoopPoints /\ pc'[t] \notin {"limits", "creating"}
  BY DEF Underway, Looping, Starting
<1> QED BY <1>1 DEF BudgetInv, BudgetOf, Looping, Starting

LEMMA BudgetLoopStep ==
  ASSUME StoreInv, LoopInv, BudgetInv, NEW s \in Sessions, LoopStep(s)
  PROVE  BudgetInv'
<1> USE DEF history, shared, signals
<1>1. /\ s \in Calls /\ Looping(s) /\ pc[s] \in LoopPoints /\ active \in Refs
      /\ \E l \in LoopPoints \cup {"over"} : Goto(s, l)
  BY DEF StoreInv, Looping, LoopPoints, LoopStep, KillSwitchOn, KillSwitchOff,
         PreGateDenied, NoWorker, PreGatePermitted, Dispatch, ExecutedNothing,
         ExecutedTask, SleepAborted, SleepBegins, SleepInterrupted, SleepElapses,
         SaveSession, AskPostGate, PostGateDenied, PostGatePermitted, LoopStopped,
         LoopStops, StopBegins, LoopHead, Calls
<1>2. TypeOK
  BY DEF StoreInv
<1>3. \A c \in Calls \ {s} : pc'[c] = pc[c]
  BY <1>1, <1>2 DEF Goto, TypeOK
<1>4. ASSUME NEW t \in Sessions, t # s PROVE BudgetOf(t)'
  <2>1. ~ Underway(t)
    BY <1>1, <1>4 DEF LoopInv, Underway
  <2>2. succeeded'[t] = succeeded[t] /\ failing'[t] = failing[t]
    BY <1>2, <1>4 DEF TypeOK, LoopStep, KillSwitchOn, KillSwitchOff,
         PreGateDenied, NoWorker, PreGatePermitted, Dispatch, ExecutedNothing,
         ExecutedTask, SleepAborted, SleepBegins, SleepInterrupted, SleepElapses,
         SaveSession, AskPostGate, PostGateDenied, PostGatePermitted, LoopStopped,
         LoopStops
  <2>3. pc'[t] = pc[t]
    BY <1>3, <1>4 DEF Calls
  <2> QED BY <2>1, <2>2, <2>3, BudgetIdle
<1>5. BudgetOf(s) /\ objects[active].id = s
  BY <1>1 DEF BudgetInv, BudgetOf
<1>6. \A p \in Stops : p \in Calls /\ p # s /\ pc'[p] = pc[p]
  BY <1>3, SchedulerAssumption DEF Calls
<1>7. /\ objects[active] \in Object /\ table[s] \in Refs
      /\ objects[table[s]] \in Object /\ objects[table[s]].id = s
  BY <1>1, <1>5, StoredObject
<1>8. CASE \E state \in SessionStates : pc[s] # "stopping" /\ LoopStops(s, state)
  <2>1. PICK state \in SessionStates : pc[s] # "stopping" /\ LoopStops(s, state)
    BY <1>8
  <2>2. /\ StopBegins(s, state) /\ pc[s] \notin {"stopping", "over"}
        /\ UNCHANGED << asked, succeeded, failing >>
    BY <1>1, <2>1 DEF LoopStops, LoopPoints
  <2>3. /\ objects[StoppedBy(s)] \notin Object /\ StoppedBy(s) \in Refs
        /\ \E o \in Object : objects' = [objects EXCEPT ![StoppedBy(s)] = o]
    BY <1>1, <2>2, StopStore
  <2>4. /\ UNCHANGED active /\ ~ MayLoop' /\ pc'[s] = "stopping"
    BY <1>1, <1>2, <2>2 DEF StopBegins, MayLoop, Goto, TypeOK
  <2>5. objects'[active] = objects[active]
    BY <1>1, <1>2, <1>7, <2>3 DEF TypeOK
  <2>6. ASSUME NEW p \in Stops PROVE objects'[StoppedBy(p)] = objects[StoppedBy(p)]
    <3>1. StoppedBy(p) # StoppedBy(s) /\ StoppedBy(p) \in Refs
      BY <1>6 DEF StoppedBy, Refs
    <3> QED BY <1>2, <2>3, <3>1 DEF TypeOK
  <2>7. BudgetOf(s)'
    BY <1>5, <1>1, <1>6, <2>4, <2>5, <2>6 DEF BudgetOf, Looping, Starting
  <2> QED BY <1>4, <2>7 DEF BudgetInv
<1>9. CASE SleepElapses(s) \/ PostGatePermitted(s)
  <2>1. /\ UNCHANGED << objects, table, active, asked, succeeded, failing, controller, aborted >>
        /\ LoopHead(s) /\ pc[s] \in {"sleeping", "postGate"}
    BY <1>9 DEF SleepElapses, PostGatePermitted
  <2>2. CASE MayLoop
    <3>1. pc'[s] = "kill" /\ UNCHANGED running
      BY <1>1, <1>2, <2>1, <2>2 DEF LoopHead, Goto, TypeOK
    <3>2. \A p \in Stops : pc[p] # "stopping"
      BY <1>1, <1>5, <2>2 DEF BudgetOf
    <3>3. Counted(s, active) /\ Counted(s, table[s])
      BY <1>1, <1>5, <2>1, <2>2 DEF BudgetOf
    <3>4. BudgetOf(s)'
      BY <1>5, <1>6, <2>1, <3>1, <3>2, <3>3 DEF BudgetOf, Counted, Starting
    <3> QED BY <1>4, <3>4 DEF BudgetInv
  <2>3. CASE ~ MayLoop
    <3>1. pc'[s] = "over"
      BY <1>1, <1>2, <2>1, <2>3 DEF LoopHead, Goto, TypeOK
    <3>2. BudgetOf(s)'
      BY <3>1 DEF BudgetOf, Starting, Looping, LoopPoints
    <3> QED BY <1>4, <3>2 DEF BudgetInv
  <2> QED BY <2>2, <2>3
<1>10. CASE KillSwitchOff(s)
  <2>1. /\ UNCHANGED << objects, table, active, succeeded, failing, running, controller, aborted >>
        /\ AskGate(s) /\ pc[s] = "kill" /\ pc'[s] = "preGate"
    BY <1>1, <1>2, <1>10 DEF KillSwitchOff, Goto, TypeOK
  <2>2. asked'[s].tasks = objects[active].tasks /\ asked'[s].failures = objects[active].failures
    BY <1>2, <2>1 DEF AskGate, TypeOK
  <2>3. BudgetOf(s)'
    BY <1>1, <1>5, <1>6, <2>1, <2>2 DEF BudgetOf, Counted, Starting, MayLoop, Looping
  <2> QED BY <1>4, <2>3 DEF BudgetInv
<1>11. CASE PreGatePermitted(s) \/ Dispatch(s) \/ ExecutedNothing(s) \/ SleepBegins(s)
              \/ AskPostGate(s)
  <2>1. /\ UNCHANGED << objects, table, active, succeeded, failing, running, controller, aborted >>
        /\ pc[s] # "outcome"
        /\ pc'[s] \in {"recorded", "executing", "dozing", "sleeping", "postGate"}
    BY <1>1, <1>2, <1>11 DEF PreGatePermitted, Dispatch, ExecutedNothing, SleepBegins,
       AskPostGate, Goto, TypeOK
  <2>2. BudgetOf(s)'
    BY <1>1, <1>5, <1>6, <2>1 DEF BudgetOf, Counted, Starting, MayLoop, Looping
  <2> QED BY <1>4, <2>2 DEF BudgetInv
<1>12. CASE ExecutedTask(s)
  <2>1. /\ UNCHANGED << table, active, running, controller, aborted >>
        /\ pc[s] = "executing" /\ pc'[s] = "outcome"
    BY <1>1, <1>2, <1>12 DEF ExecutedTask, Goto, TypeOK
  <2>2. /\ succeeded[s] \in Nat /\ failing[s] \in Nat
        /\ objects'[active].id = s
        /\ Counted(s, active) => Counted(s, active)'
    BY <1>1, <1>2, <1>5, <1>7, <1>12, CountedObject DEF ExecutedTask, Counted, TypeOK
  <2>3. ASSUME NEW p \in Stops, pc[p] = "stopping"
        PROVE  objects'[StoppedBy(p)] \in Object /\ objects'[StoppedBy(p)].id = s
    <3>1. objects[StoppedBy(p)] \in Object /\ objects[StoppedBy(p)].id = s
      BY <1>1, <1>5, <2>3 DEF BudgetOf
    <3>2. PICK o \in Object : o.id = s /\ objects' = [objects EXCEPT ![active] = o]
      BY <1>5, <1>7, <1>12, CountedObject DEF ExecutedTask
    <3>3. StoppedBy(p) \in Refs
      BY <1>6 DEF Refs
    <3> QED BY <1>1, <1>2, <3>1, <3>2, <3>3 DEF TypeOK
  <2>4. BudgetOf(s)'
    BY <1>1, <1>5, <1>6, <2>1, <2>2, <2>3 DEF BudgetOf, Starting, MayLoop, Looping
  <2> QED BY <1>4, <2>4 DEF BudgetInv
<1>13. CASE SaveSession(s)
  <2> DEFINE o == [objects[table[s]] EXCEPT !.tasks = objects[active].tasks,
                                            !.failures = objects[active].failures]
  <2>1. /\ objects' = [objects EXCEPT ![Saved(s)] = o]
        /\ table' = [table EXCEPT ![s] = Saved(s)]
        /\ UNCHANGED << active, succeeded, failing, running, controller, aborted >>
        /\ pc[s] = "outcome" /\ pc'[s] = "saved"
    BY <1>1, <1>2, <1>5, <1>13 DEF SaveSession, Goto, TypeOK
  <2>2. /\ o.id = s /\ o.tasks = objects[active].tasks
        /\ o.failures = objects[active].failures
    BY <1>7 DEF Object
  <2> HIDE DEF o
  <2>3. Saved(s) \in Refs /\ \A p \in Stops : StoppedBy(p) # Saved(s) /\ StoppedBy(p) \in Refs
    BY <1>6 DEF Refs, Saved, StoppedBy
  <2>4. /\ objects'[active].id = s /\ objects'[active].tasks = objects[active].tasks
        /\ objects'[active].failures = objects[active].failures
    <3>1. CASE active = Saved(s)
      BY <1>2, <2>1, <2>2, <2>3, <3>1 DEF TypeOK
    <3>2. CASE active # Saved(s)
      BY <1>1, <1>2, <1>5, <2>1, <2>3, <3>2 DEF TypeOK
    <3> QED BY <3>1, <3>2
  <2>5. /\ table'[s] = Saved(s) /\ objects'[Saved(s)] = o
        /\ \A p \in Stops : objects'[StoppedBy(p)] = objects[StoppedBy(p)]
    BY <1>2, <2>1, <2>3 DEF TypeOK
  <2>6. BudgetOf(s)'
    BY <1>1, <1>5, <1>6, <2>1, <2>2, <2>4, <2>5 DEF BudgetOf, Counted, Starting, MayLoop, Looping
  <2> QED BY <1>4, <2>6 DEF BudgetInv
<1>14. CASE LoopStopped(s)
  <2>1. pc'[s] = "over"
    BY <1>1, <1>2, <1>14 DEF LoopStopped, Goto, TypeOK
  <2>2. BudgetOf(s)'
    BY <2>1 DEF BudgetOf, Starting, Looping, LoopPoints
  <2> QED BY <1>4, <2>2 DEF BudgetInv
<1>15. CASE KillSwitchOn(s) \/ PreGateDenied(s) \/ NoWorker(s) \/ SleepAborted(s)
               \/ SleepInterrupted(s) \/ PostGateDenied(s)
  BY <1>8, <1>15 DEF KillSwitchOn, PreGateDenied, NoWorker, SleepAborted,
     SleepInterrupted, PostGateDenied, SessionStates
<1>16. \/ KillSwitchOn(s) \/ PreGateDenied(s) \/ NoWorker(s) \/ SleepAborted(s)
       \/ SleepInterrupted(s) \/ PostGateDenied(s) \/ KillSwitchOff(s) \/ AskPostGate(s)
       \/ PreGatePermitted(s) \/ ExecutedNothing(s) \/ Dispatch(s) \/ ExecutedTask(s)
       \/ SleepBegins(s) \/ SleepElapses(s) \/ PostGatePermitted(s) \/ SaveSession(s)
       \/ LoopStopped(s)
  BY DEF LoopStep
<1> QED BY <1>9, <1>10, <1>11, <1>12, <1>13, <1>14, <1>15, <1>16

LEMMA BudgetStep ==
  ASSUME PatientStart, PatientStop, StoreInv, LoopInv, BudgetInv, [Next]_vars
  PROVE  BudgetInv'
<1> USE DEF history, shared, signals
<1>1. TypeOK
  BY DEF StoreInv
<1>2. ASSUME NEW s \in Sessions, StartCall(s) PROVE BudgetInv'
  <2>1. /\ ~ Busy /\ pc' = [pc EXCEPT ![s] = "limits"] /\ pc[s] = "unused"
        /\ UNCHANGED << succeeded, failing >>
    BY <1>2, PatientStart DEF StartCall, Goto
  <2>2. \A c \in Calls : pc[c] \in {"unused", "over"}
    BY <2>1 DEF Busy
  <2>3. ASSUME NEW t \in Sessions PROVE BudgetOf(t)'
    <3>1. CASE t = s
      <4>1. pc'[s] = "limits" /\ \A p \in Stops : pc'[p] # "stopping"
        BY <1>1, <2>1, <2>2 DEF TypeOK, Calls
      <4>2. succeeded[s] = 0 /\ failing[s] = 0
        BY <2>1 DEF BudgetInv, BudgetOf
      <4> QED BY <2>1, <3>1, <4>1, <4>2 DEF BudgetOf, Looping, LoopPoints
    <3>2. CASE t # s
      <4>1. ~ Underway(t) /\ pc'[t] = pc[t]
        BY <1>1, <2>1, <2>2, <3>2 DEF Underway, Starting, Looping, LoopPoints, Calls, TypeOK
      <4> QED BY <2>1, <4>1, BudgetIdle
    <3> QED BY <3>1, <3>2
  <2> QED BY <2>3 DEF BudgetInv
<1>3. ASSUME NEW s \in Sessions, StartStep(s) PROVE BudgetInv'
  <2>1. /\ s \in Calls /\ pc[s] \in {"limits", "creating"}
        /\ \E l \in {"creating", "kill", "over"} : pc' = [pc EXCEPT ![s] = l]
        /\ UNCHANGED << succeeded, failing >>
    BY <1>3 DEF StartStep, StartDecided, StartFinished, Goto, Calls
  <2>2. ASSUME NEW t \in Sessions, t # s PROVE BudgetOf(t)'
    <3>1. ~ Underway(t) /\ pc'[t] = pc[t]
      BY <1>1, <2>1, <2>2 DEF LoopInv, Underway, Starting, TypeOK, Calls
    <3> QED BY <2>1, <3>1, BudgetIdle
  <2>3. /\ succeeded[s] = 0 /\ failing[s] = 0
        /\ \A p \in Stops : pc[p] # "stopping" /\ pc'[p] = pc[p]
    BY <1>1, <2>1, SchedulerAssumption DEF BudgetInv, BudgetOf, Starting, TypeOK, Calls
  <2>4. CASE StartDecided(s)
    <3> DEFINE o == [id |-> s, tasks |-> 0, failures |-> 0,
                     state |-> IF EvaluateContinuation(gov, 0, 0) = "PERMITTED"
                               THEN "RUNNING" ELSE "BLOCKED"]
    <3>1. /\ objects' = [objects EXCEPT ![Created(s)] = o]
          /\ table' = [table EXCEPT ![s] = Created(s)]
          /\ pc'[s] = "creating" /\ Created(s) \in Refs
          /\ o.tasks = 0 /\ o.failures = 0
      BY <1>1, <2>1, <2>4 DEF StartDecided, Goto, TypeOK, Refs
    <3> HIDE DEF o
    <3>2. table'[s] = Created(s) /\ objects'[Created(s)] = o
      BY <1>1, <3>1 DEF TypeOK
    <3>3. BudgetOf(s)'
      BY <2>1, <2>3, <3>1, <3>2 DEF BudgetOf, Counted, Looping, LoopPoints
    <3> QED BY <2>2, <3>3 DEF BudgetInv
  <2>5. CASE StartFinished(s)
    <3>1. /\ active' = Created(s) /\ UNCHANGED << objects, table >>
          /\ pc[s] = "creating" /\ pc'[s] \in {"kill", "over"}
      BY <1>1, <2>1, <2>5 DEF StartFinished, Goto, TypeOK
    <3>2. /\ objects[Created(s)].id = s
          /\ table[s] = Created(s) /\ Counted(s, Created(s))
      BY <3>1 DEF StoreInv, BudgetInv, BudgetOf
    <3>3. BudgetOf(s)'
      BY <2>1, <2>3, <3>1, <3>2 DEF BudgetOf, Counted, Looping, LoopPoints, Starting
    <3> QED BY <2>2, <3>3 DEF BudgetInv
  <2> QED BY <1>3, <2>4, <2>5 DEF StartStep
<1>4. ASSUME NEW p \in Stops, OperatorStop(p) PROVE BudgetInv'
  <2>1. /\ p \in Calls /\ p \notin Sessions /\ "STOPPED" \in SessionStates
        /\ pc[p] = "unused" /\ pc' = [pc EXCEPT ![p] = "stopping"]
        /\ \A s \in Sessions : ~ Starting(s)
        /\ UNCHANGED << active, asked, succeeded, failing >> /\ running' = FALSE
    BY <1>4, PatientStop, SchedulerAssumption
       DEF Calls, SessionStates, OperatorStop, StopBegins, Goto
  <2>2. ASSUME NEW s \in Sessions, ~ Looping(s) PROVE BudgetOf(s)'
    <3>1. ~ Underway(s) /\ pc'[s] = pc[s]
      BY <1>1, <2>1, <2>2 DEF Underway, TypeOK, Calls
    <3> QED BY <2>1, <3>1, BudgetIdle
  <2>3. ASSUME NEW s \in Sessions, Looping(s) PROVE BudgetOf(s)'
    <3>1. /\ active \in Refs /\ objects[active] \in Object /\ objects[active].id = s
          /\ table[s] \in Refs /\ BudgetOf(s)
      BY <2>3, StoredObject DEF StoreInv, BudgetInv, BudgetOf
    <3>2. StopBegins(p, "STOPPED")
      BY <1>4, <3>1, NoneIsNothing DEF OperatorStop
    <3>3. objects[StoppedBy(p)] \notin Object /\ StoppedBy(p) \in Refs
      BY <2>1, <3>1, <3>2, StopStore
    <3>4. PICK o \in Object :
                 /\ o.id = s
                 /\ o.tasks = objects[table[s]].tasks
                 /\ o.failures = objects[table[s]].failures
                 /\ objects' = [objects EXCEPT ![StoppedBy(p)] = o]
                 /\ table' = [table EXCEPT ![s] = StoppedBy(p)]
      BY <2>1, <3>1, <3>2, StopStore
    <3>5. /\ objects'[StoppedBy(p)] = o /\ table'[s] = StoppedBy(p)
          /\ objects'[active] = objects[active]
          /\ \A q \in Stops \ {p} : objects'[StoppedBy(q)] = objects[StoppedBy(q)]
      <4>1. \A q \in Stops \ {p} : StoppedBy(q) # StoppedBy(p) /\ StoppedBy(q) \in Refs
        BY DEF StoppedBy, Refs, Calls
      <4> QED BY <1>1, <3>1, <3>3, <3>4, <4>1 DEF TypeOK
    <3>6. /\ ~ MayLoop' /\ pc'[s] = pc[s]
          /\ \A q \in Stops \ {p} : pc'[q] = pc[q]
      BY <1>1, <2>1 DEF MayLoop, TypeOK, Calls
    <3>7. pc[s] = "kill" => Counted(s, table[s]) /\ Counted(s, active)
      BY <2>3, <3>1 DEF BudgetOf
    <3>8. \A q \in Stops : pc'[q] = "stopping" =>
            /\ objects'[StoppedBy(q)] \in Object /\ objects'[StoppedBy(q)].id = s
            /\ pc[s] = "kill" => Counted(s, StoppedBy(q))'
      BY <2>1, <2>3, <3>1, <3>4, <3>5, <3>6, <3>7 DEF BudgetOf, Counted
    <3>9. pc[s] = "kill" => Counted(s, table[s])' /\ Counted(s, active)'
      BY <2>1, <3>4, <3>5, <3>7 DEF Counted
    <3> QED BY <2>1, <2>3, <3>1, <3>5, <3>6, <3>8, <3>9 DEF BudgetOf, Looping, Starting, LoopPoints
  <2> QED BY <2>2, <2>3 DEF BudgetInv
<1>5. ASSUME NEW p \in Stops, OperatorStopped(p) PROVE BudgetInv'
  <2>1. /\ p \in Calls /\ p \notin Sessions
        /\ pc[p] = "stopping" /\ pc' = [pc EXCEPT ![p] = "over"]
        /\ UNCHANGED << objects, table, asked, succeeded, failing, running, controller, aborted >>
        /\ objects[StoppedBy(p)] \in Object => active' = StoppedBy(p)
    BY <1>5, SchedulerAssumption, NoneIsNothing DEF Calls, OperatorStopped, Goto
  <2>2. \A c \in Calls : pc'[c] = IF c = p THEN "over" ELSE pc[c]
    BY <1>1, <2>1 DEF TypeOK
  <2>3. ASSUME NEW s \in Sessions PROVE BudgetOf(s)'
    <3>1. BudgetOf(s) /\ s \in Calls /\ pc'[s] = pc[s]
      BY <2>1, <2>2 DEF BudgetInv, Calls
    <3>2. \A q \in Stops : pc'[q] = "stopping" => pc[q] = "stopping"
      BY <2>2 DEF Calls
    <3>3. CASE Looping(s)
      <4>1. /\ ~ MayLoop /\ active' = StoppedBy(p) /\ objects[StoppedBy(p)].id = s
            /\ pc[s] = "kill" => Counted(s, StoppedBy(p))
        BY <2>1, <3>1, <3>3 DEF BudgetOf
      <4> QED BY <2>1, <3>1, <3>2, <3>3, <4>1
              DEF BudgetOf, Counted, Looping, Starting, LoopPoints, MayLoop
    <3>4. CASE ~ Looping(s)
      BY <2>1, <3>1, <3>2, <3>4 DEF BudgetOf, Counted, Looping, Starting
    <3> QED BY <3>3, <3>4
  <2> QED BY <2>3 DEF BudgetInv
<1>6. CASE GovernanceChanges \/ UNCHANGED vars
  <2>1. UNCHANGED << objects, table, active, asked, pc, succeeded, failing, running,
                     controller, aborted >>
    BY <1>6 DEF GovernanceChanges, vars
  <2> QED BY <2>1 DEF BudgetInv, BudgetOf, Counted, Looping, Starting, MayLoop
<1>7. ASSUME NEW s \in Sessions, LoopStep(s) PROVE BudgetInv'
  BY <1>7, BudgetLoopStep
<1> QED BY <1>2, <1>3, <1>4, <1>5, <1>6, <1>7 DEF Next

\* Only the gate before a task lets a loop go on to it.
LEMMA GateOfTask ==
  ASSUME StoreInv, LoopInv, BudgetInv, [Next]_vars,
         NEW s \in Sessions, pc[s] = "preGate", pc'[s] = "recorded"
  PROVE  succeeded[s] < gov.maxTasks /\ failing[s] < gov.maxFailures
<1>1. TypeOK
  BY DEF StoreInv
<1>2. ASSUME NEW c \in Calls, NEW l, Goto(c, l) PROVE c = s /\ l = "recorded"
  BY <1>1, <1>2 DEF Goto, TypeOK
<1>3. PreGatePermitted(s)
  <2>1. ASSUME NEW t \in Sessions, LoopStep(t) PROVE PreGatePermitted(s)
    <3>1. t \in Calls
      BY DEF Calls
    <3>2. ~ \E l \in {"preGate", "executing", "dozing", "outcome", "sleeping", "saved",
                      "postGate", "stopping", "kill", "over"} : Goto(t, l)
      BY <1>2, <3>1
    <3>3. PreGatePermitted(t) \/ \E l \in {"preGate", "executing", "dozing", "outcome",
             "sleeping", "saved", "postGate", "stopping", "kill", "over"} : Goto(t, l)
      BY <2>1 DEF LoopStep, KillSwitchOn, KillSwitchOff, PreGateDenied,
         NoWorker, Dispatch, ExecutedNothing, ExecutedTask, SleepAborted,
         SleepBegins, SleepInterrupted, SleepElapses, SaveSession, AskPostGate,
         PostGateDenied, PostGatePermitted, LoopStopped, LoopStops, StopBegins, LoopHead
    <3> QED BY <1>2, <3>1, <3>2, <3>3 DEF PreGatePermitted
  <2>2. ASSUME NEW t \in Sessions, StartCall(t) \/ StartStep(t) PROVE FALSE
    BY <1>2, <2>2 DEF StartCall, StartStep, StartDecided, StartFinished, Calls
  <2>stops. ASSUME NEW p \in Stops, OperatorStop(p) \/ OperatorStopped(p) PROVE FALSE
    BY <1>2, <2>stops DEF OperatorStop, OperatorStopped, StopBegins, Calls
  <2>4. ~ (GovernanceChanges \/ UNCHANGED vars)
    BY DEF GovernanceChanges, vars
  <2> QED BY <2>1, <2>2, <2>stops, <2>4 DEF Next
<1>4. EvaluateContinuation(gov, asked[s].tasks, asked[s].failures) = "PERMITTED"
  BY <1>3 DEF PreGatePermitted, Verdict
<1>5. asked[s].tasks = succeeded[s] /\ asked[s].failures = failing[s]
  BY DEF BudgetInv, BudgetOf, Looping, LoopPoints
<1>6. /\ succeeded[s] \in Nat /\ failing[s] \in Nat
      /\ gov.maxTasks \in Nat /\ gov.maxFailures \in Nat
  BY <1>1 DEF TypeOK
<1>7. ~ (asked[s].tasks >= gov.maxTasks) /\ ~ (asked[s].failures >= gov.maxFailures)
  BY <1>4 DEF EvaluateContinuation
<1> QED BY <1>5, <1>6, <1>7

\* A loop goes on to another task only below both limits of that moment,
\* whatever object activeSession is by then, if start() is called when nothing
\* is under way and stop() is not called while a start() is.
THEOREM BudgetIsKept ==
  ASSUME PatientStart, PatientStop
  PROVE  Spec => BudgetKept
<1>1. Init => StoreInv
  BY InitialStore
<1>2. Init => LoopInv /\ BudgetInv
  BY DEF Init, LoopInv, BudgetInv, BudgetOf, Labels, Underway, Starting, Looping,
         LoopPoints, Calls
<1>3. StoreInv /\ [Next]_vars => StoreInv'
  BY StoreStep
<1>4. LoopInv /\ [Next]_vars => LoopInv'
  BY PatientStart, LoopStep_OneLoop
<1>5. StoreInv /\ LoopInv /\ BudgetInv /\ [Next]_vars => BudgetInv'
  BY PatientStart, PatientStop, BudgetStep
<1>6. StoreInv /\ LoopInv /\ BudgetInv /\ [Next]_vars =>
        [\A s \in Sessions : pc[s] = "preGate" /\ pc'[s] = "recorded" =>
           succeeded[s] < gov.maxTasks /\ failing[s] < gov.maxFailures]_vars
  BY GateOfTask
<1> QED BY <1>1, <1>2, <1>3, <1>4, <1>5, <1>6, PTL DEF Spec, BudgetKept

-----------------------------------------------------------------------------
Loads == [at : {"idle", "row", "kill", "store"}, began : Nat \cup {Never},
          level : Levels \cup {Never}, file : BOOLEAN, kill : BOOLEAN]

\* Whatever was learnt at or before `time` does not hide obstacle b.
Noticed(b, time) == since[b] = Never \/ time <= since[b]

\* What the load of a caller has looked at so far, it saw no earlier than when
\* the load began.
LoadSound(c) ==
  /\ load[c].at # "idle" => load[c].began \in Nat /\ load[c].began <= now
  /\ load[c].at \in {"kill", "store"} =>
       /\ load[c].level \in Levels
       /\ Noticed("outage", load[c].began)
       /\ load[c].level > 0 => Noticed("level", load[c].began)
  /\ load[c].at = "kill" /\ ~ load[c].file => Noticed("file", load[c].began)
  /\ load[c].at = "store" /\ ~ load[c].kill =>
       Noticed("file", load[c].began) /\ Noticed("kill", load[c].began)

\* A cache that permits was loaded before any obstacle that stands appeared.
CacheSound(p) ==
  cache[p] # Never =>
    /\ cache[p].expires <= now + Ttl
    /\ EvaluateClaim(cache[p]) =>
         \A b \in Obstacles : since[b] = Never \/ cache[p].expires <= since[b] + Ttl

GateInv ==
  /\ CacheTypeOK
  /\ \A b \in Obstacles : /\ since[b] # Never => since[b] <= now
                          /\ since[b] = Never <=> ~ Stands(b, row, file, up)
  /\ \A c \in Callers : LoadSound(c)
  /\ \A p \in Processes : CacheSound(p)

\* An obstacle that appears, appears now.
LEMMA BecomesSince ==
  ASSUME GateInv, NEW r \in [level : Levels, kill : BOOLEAN], NEW f \in BOOLEAN,
         NEW u \in BOOLEAN, Becomes(r, f, u)
  PROVE  /\ since' \in [Obstacles -> Nat \cup {Never}]
         /\ \A b \in Obstacles :
              /\ since[b] # Never => since'[b] \in {Never, since[b]}
              /\ since[b] = Never => since'[b] \in {Never, now}
              /\ since'[b] = Never <=> ~ Stands(b, r, f, u)
<1>1. /\ now \in Nat /\ since \in [Obstacles -> Nat \cup {Never}]
  BY CacheAssumption DEF GateInv, CacheTypeOK
<1>2. \A b \in Obstacles : since'[b] =
         IF ~ Stands(b, r, f, u) THEN Never
         ELSE IF since[b] = Never THEN now ELSE since[b]
  BY DEF Becomes
<1>3. since' \in [Obstacles -> Nat \cup {Never}]
  BY <1>1 DEF Becomes
<1>4. now # Never
  BY <1>1, CacheAssumption
<1> QED BY <1>1, <1>2, <1>3, <1>4

\* What is cached and what is being loaded is no later than now.
LEMMA WorldStep ==
  ASSUME GateInv, CacheTypeOK', NEW r \in [level : Levels, kill : BOOLEAN], NEW f \in BOOLEAN,
         NEW u \in BOOLEAN, Becomes(r, f, u), UNCHANGED << now, cache, load >>
  PROVE  GateInv'
<1>1. /\ row' = r /\ file' = f /\ up' = u
      /\ now \in Nat /\ since' \in [Obstacles -> Nat \cup {Never}]
      /\ \A b \in Obstacles :
           /\ since[b] # Never => since'[b] \in {Never, since[b]}
           /\ since[b] = Never => since'[b] \in {Never, now}
           /\ since'[b] = Never <=> ~ Stands(b, r, f, u)
  BY BecomesSince, CacheAssumption DEF Becomes, GateInv, CacheTypeOK
<1>2. \A b \in Obstacles, time \in Nat : time <= now /\ Noticed(b, time) => Noticed(b, time)'
  BY <1>1 DEF Noticed
<1>3. ASSUME NEW c \in Callers PROVE LoadSound(c)'
  <2>1. LoadSound(c) /\ load'[c] = load[c] /\ load[c] \in Loads
    BY DEF GateInv, CacheTypeOK, Loads
  <2>2. /\ load[c].at \in {"kill", "store"} => load[c].at # "idle"
        /\ "outage" \in Obstacles /\ "level" \in Obstacles
        /\ "file" \in Obstacles /\ "kill" \in Obstacles
    BY DEF Obstacles
  <2> QED BY <1>2, <2>1, <2>2 DEF LoadSound
<1>4. ASSUME NEW p \in Processes PROVE CacheSound(p)'
  <2> SUFFICES ASSUME cache[p] # Never PROVE CacheSound(p)'
    BY DEF CacheSound
  <2>1. /\ cache[p] \in [level : Levels, kill : BOOLEAN, expires : Nat] /\ CacheSound(p)
    BY DEF GateInv, CacheTypeOK
  <2>2. cache[p].expires \in Nat /\ cache[p].expires <= now + Ttl
    BY <2>1 DEF CacheSound
  <2>3. \A b \in Obstacles : EvaluateClaim(cache[p]) =>
          since'[b] = Never \/ cache[p].expires <= since'[b] + Ttl
    BY <1>1, <2>1, <2>2 DEF CacheSound
  <2> QED BY <2>2, <2>3 DEF CacheSound
<1>5. \A b \in Obstacles : /\ since'[b] # Never => since'[b] <= now
                           /\ since'[b] = Never <=> ~ Stands(b, row', file', up')
  BY <1>1 DEF GateInv, CacheTypeOK
<1> QED BY <1>3, <1>4, <1>5 DEF GateInv

\* A step of a caller's load, and what it does to the cache of its process.
LEMMA GateStep ==
  ASSUME GateInv, NEW c \in Callers, Gate(c)
  PROVE  GateInv'
<1> DEFINE l == load[c]
<1>1. /\ CacheTypeOK /\ LoadSound(c) /\ l \in Loads /\ now \in Nat /\ Ttl \in Nat
      /\ ProcessOf[c] \in Processes /\ ProcessOf \in [Callers -> Processes]
  BY CacheAssumption DEF GateInv, CacheTypeOK, Loads
<1>2. /\ UNCHANGED << row, up, file, now, request, since, cacheChanges >>
  BY DEF Gate, AskCached, Ask, ReadRow, ReadKill, StoreLimits, TakeAnswer
<1>3. verdict' \in [Callers -> {"none", "permitted", "denied"}]
  BY <1>1 DEF CacheTypeOK, Gate, AskCached, Ask, ReadRow, ReadKill, StoreLimits, TakeAnswer, Answer
<1>4. ASSUME NEW m \in Loads, load' = [load EXCEPT ![c] = m],
             UNCHANGED cache,
             m.at # "idle" => m.began \in Nat /\ m.began <= now,
             m.at \in {"kill", "store"} =>
               /\ m.level \in Levels
               /\ Noticed("outage", m.began)
               /\ m.level > 0 => Noticed("level", m.began),
             m.at = "kill" /\ ~ m.file => Noticed("file", m.began),
             m.at = "store" /\ ~ m.kill => Noticed("file", m.began) /\ Noticed("kill", m.began)
      PROVE  GateInv'
  <2>1. load' \in [Callers -> Loads] /\ load'[c] = m
        /\ \A d \in Callers \ {c} : load'[d] = load[d]
    BY <1>1, <1>4 DEF CacheTypeOK, Loads
  <2>2. CacheTypeOK'
    BY <1>1, <1>2, <1>3, <1>4, <2>1 DEF CacheTypeOK, Loads
  <2>3. ASSUME NEW d \in Callers PROVE LoadSound(d)'
    <3>1. CASE d = c
      BY <1>2, <1>4, <2>1, <3>1 DEF LoadSound, Noticed
    <3>2. CASE d # c
      BY <1>2, <2>1, <3>2 DEF GateInv, LoadSound, Noticed
    <3> QED BY <3>1, <3>2
  <2>4. \A p \in Processes : CacheSound(p)'
    BY <1>2, <1>4 DEF GateInv, CacheSound
  <2> QED BY <1>2, <2>2, <2>3, <2>4 DEF GateInv
<1>5. ASSUME UNCHANGED << load, cache >> PROVE GateInv'
  BY <1>2, <1>3, <1>5 DEF GateInv, CacheTypeOK, LoadSound, Noticed, CacheSound
<1>6. CASE AskCached(c) \/ TakeAnswer(c)
  BY <1>5, <1>6 DEF AskCached, TakeAnswer
<1>7. CASE Ask(c)
  <2> DEFINE i == [Idle EXCEPT !.at = "row"]
             m == [i EXCEPT !.began = now]
  <2>1. m \in Loads /\ m.at = "row" /\ m.began = now
    <3>1. \A j \in Loads : [j EXCEPT !.at = "row"] \in Loads /\ [j EXCEPT !.at = "row"].at = "row"
      BY DEF Loads
    <3>2. Idle \in Loads
      BY DEF Loads, Idle
    <3>3. i \in Loads /\ i.at = "row"
      BY <3>1, <3>2
    <3> HIDE DEF i
    <3> QED BY <1>1, <3>3 DEF Loads
  <2>2. load' = [load EXCEPT ![c] = m] /\ UNCHANGED cache
    BY <1>7 DEF Ask
  <2> HIDE DEF m
  <2>3. m.began \in Nat /\ m.began <= now /\ m.at # "kill" /\ m.at # "store"
    BY <1>1, <2>1
  <2> QED BY <1>4, <2>1, <2>2, <2>3
<1>8. CASE ReadRow(c)
  <2>1. CASE up
    <3> DEFINE m1 == [l EXCEPT !.at = "kill"]
               m2 == [m1 EXCEPT !.level = row.level]
               m == [m2 EXCEPT !.file = file]
    <3>1. load' = [load EXCEPT ![c] = m] /\ UNCHANGED cache
      <4>1. load' = [load EXCEPT ![c].at = "kill", ![c].level = row.level, ![c].file = file]
        BY <1>8, <2>1 DEF ReadRow
      <4> QED BY <1>1, <1>8, <4>1 DEF CacheTypeOK, ReadRow
    <3>2. /\ m \in Loads /\ m.at = "kill" /\ m.began = l.began /\ m.level = row.level
          /\ m.file = file /\ l.at = "row"
      <4>1. m1 \in Loads /\ m1.at = "kill" /\ m1.began = l.began
        BY <1>1 DEF Loads
      <4> HIDE DEF m1
      <4>2. /\ m2 \in Loads /\ m2.at = "kill" /\ m2.began = l.began /\ m2.level = row.level
        BY <1>1, <4>1 DEF Loads, CacheTypeOK
      <4> HIDE DEF m2
      <4> QED BY <1>1, <1>8, <4>2 DEF Loads, CacheTypeOK, ReadRow
    <3>3. /\ l.began \in Nat /\ l.began <= now /\ row.level \in Levels
          /\ Noticed("outage", l.began)
          /\ row.level > 0 => Noticed("level", l.began)
          /\ ~ file => Noticed("file", l.began)
      BY <1>1, <2>1, <3>2 DEF LoadSound, GateInv, CacheTypeOK, Stands, Noticed, Obstacles, Levels
    <3> HIDE DEF m
    <3> QED BY <1>4, <3>1, <3>2, <3>3
  <2>2. CASE ~ up
    <3>1. load' = [load EXCEPT ![c] = Idle] /\ UNCHANGED cache
      BY <1>8, <2>2 DEF ReadRow
    <3>2. Idle \in Loads /\ Idle.at = "idle"
      BY DEF Idle, Loads
    <3> QED BY <1>4, <3>1, <3>2
  <2> QED BY <2>1, <2>2
<1>9. CASE ReadKill(c)
  <2> DEFINE m1 == [l EXCEPT !.at = "store"]
             m == [m1 EXCEPT !.kill = l.file \/ ~ up \/ row.kill]
  <2>1. load' = [load EXCEPT ![c] = m] /\ UNCHANGED cache
    <3>1. load' = [load EXCEPT ![c].at = "store", ![c].kill = l.file \/ ~ up \/ row.kill]
      BY <1>9 DEF ReadKill
    <3> QED BY <1>1, <1>9, <3>1 DEF CacheTypeOK, ReadKill
  <2>2. /\ m \in Loads /\ m.at = "store" /\ m.began = l.began /\ m.level = l.level
        /\ m.kill = (l.file \/ ~ up \/ row.kill) /\ l.at = "kill"
    <3>1. m1 \in Loads /\ m1.at = "store" /\ m1.began = l.began /\ m1.level = l.level
      BY <1>1 DEF Loads
    <3> HIDE DEF m1
    <3> QED BY <1>1, <1>9, <3>1 DEF Loads, CacheTypeOK, ReadKill
  <2>3. /\ l.began \in Nat /\ l.began <= now /\ l.level \in Levels
        /\ Noticed("outage", l.began)
        /\ l.level > 0 => Noticed("level", l.began)
        /\ ~ m.kill => Noticed("file", l.began) /\ Noticed("kill", l.began)
    BY <1>1, <2>2 DEF LoadSound, GateInv, CacheTypeOK, Stands, Noticed, Obstacles
  <2> HIDE DEF m
  <2> QED BY <1>4, <2>1, <2>2, <2>3
<1>10. CASE StoreLimits(c)
  <2> DEFINE p == ProcessOf[c]
             k == [level |-> l.level, kill |-> l.kill, expires |-> l.began + Ttl]
  <2>1. /\ l.at = "store" /\ l.began \in Nat /\ l.began <= now /\ l.level \in Levels
        /\ k \in [level : Levels, kill : BOOLEAN, expires : Nat]
    BY <1>1, <1>10 DEF StoreLimits, LoadSound, Loads
  <2>2. /\ cache' = [cache EXCEPT ![p] = k] /\ load' = [load EXCEPT ![c] = Idle]
    BY <1>10 DEF StoreLimits
  <2>3. CacheTypeOK'
    <3>1. Idle \in Loads
      BY DEF Idle, Loads
    <3> HIDE DEF k
    <3> QED BY <1>1, <1>2, <1>3, <2>1, <2>2, <3>1 DEF CacheTypeOK, Loads
  <2>4. ASSUME NEW d \in Callers PROVE LoadSound(d)'
    <3>1. CASE d = c
      <4>1. load'[c] = Idle
        BY <1>1, <2>2 DEF CacheTypeOK
      <4> QED BY <3>1, <4>1 DEF LoadSound, Idle
    <3>2. CASE d # c
      BY <1>1, <1>2, <2>2, <3>2 DEF GateInv, LoadSound, Noticed, CacheTypeOK
    <3> QED BY <3>1, <3>2
  <2>5. ASSUME NEW q \in Processes PROVE CacheSound(q)'
    <3>1. CASE q = p
      <4>1. cache'[p] = k
        BY <1>1, <2>2 DEF CacheTypeOK
      <4>2. k.expires = l.began + Ttl /\ k.expires <= now + Ttl
        BY <1>1, <2>1
      <4>3. ASSUME EvaluateClaim(k), NEW b \in Obstacles
            PROVE  since[b] = Never \/ k.expires <= since[b] + Ttl
        <5>1. l.level > 0 /\ ~ l.kill
          BY <4>3 DEF EvaluateClaim
        <5>2. Noticed(b, l.began)
          BY <1>1, <2>1, <5>1 DEF LoadSound, Obstacles
        <5>3. since[b] \in Nat \cup {Never}
          BY <1>1 DEF CacheTypeOK
        <5> QED BY <1>1, <2>1, <4>2, <5>2, <5>3 DEF Noticed
      <4> HIDE DEF k
      <4> QED BY <1>2, <3>1, <4>1, <4>2, <4>3 DEF CacheSound
    <3>2. CASE q # p
      BY <1>1, <1>2, <2>2, <3>2 DEF GateInv, CacheSound, CacheTypeOK
    <3> QED BY <3>1, <3>2
  <2> QED BY <1>2, <2>3, <2>4, <2>5 DEF GateInv
<1> QED BY <1>6, <1>7, <1>8, <1>9, <1>10 DEF Gate

\* Time only makes what was learnt older.
LEMMA TickStep ==
  ASSUME GateInv, Tick
  PROVE  GateInv'
<1>1. /\ CacheTypeOK /\ now \in Nat /\ now' \in Nat /\ now' = now + 1 /\ Ttl \in Nat
      /\ UNCHANGED << row, up, file, cache, load, verdict, request, since, cacheChanges >>
  BY CacheAssumption DEF Tick, GateInv, CacheTypeOK
<1>2. CacheTypeOK'
  BY <1>1, CacheAssumption DEF Tick, CacheTypeOK
<1>3. ASSUME NEW c \in Callers PROVE LoadSound(c)'
  BY <1>1 DEF GateInv, LoadSound, Noticed
<1>4. ASSUME NEW p \in Processes PROVE CacheSound(p)'
  <2> SUFFICES ASSUME cache[p] # Never PROVE CacheSound(p)'
    BY <1>1 DEF CacheSound
  <2>1. cache[p].expires \in Nat /\ cache[p].expires <= now + Ttl
    BY <1>1 DEF GateInv, CacheSound, CacheTypeOK
  <2> QED BY <1>1, <2>1 DEF GateInv, CacheSound
<1>5. \A b \in Obstacles : since[b] # Never => since[b] <= now'
  BY <1>1 DEF GateInv, CacheTypeOK
<1> QED BY <1>1, <1>2, <1>3, <1>4, <1>5 DEF GateInv

\* The governance routes, and the changes of the surroundings.
LEMMA OtherStep ==
  ASSUME GateInv, Change \/ \E o \in Operators : Route(o)
  PROVE  GateInv'
<1>1. CacheTypeOK /\ row \in [level : Levels, kill : BOOLEAN] /\ up \in BOOLEAN /\ file \in BOOLEAN
  BY DEF GateInv, CacheTypeOK
<1>2. ASSUME NEW r \in [level : Levels, kill : BOOLEAN], NEW f \in BOOLEAN, NEW u \in BOOLEAN,
             Becomes(r, f, u), UNCHANGED << now, cache, load, verdict >>,
             request' \in [Operators -> {"none", "upsertOn", "upsertOff", "invalidate", "answered"}],
             cacheChanges' \in 0 .. MaxCacheChanges
      PROVE  GateInv'
  <2>1. CacheTypeOK'
    BY <1>1, <1>2, BecomesSince DEF CacheTypeOK, Becomes
  <2> QED BY <1>2, <2>1, WorldStep
<1>3. CASE Change
  <2>1. cacheChanges' \in 0 .. MaxCacheChanges /\ UNCHANGED << now, cache, load, verdict, request >>
    BY <1>1, <1>3, CacheAssumption DEF Change, CacheTypeOK
  <2>2. Becomes(row, ~ file, up) \/ Becomes(row, file, ~ up)
    BY <1>3 DEF Change
  <2> QED BY <1>1, <1>2, <2>1, <2>2 DEF CacheTypeOK
<1>4. ASSUME NEW o \in Operators, Route(o) PROVE GateInv'
  <2>1. request' \in [Operators -> {"none", "upsertOn", "upsertOff", "invalidate", "answered"}]
    BY <1>1, <1>4, ZenonT(60) DEF CacheTypeOK, Route, SetKillSwitch, SetLimitsKillSwitch, UpsertLimits,
       Invalidate, RequestFails, At, Upserting
  <2>2. UNCHANGED << now, load, verdict, cacheChanges >>
    BY <1>4 DEF Route, SetKillSwitch, SetLimitsKillSwitch, UpsertLimits, Invalidate, RequestFails
  <2>3. ASSUME NEW r \in [level : Levels, kill : BOOLEAN], Becomes(r, file, up), UNCHANGED cache
        PROVE  GateInv'
    BY <1>1, <1>2, <2>1, <2>2, <2>3 DEF CacheTypeOK
  <2>4. CASE SetKillSwitch(o) \/ SetLimitsKillSwitch(o)
    <3>1. PICK kill \in BOOLEAN : Becomes([row EXCEPT !.kill = kill], file, up) /\ UNCHANGED cache
      BY <2>4 DEF SetKillSwitch, SetLimitsKillSwitch
    <3>2. [row EXCEPT !.kill = kill] \in [level : Levels, kill : BOOLEAN]
      BY <1>1
    <3> QED BY <2>3, <3>1, <3>2
  <2>5. CASE UpsertLimits(o)
    <3>1. PICK kill \in BOOLEAN, level \in RowLevels :
                 Becomes([level |-> level, kill |-> kill], file, up) /\ UNCHANGED cache
      BY <2>5 DEF UpsertLimits
    <3>2. [level |-> level, kill |-> kill] \in [level : Levels, kill : BOOLEAN]
      BY CacheAssumption
    <3> QED BY <2>3, <3>1, <3>2
  <2>6. CASE Invalidate(o)
    <3>1. /\ cache' = [cache EXCEPT ![RouteProcess] = Never]
          /\ UNCHANGED << row, up, file, now, load, verdict, since, cacheChanges >>
      BY <2>6 DEF Invalidate
    <3>2. CacheTypeOK'
      BY <1>1, <2>1, <3>1 DEF CacheTypeOK
    <3>3. \A p \in Processes : cache'[p] \in {Never, cache[p]}
      BY <1>1, <3>1 DEF CacheTypeOK
    <3>4. \A p \in Processes : CacheSound(p)'
      BY <3>1, <3>3 DEF GateInv, CacheSound
    <3> QED BY <3>1, <3>2, <3>4 DEF GateInv, LoadSound, Noticed
  <2>7. CASE RequestFails(o)
    <3>1. UNCHANGED << row, up, file, now, cache, load, verdict, since, cacheChanges >>
      BY <2>7 DEF RequestFails
    <3> QED BY <1>1, <2>1, <3>1 DEF GateInv, CacheTypeOK, LoadSound, Noticed, CacheSound
  <2> QED BY <1>4, <2>4, <2>5, <2>6, <2>7 DEF Route
<1> QED BY <1>3, <1>4

LEMMA GateInductive == CacheSpec => []GateInv
<1>1. CacheInit => GateInv
  <2> SUFFICES ASSUME CacheInit PROVE GateInv
    OBVIOUS
  <2>1. CacheTypeOK
    <3>1. Idle \in Loads
      BY DEF Loads, Idle
    <3>2. row \in [level : Levels, kill : BOOLEAN]
      BY CacheAssumption DEF CacheInit
    <3>3. load \in [Callers -> Loads]
      BY <3>1 DEF CacheInit
    <3>4. /\ cache \in [Processes ->
                [level : Levels, kill : BOOLEAN, expires : Nat] \cup {Never}]
          /\ since \in [Obstacles -> Nat \cup {Never}]
      BY DEF CacheInit
    <3>5. /\ verdict \in [Callers -> {"none", "permitted", "denied"}]
          /\ request \in [Operators -> {"none", "upsertOn", "upsertOff", "invalidate", "answered"}]
      BY DEF CacheInit
    <3>6. now \in 0 .. MaxNow /\ cacheChanges \in 0 .. MaxCacheChanges
      BY CacheAssumption DEF CacheInit
    <3> QED BY <3>2, <3>3, <3>4, <3>5, <3>6 DEF CacheInit, CacheTypeOK, Loads
  <2>2. \A c \in Callers : LoadSound(c)
    BY DEF CacheInit, LoadSound, Idle
  <2>caches. \A p \in Processes : CacheSound(p)
    BY DEF CacheInit, CacheSound
  <2>4. \A b \in Obstacles : since[b] = IF Stands(b, row, file, up) THEN 0 ELSE Never
    BY DEF CacheInit
  <2>5. now = 0 /\ Never # 0
    BY CacheAssumption DEF CacheInit
  <2> QED BY <2>1, <2>2, <2>caches, <2>4, <2>5 DEF GateInv
<1>2. GateInv /\ [CacheNext]_cacheVars => GateInv'
  <2> SUFFICES ASSUME GateInv, [CacheNext]_cacheVars PROVE GateInv'
    OBVIOUS
  <2>1. CASE UNCHANGED cacheVars
    BY <2>1 DEF cacheVars, GateInv, CacheTypeOK, LoadSound, Noticed, CacheSound
  <2> QED BY <2>1, GateStep, TickStep, OtherStep DEF CacheNext
<1> QED BY <1>1, <1>2, PTL DEF CacheSpec

\* Every variable keeps its type, and a load that permits has a level.
THEOREM GovernanceTypes == CacheSpec => []CacheTypeOK
<1>1. GateInv => CacheTypeOK
  BY DEF GateInv
<1> QED BY <1>1, GateInductive, PTL

\* An obstacle that stands without a break stops Gate A of every process
\* Ttl after it appeared, but for an evaluation that had begun before, however
\* the queries of the loads interleave with the changes.
THEOREM ObstaclesAreNoticed == CacheSpec => ObstaclesReachEveryGate
<1>1. ASSUME GateInv, [CacheNext]_cacheVars, NEW c \in Callers, Permits(c),
             NEW b \in Obstacles, since[b] # Never
      PROVE  \/ now < since[b] + Ttl
             \/ load[c].at = "store" /\ load[c].began <= since[b]
  <2>1. /\ CacheTypeOK /\ now \in Nat /\ Ttl \in Nat /\ since[b] \in Nat
        /\ ProcessOf[c] \in Processes /\ LoadSound(c)
    BY <1>1, CacheAssumption DEF GateInv, CacheTypeOK
  <2>2. verdict'[c] # verdict[c]
    BY <1>1 DEF Permits
  <2>3. \A d \in Callers : Gate(d) => d = c
    <3> SUFFICES ASSUME NEW d \in Callers, Gate(d), d # c PROVE FALSE
      OBVIOUS
    <3> QED BY <2>1, <2>2 DEF CacheTypeOK, Gate, AskCached, Ask, ReadRow, ReadKill, StoreLimits,
            TakeAnswer, Answer
  <2>4. Gate(c)
    BY <1>1, <2>2, <2>3 DEF CacheNext, Route, SetKillSwitch, SetLimitsKillSwitch, UpsertLimits,
       Invalidate, RequestFails, Change, Tick, cacheVars
  <2>5. CASE AskCached(c)
    <3> DEFINE p == ProcessOf[c]
    <3>1. cache[p] # Never /\ now < cache[p].expires /\ EvaluateClaim(cache[p])
      BY <1>1, <2>1, <2>5 DEF AskCached, Cached, Answer, CacheTypeOK, Permits
    <3>2. cache[p].expires <= since[b] + Ttl /\ cache[p].expires \in Nat
      BY <1>1, <2>1, <3>1 DEF GateInv, CacheSound, CacheTypeOK
    <3> QED BY <2>1, <3>1, <3>2
  <2>6. CASE StoreLimits(c)
    <3>1. load[c].at = "store" /\ EvaluateClaim(load[c])
      BY <1>1, <2>1, <2>6 DEF StoreLimits, Answer, CacheTypeOK, Permits
    <3>2. Noticed(b, load[c].began)
      BY <2>1, <3>1 DEF LoadSound, EvaluateClaim, Obstacles
    <3> QED BY <1>1, <3>1, <3>2 DEF Noticed
  <2>7. ~ ReadRow(c)
    <3>1. ~ EvaluateClaim(FailClosed)
      BY DEF EvaluateClaim, FailClosed
    <3> QED BY <1>1, <2>1, <2>2, <3>1 DEF ReadRow, Answer, CacheTypeOK, Permits
  <2>8. ~ (Ask(c) \/ ReadKill(c) \/ TakeAnswer(c))
    BY <1>1, <2>1, <2>2 DEF Ask, ReadKill, TakeAnswer, CacheTypeOK, Permits
  <2> QED BY <2>4, <2>5, <2>6, <2>7, <2>8 DEF Gate
<1>2. GateInv /\ [CacheNext]_cacheVars =>
        [\A c \in Callers : Permits(c) =>
           \A b \in Obstacles :
             \/ since[b] = Never
             \/ now < since[b] + Ttl
             \/ load[c].at = "store" /\ load[c].began <= since[b]]_cacheVars
  BY <1>1
<1> QED BY <1>2, GateInductive, PTL DEF CacheSpec, ObstaclesReachEveryGate
=============================================================================
