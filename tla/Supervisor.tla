----------------------------- MODULE Supervisor -----------------------------
(***************************************************************************)
(* ProductionServiceSupervisor: services are child processes, listed in    *)
(* pid files, restarted by timers when they crash and stopped by the       *)
(* operator; the supervisor itself may die and be started again while its  *)
(* children live on.  A task that keeps failing is worked off by            *)
(* the supervised worker: an attempt takes a live worker process, while    *)
(* the task's history is in the database and outlives every process.       *)
(*                                                                         *)
(* A process is the number of its spawn; a pid the system hands out again  *)
(* is not modelled.  A child that died and was not reaped yet still counts *)
(* as alive for process.kill(pid, 0), so a child's death and the 'exit'    *)
(* handler of the supervisor that spawned it are one step.                 *)
(***************************************************************************)
EXTENDS RetryPolicy, Sequences

-----------------------------------------------------------------------------
(* One task that keeps failing, judged by PdlRetryPolicy after each        *)
(* attempt: the policy's own promises over a whole history, apart from     *)
(* the processes of TaskLifecycle.                                         *)

CONSTANT Messages  \* the messages an attempt may fail with

ASSUME MessagesAssumption == Messages \subseteq SUBSET Features

VARIABLES
  history,  \* the messages of the failed attempts, oldest first
  delays,   \* the backoff before each retry
  fate      \* RETRY while the task is retried, then what became of it

historyVars == << history, delays, fate >>

retryCount == Len(delays)

HistoryTypeOK ==
  /\ history \in Seq(Messages)
  /\ delays \in Seq(Nat) /\ Len(delays) <= MaxRetries
  /\ fate \in {"RETRY", "DEAD_LETTER", "QUARANTINE"}

HistoryInit == history = << >> /\ delays = << >> /\ fate = "RETRY"

Fail(msg) ==
  /\ fate = "RETRY"
  /\ history' = Append(history, msg)
  /\ fate' = Evaluate(msg, retryCount)
  /\ IF fate' = "RETRY"
     THEN \E delay \in ComputeBackoff(retryCount) : delays' = Append(delays, delay)
     ELSE UNCHANGED delays

\* The policy gives every task up in the end: nothing happens after that.
Done == fate # "RETRY" /\ UNCHANGED historyVars

HistoryNext == (\E msg \in Messages : Fail(msg)) \/ Done

HistorySpec == HistoryInit /\ [][HistoryNext]_historyVars

-----------------------------------------------------------------------------

\* The second syntax or validation error of a task quarantines it: it is
\* neither retried again nor dead-lettered.
RepeatedValidationIsPoison ==
  Cardinality({ i \in 1 .. Len(history) : "validation" \in history[i] }) >= 2 =>
    fate = "QUARANTINE"

-----------------------------------------------------------------------------
(* The services and their supervisor                                       *)

CONSTANTS
  Services,     \* the registered services
  Worker,       \* the service that works off the task
  MaxRestarts,  \* descriptor.maxRestarts, 5 by default
  MaxDeaths,   \* bound: processes, the supervisor's included, that crash
  MaxCommands   \* bound: commands of the operator

ASSUME SupervisorAssumption ==
  /\ Worker \in Services
  /\ MaxRestarts \in Nat /\ MaxDeaths \in Nat /\ MaxCommands \in Nat

VARIABLES
  up,            \* the supervisor process lives
  shuttingDown,  \* isShuttingDown
  service,       \* states: the supervisor's record of each service
  timers,        \* restart timers pending for each service
  pidFile,       \* the process each service's pid file names, 0 without file
  alive,         \* the live processes of each service
  spawned,       \* the processes ever spawned of each service
  watched,       \* those whose 'exit' handler belongs to the living supervisor
  told,          \* the processes that were sent SIGINT
  deaths, commands

supervisorVars == << up, shuttingDown, service, timers, pidFile, alive, spawned,
                     watched, told, deaths, commands >>

ServiceStatuses == {"STOPPED", "STARTING", "RUNNING", "CRASHED", "RESTARTING"}

SupervisorTypeOK ==
  /\ up \in BOOLEAN /\ shuttingDown \in BOOLEAN
  /\ service \in [Services -> [status : ServiceStatuses, process : Nat, pid : Nat,
                               restarts : Nat]]
  /\ timers \in [Services -> Nat]
  /\ pidFile \in [Services -> Nat]
  /\ spawned \in [Services -> Nat]
  /\ \A s \in Services : alive[s] \cup watched[s] \cup told[s] \subseteq 1 .. spawned[s]

Registered == [status |-> "STOPPED", process |-> 0, pid |-> 0, restarts |-> 0]

SupervisorInit ==
  /\ up = TRUE /\ shuttingDown = FALSE
  /\ service = [s \in Services |-> Registered]
  /\ timers = [s \in Services |-> 0]
  /\ pidFile = [s \in Services |-> 0]
  /\ alive = [s \in Services |-> {}]
  /\ spawned = [s \in Services |-> 0]
  /\ watched = [s \in Services |-> {}]
  /\ told = [s \in Services |-> {}]
  /\ deaths = 0 /\ commands = 0

-----------------------------------------------------------------------------

IsPidAlive(s, pid) == pid \in alive[s]

\* Mutant: a service is spawned without looking at its pid file.
MustSpawn_Unchecked(s) == TRUE

\* The pid file of a live process keeps a second one from being spawned.
MustSpawn(s) == ~ IsPidAlive(s, pidFile[s])

\* startService of the services in `started`: a live process is adopted (its
\* record keeps whatever handle it had), any other is spawned, watched and
\* written to its pid file.
StartServices(started) ==
  LET fresh == { s \in started : MustSpawn(s) }
  IN  /\ spawned' = [s \in Services |-> spawned[s] + (IF s \in fresh THEN 1 ELSE 0)]
      /\ alive' = [s \in Services |->
                     IF s \in fresh THEN alive[s] \cup {spawned'[s]} ELSE alive[s]]
      /\ watched' = [s \in Services |->
                     IF s \in fresh THEN watched[s] \cup {spawned'[s]} ELSE watched[s]]
      /\ pidFile' = [s \in Services |->
                     IF s \in fresh THEN spawned'[s] ELSE pidFile[s]]
      /\ service' = [s \in Services |->
           IF s \notin started THEN service[s]
           ELSE IF s \in fresh
           THEN [service[s] EXCEPT !.status = "RUNNING", !.process = spawned'[s],
                                   !.pid = spawned'[s]]
           ELSE [service[s] EXCEPT !.status = "RUNNING", !.pid = pidFile[s]]]

\* Mutant: a service is only started from STOPPED.
Restart_FromStoppedOnly(s) ==
  IF ~ shuttingDown /\ service[s].status = "STOPPED"
  THEN StartServices({s})
  ELSE UNCHANGED << service, pidFile, alive, spawned, watched >>

\* The callback of a restart timer.
Restart(s) ==
  IF shuttingDown
  THEN UNCHANGED << service, pidFile, alive, spawned, watched >>
  ELSE StartServices({s})

TimerFires(s) ==
  /\ up /\ timers[s] > 0
  /\ timers' = [timers EXCEPT ![s] = @ - 1]
  /\ Restart(s)
  /\ UNCHANGED << up, shuttingDown, told, deaths, commands >>

\* The record of a service whose process exited: CRASHED for good once its
\* restarts, which nothing ever resets, exceed the limit.
AfterExit(record) ==
  IF shuttingDown
  THEN [record EXCEPT !.status = "STOPPED"]
  ELSE [record EXCEPT !.restarts = @ + 1,
          !.status = IF record.restarts + 1 <= MaxRestarts THEN "RESTARTING"
                                                           ELSE "CRASHED"]

\* The 'exit' handler: the pid file goes, whichever process it names.
OnExit(s) ==
  /\ pidFile' = [pidFile EXCEPT ![s] = 0]
  /\ service' = [service EXCEPT ![s] = AfterExit(@)]
  /\ timers' = [timers EXCEPT ![s] =
                  IF service'[s].status = "RESTARTING" THEN @ + 1 ELSE @]

\* A process dies: by itself, or because it was told to (SIGINT).  The
\* supervisor hears of its own children only.
ProcessExits(s, p) ==
  /\ p \in alive[s]
  /\ alive' = [alive EXCEPT ![s] = @ \ {p}]
  /\ watched' = [watched EXCEPT ![s] = @ \ {p}]
  /\ IF up /\ p \in watched[s]
     THEN OnExit(s)
     ELSE UNCHANGED << pidFile, service, timers >>

ServiceCrashes(s) ==
  /\ deaths < MaxDeaths /\ deaths' = deaths + 1
  /\ \E p \in alive[s] \ told[s] : ProcessExits(s, p)
  /\ UNCHANGED << up, shuttingDown, spawned, told, commands >>

ServiceObeysSignal(s) ==
  /\ \E p \in alive[s] \cap told[s] : ProcessExits(s, p)
  /\ UNCHANGED << up, shuttingDown, spawned, told, deaths, commands >>

\* A live process no pid file names.  The operator does not start anything
\* while one is left (see Start).
Unlisted == \E s \in Services : alive[s] \ {pidFile[s]} # {}

Command ==
  /\ up
  /\ commands < MaxCommands /\ commands' = commands + 1

\* The operator starts one service, or all (startAll ends a shutdown).
Start ==
  /\ Command /\ ~ Unlisted
  /\ \/ \E s \in Services : StartServices({s}) /\ UNCHANGED shuttingDown
     \/ StartServices(Services) /\ shuttingDown' = FALSE
  /\ UNCHANGED << up, timers, told, deaths >>

\* stopService: the child is told to stop, and forgotten at once.  A process
\* this supervisor adopted is forgotten without being told.
StopServices(stopped) ==
  /\ told' = [s \in Services |->
       IF s \in stopped THEN told[s] \cup ({service[s].process} \ {0}) ELSE told[s]]
  /\ pidFile' = [s \in Services |-> IF s \in stopped THEN 0 ELSE pidFile[s]]
  /\ service' = [s \in Services |->
       IF s \in stopped
       THEN [service[s] EXCEPT !.status = "STOPPED", !.process = 0, !.pid = 0]
       ELSE service[s]]

\* The operator stops one service, or all (stopAll begins a shutdown).  A
\* restart that is pending survives stopService, so he waits for it first.
Stop ==
  /\ Command
  /\ \/ \E s \in Services :
          timers[s] = 0 /\ StopServices({s}) /\ UNCHANGED shuttingDown
     \/ StopServices(Services) /\ shuttingDown' = TRUE
  /\ UNCHANGED << up, timers, alive, spawned, watched, deaths >>

\* The supervisor dies: its records, timers and handlers are gone, the
\* services and the pid files stay.
SupervisorCrashes ==
  /\ up /\ up' = FALSE
  /\ deaths < MaxDeaths /\ deaths' = deaths + 1
  /\ timers' = [s \in Services |-> 0]
  /\ watched' = [s \in Services |-> {}]
  /\ service' = [s \in Services |-> Registered]
  /\ shuttingDown' = FALSE
  /\ UNCHANGED << pidFile, alive, spawned, told, commands >>

\* A new supervisor registers its services; Start adopts what still lives.
SupervisorReturns ==
  /\ ~ up /\ up' = TRUE
  /\ UNCHANGED << shuttingDown, service, timers, pidFile, alive, spawned, watched,
                  told, deaths, commands >>

\* An attempt at the task fails in a live worker process.
AttemptFails(msg) ==
  /\ alive[Worker] # {}
  /\ Fail(msg)
  /\ UNCHANGED supervisorVars

SupervisorStep ==
  /\ \/ \E s \in Services : TimerFires(s) \/ ServiceCrashes(s) \/ ServiceObeysSignal(s)
     \/ Start
     \/ Stop
     \/ SupervisorCrashes
     \/ SupervisorReturns
  /\ UNCHANGED historyVars

SupervisedInit == HistoryInit /\ SupervisorInit

SupervisedNext == (\E msg \in Messages : AttemptFails(msg)) \/ SupervisorStep

\* Fairness: the event loop runs the timers that are due, and a worker that
\* lives goes on attempting the task.
SupervisedSpec ==
  /\ SupervisedInit
  /\ [][SupervisedNext]_<< historyVars, supervisorVars >>
  /\ \A s \in Services : WF_<< historyVars, supervisorVars >>(TimerFires(s) /\ UNCHANGED historyVars)
  /\ WF_<< historyVars, supervisorVars >>(\E msg \in Messages : AttemptFails(msg))

-----------------------------------------------------------------------------

\* The pid file is enough to keep one process per service, through restart
\* timers, restarts by hand and a supervisor that died ("Preventing duplicate
\* process", supervisor.ts:88), as long as the operator waits for a stopped
\* process to be gone before he starts the service again, and for a pending
\* restart before he stops one.
OneProcessPerService == \A s \in Services : Cardinality(alive[s]) <= 1

\* A down service is given up openly.
Parked ==
  \/ ~ up
  \/ service[Worker].status \in {"CRASHED", "STOPPED"}
  \/ service[Worker].process = 0

\* Crashes do not lose the task: it is settled in the end, unless the worker
\* is left CRASHED or STOPPED, or was only adopted and is not watched.
TaskIsSettled == <>(fate # "RETRY") \/ <>[]Parked
=============================================================================
