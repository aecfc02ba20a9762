----------------------------- MODULE Governance -----------------------------
(***************************************************************************)
(* PdlGovernanceEngine as pure operators: the limits an engine derives     *)
(* from the pdl_governance_state row and the gates it evaluates on them.   *)
(* GovernanceCache adds the awaits and the cache of loadLimits();          *)
(* Scheduler uses Gate E.  Products, durations and tool rounds are not     *)
(* told apart here.                                                        *)
(***************************************************************************)
EXTENDS Naturals

Levels == 0 .. 4    \* the CHECK constraint of active_level

\* DEFAULT_FAIL_CLOSED_LIMITS
FailClosed == [level |-> 0, kill |-> TRUE, maxTasks |-> 1, maxFailures |-> 1]

\* Number(x) || default: a limit of 0 becomes the default.
OrDefault(n, default) == IF n = 0 THEN default ELSE n

\* The limits for a row whose kill switch was read as kill.
LimitsOf(row, kill) ==
  [level |-> row.level, kill |-> kill,
   maxTasks |-> OrDefault(row.maxTasks, FailClosed.maxTasks),
   maxFailures |-> OrDefault(row.maxFailures, FailClosed.maxFailures)]

\* Gate A, before a task is known: executeOnce() passes none.
EvaluateClaim(limits) == ~ limits.kill /\ limits.level > 0

\* Mutant: the limit is compared with the tasks before the last one.
EvaluateContinuation_OffByOne(limits, tasks, failures) ==
  IF limits.kill THEN "KILL_SWITCH_ACTIVE"
  ELSE IF limits.level < 3 THEN "LEVEL_EXCEEDED"
  ELSE IF tasks > limits.maxTasks THEN "CONSECUTIVE_TASKS_EXCEEDED"
  ELSE IF failures >= limits.maxFailures THEN "CONSECUTIVE_FAILURES_EXCEEDED"
  ELSE "PERMITTED"

\* Gate E, its reason codes in the order they are tried.
EvaluateContinuation(limits, tasks, failures) ==
  IF limits.kill THEN "KILL_SWITCH_ACTIVE"
  ELSE IF limits.level < 3 THEN "LEVEL_EXCEEDED"
  ELSE IF tasks >= limits.maxTasks THEN "CONSECUTIVE_TASKS_EXCEEDED"
  ELSE IF failures >= limits.maxFailures THEN "CONSECUTIVE_FAILURES_EXCEEDED"
  ELSE "PERMITTED"
=============================================================================
