---------------------------- MODULE MCScheduler -----------------------------
(* Small instances of Scheduler for TLC. *)
EXTENDS Scheduler

CONSTANTS s1, s2, p1

MCSessions == {s1, s2}
MCStops == {p1}

\* Level 3 with a budget, a level too low, and a limit of 0.  The kill switch
\* comes with FailClosed.
MCGovRows ==
  { [level |-> 3, kill |-> FALSE, maxTasks |-> 2, maxFailures |-> 2],
    [level |-> 2, kill |-> FALSE, maxTasks |-> 2, maxFailures |-> 2],
    [level |-> 4, kill |-> FALSE, maxTasks |-> 0, maxFailures |-> 0] }
=============================================================================
