----------------------------- MODULE MCLearning -----------------------------
(* A small office: two projects, three tasks, a finding seen in every task. *)
EXTENDS Learning, TLC

CONSTANTS none, t1, t2, t3, p1, p2, e1, e2, e3, e4, e5

MCTasks == {t1}
MCProjectOf == t1 :> p1

Finding(id, seq, task, noise, verified) ==
  [id |-> id, sequence |-> seq, type |-> "REVIEW_FINDING", actor |-> none, project |-> p1,
   task |-> task, rule |-> "RULE_SEC_1", component |-> none, text |-> <<"unsafe", noise>>,
   remediation |-> <<"escape", noise>>, reviewer |-> TRUE, qa |-> FALSE, verified |-> verified]

Other(id, seq, type, actor, project) ==
  [id |-> id, sequence |-> seq, type |-> type, actor |-> actor, project |-> project,
   task |-> t1, rule |-> none, component |-> none, text |-> <<"other", 1>>,
   remediation |-> none, reviewer |-> FALSE, qa |-> FALSE, verified |-> FALSE]

MCEvents == {Finding(e1, 1, t1, 1, FALSE), Finding(e2, 2, t2, 2, FALSE),
             Finding(e3, 3, t3, 3, TRUE), Other(e4, 1, "AGENT_FINISHED_WORK", "developer", p2),
             Other(e5, 4, "MESSAGE_SENT", "developer", p2)}
Outcome(task, exit, testExit, iteration, blockers) ==
  [task |-> task, exit |-> exit, status |-> none, reviewed |-> TRUE, iteration |-> iteration,
   findings |-> blockers, blockers |-> blockers, blocked |-> FALSE, passed |-> blockers = 0,
   testExit |-> testExit, tests |-> TRUE, failures |-> none, regressions |-> FALSE,
   remediation |-> TRUE]

MCFeedbacks == {Outcome(t1, "zero", "null", 1, 0), Outcome(t1, "zero", "zero", 3, 0)}
=============================================================================
