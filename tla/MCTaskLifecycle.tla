-------------------------- MODULE MCTaskLifecycle ---------------------------
(* Small instances of TaskLifecycle for TLC. *)
EXTENDS TaskLifecycle, TLC

CONSTANTS t1, t2, d1, d2

MCOneTask == {t1}
MCTwoTasks == {t1, t2}
MCDaemons == {d1, d2}
MCOneDaemon == {d1}

\* An unclassified error, a governance denial and a validation failure: one
\* message for each decision the retry policy can take.
MCErrors == { {}, {"governance"}, {"validation"} }
MCTwoErrors == { {}, {"governance"} }

\* All tasks belong to one product.
MCProductOf == [t \in Tasks |-> "product"]

DaemonSymmetry == Permutations(Daemons)
=============================================================================
