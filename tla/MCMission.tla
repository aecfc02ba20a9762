----------------------------- MODULE MCMission -----------------------------
(* Two capabilities in a row, a critical one behind them and one nobody can reach. *)
EXTENDS Mission, TLC

CONSTANTS t1, t2, p1, p2

MCRegistered ==
  ("research" :> [category |-> "RESEARCH", dependencies |-> {"intent"}]) @@
  ("intent" :> [category |-> "FOUNDATION", dependencies |-> {}]) @@
  ("context" :> [category |-> "CONTEXT", dependencies |-> {"research"}]) @@
  ("learning" :> [category |-> "FEEDBACK", dependencies |-> {"fix"}])
MCInitialStatus == [c \in DOMAIN MCRegistered |->
                      CASE c = "intent" -> "VERIFIED" [] c = "learning" -> "PARTIAL" [] OTHER -> "ABSENT"]
MCGoals == {<<"context", "research">>, <<"new", "learning">>}
MCPlacements == {t1 :> p1 @@ t2 :> p1, t1 :> p1 @@ t2 :> p2}
=============================================================================
