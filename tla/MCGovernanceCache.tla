------------------------- MODULE MCGovernanceCache --------------------------
(* Small instances of GovernanceCache for TLC. *)
EXTENDS GovernanceCache, TLC

CONSTANTS api, daemon, c1, c2, o1

MCProcesses == {api, daemon}
MCCallers == {c1, c2}
MCProcessOf == (c1 :> api) @@ (c2 :> daemon)
MCOneOperator == {o1}
MCRowLevels == {0, 3}
=============================================================================
