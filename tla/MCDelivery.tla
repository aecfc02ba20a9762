----------------------------- MODULE MCDelivery -----------------------------
(* A small instance of Delivery for TLC. *)
EXTENDS Delivery, TLC

CONSTANTS a, b, g1

MCShas == {a, b}
MCGates == {g1}
ShaSymmetry == Permutations(MCShas)

\* Neither source demands anything; an approval (with a weaker rule after it)
\* and the check; a linear history.
MCRulesets ==
  { << >>,
    << RawRule("pull_request", 1, {"codeOwners", "threads"}, {}, {}),
       RawRule("required_status_checks", 0, {}, {"ci"}, {}),
       RawRule("pull_request", 0, {}, {}, {"merge", "squash"}) >>,
    << RawRule("required_linear_history", 0, {}, {}, {}) >> }

\* Every combination of what switches a delivery on, or off.
MCSettings == [killed : BOOLEAN, enabled : BOOLEAN, eligible : BOOLEAN, level : {4, 5},
               listed : BOOLEAN]

MCProtections ==
  { Unprotected,
    RawProtection(1, {"codeOwners", "threads"}, {}, {"ci"}),
    RawProtection(0, {"linear"}, {}, {}) }
=============================================================================
