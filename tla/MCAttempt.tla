----------------------------- MODULE MCAttempt -----------------------------
(***************************************************************************)
(* The tasks Attempt is checked on: each is the ordinary one with the      *)
(* tools, faults and surroundings that make one family of cases happen.    *)
(***************************************************************************)
EXTENDS Attempt

GoodRequest ==
  [defects |-> {}, outcome |-> TRUE, listed |-> FALSE, vague |-> FALSE,
   target |-> [named |-> TRUE, parses |-> TRUE, ownerAllowed |-> TRUE, branch |-> "allowed"],
   given |-> {"validationPlan"}, refined |-> {"acceptanceCriteria", "risks"}, refiner |-> "answers",
   preflight |-> [c \in Categories \ {"EXTERNAL_RESEARCH"} |-> "found"]]

Authority ==
  [wellFormed |-> TRUE, sameVersion |-> TRUE, requested |-> {"WORKSPACE_WRITE"}, granted |-> {"WORKSPACE_WRITE"},
   held |-> {"WORKSPACE_WRITE"}, delegates |-> FALSE, approval |-> "none", scope |-> {}, policyAllows |-> TRUE]

Plain ==
  [flavour |-> "router", request |-> GoodRequest, authority |-> Authority, governed |-> TRUE,
   clone |-> [isRepo |-> TRUE, hasOrigin |-> TRUE, hasBranch |-> TRUE, originIsTarget |-> TRUE],
   product |-> "ok", branch |-> "feature", level |-> 5, prototype |-> FALSE, runtime |-> "none", token |-> TRUE,
   env |-> EnvFacts, tools |-> {"edit"}, answers |-> {"COMPLETED"}, http |-> 429,
   testWrites |-> {}, testFailures |-> {}, deaf |-> FALSE, slow |-> FALSE, cancels |-> FALSE,
   gates |-> FALSE, crashes |-> FALSE, requeues |-> FALSE, others |-> FALSE, faults |-> FALSE]

Correction == [Plain EXCEPT !.flavour = "correction"]
Codex == [Plain EXCEPT !.flavour = "codex"]

\* Two runs of one task, a repository that moves and a network that fails.
Overlapping == {[Plain EXCEPT !.requeues = TRUE, !.faults = TRUE],
                [Plain EXCEPT !.requeues = TRUE, !.others = TRUE, !.crashes = TRUE]}

\* Late providers, retries, deadlines, cancellations.
Retrying == {[Plain EXCEPT !.answers = {"COMPLETED", "ROUTER_HTTP_ERROR"}, !.http = h, !.deaf = TRUE,
                           !.slow = TRUE, !.cancels = TRUE] : h \in {400, 503}}
            \cup {[Codex EXCEPT !.answers = {"COMPLETED", "ROUTER_HTTP_ERROR"}, !.cancels = TRUE, !.faults = TRUE]}

\* Agents that write where they should not, commit themselves, and tests that write.
Straying == {[f EXCEPT !.tools = t, !.testWrites = {"zone"}] :
               f \in {Plain, Correction}, t \in {{"edit", "moved", "commit"}, {"edit", "alias", "stray", "zone"}}}

\* Corrections, reviews, product policy.
Mending == {[Correction EXCEPT !.tools = {"edit", "stray", "product"}, !.testFailures = {"tests", "security"},
                               !.gates = g, !.cancels = TRUE] : g \in BOOLEAN}

\* Products, branches and tasks that must not be pushed.
Refused == {[f EXCEPT !.product = q] : f \in {Plain, Correction}, q \in {"unknown", "ineligible", "otherRepo"}}
           \cup {[Plain EXCEPT !.branch = b] : b \in {"protected", "other"}}
           \cup {[f EXCEPT !.prototype = TRUE] : f \in {Plain, Correction}}
           \cup {[Plain EXCEPT !.token = FALSE], [Correction EXCEPT !.level = 4], [Plain EXCEPT !.runtime = "required"],
                 [Plain EXCEPT !.governed = FALSE], [Plain EXCEPT !.clone.originIsTarget = FALSE],
                 [Plain EXCEPT !.authority.requested = @ \cup {"CREDENTIAL_ACCESS"}],
                 [Plain EXCEPT !.request.defects = {"blank"}], [Plain EXCEPT !.request.defects = {"bad_level"}],
                 [Plain EXCEPT !.request.preflight = [c \in Categories |-> "late"], !.gates = TRUE]}

MCJobs == Overlapping \cup Retrying \cup Straying \cup Mending \cup Refused

=============================================================================
