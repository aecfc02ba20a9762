------------------------------ MODULE Delivery ------------------------------
(***************************************************************************)
(* RemoteDeliveryGate.deliver(): from a pushed commit to a pull request,   *)
(* observed checks, a revalidated authorization, a merge and the           *)
(* verification of the default branch.  An action is the stretch between   *)
(* two requests to GitHub, whose state may change at any of them.  Two     *)
(* gates run for one task when a lease lapsed under the first (see         *)
(* TaskLifecycle).  Every request may fail; a mutation whose answer is     *)
(* lost may be processed later, or never.                                  *)
(***************************************************************************)
EXTENDS GitHub

CONSTANTS
  Gates,          \* workers delivering the task
  MaxCalls,       \* bound: calls of deliver()
  MaxEvents,      \* bound: crashes, and whatever others do to the remote
  MaxRuleChanges, \* bound: changes of a ruleset or a protection among them
  MaxRetargets,   \* bound: changes of a pull request's base among them
  Settings        \* environment and product manifest a worker may run with

ASSUME DeliveryAssumption ==
  /\ MaxCalls \in Nat /\ MaxEvents \in Nat /\ MaxRuleChanges \in Nat
  /\ MaxRetargets \in Nat
  /\ Settings \subseteq [killed : BOOLEAN, enabled : BOOLEAN, eligible : BOOLEAN,
                          level : 0 .. 5, listed : BOOLEAN]

VARIABLES
  gate,     \* the call of each worker
  saved,    \* task.result.delivery
  used,     \* what is used of the bounds
  seen,     \* history: what held at some moment of each gate's revalidation
  cleared,  \* history: pull requests and heads for which all of it has held
  landed    \* history: pull requests and heads merged on a gate's request

vars == << remote, gate, saved, used, seen, cleared, landed >>

-----------------------------------------------------------------------------
(* State *)

\* postMerge is only known once a delivery has been completed.
NothingSaved == [pull |-> None, previousMain |-> None]
Saved == [pull : Numbers \cup {None}, previousMain : Nat \cup {None}]

Points == {"idle", "baseline", "reconcile", "list", "fetch", "count", "create",
           "rules", "protection", "ci", "pull", "reviews", "checks", "put", "ambiguous",
           "confirm", "verify", "save"}

Conditions == {"open", "green", "approved", "method"}

IdleGate(head) ==
  [at |-> "idle", head |-> head, prior |-> NothingSaved, baseline |-> None, pull |-> None,
   round |-> 1, ruleset |-> NoDemands, gov |-> NoDemands, before |-> 0,
   stillOpen |-> FALSE, reviews |-> {}, status |-> None, rejected |-> FALSE]

\* The contexts any of the sources may demand a check under.
Contexts ==
  UNION ({{TheCheck}} \cup { UNION { r[i].checks : i \in DOMAIN r } : r \in Rulesets }
                      \cup { c.contexts \cup c.checks : c \in Protections \ {Unprotected} })

\* What a source, or both together, may come to.
Governance == [approvals : Nat, flags : SUBSET Flags, checks : SUBSET Contexts,
               methods : SUBSET MergeMethods, known : BOOLEAN]

GateRecords ==
  [at : Points, head : Shas, prior : Saved, baseline : Nat \cup {None},
   pull : Numbers \cup {None}, round : 1 .. 3, ruleset : Governance, gov : Governance,
   before : Nat, stillOpen : BOOLEAN, reviews : SUBSET Reviews,
   status : {None, "COMPLETED", "BLOCKED", "FAILED"}, rejected : BOOLEAN]

Init ==
  /\ RemoteInit
  /\ gate = [g \in Gates |-> IdleGate(branch)]
  /\ saved = NothingSaved
  /\ used = [calls |-> 0, events |-> 0, rules |-> 0, retargets |-> 0]
  /\ seen = [g \in Gates |-> {}]
  /\ cleared = {}
  /\ landed = {}

\* What the pull request g is about to merge satisfies now, by either source
\* of governance.
Satisfied(g) ==
  LET p == pulls[gate[g].pull]
      check == ci[gate[g].head]
      holds == [open |-> p.state = "open" /\ p.head = gate[g].head /\ p.base = "main",
                green |-> ChecksMet(ruleset, classic, check, Contexts \ {TheCheck}),
                approved |-> ApprovalsMet(ruleset, classic, p.reviews),
                method |-> MethodMet(ruleset, classic)]
  IN  { c \in Conditions : holds[c] }

Revalidating(g) == \/ gate[g].at \in {"pull", "reviews", "checks"}
                   \/ gate[g].at \in {"rules", "protection"} /\ gate[g].round = 3

\* The history of a step: while a gate revalidates, what held before or after
\* any step is remembered.
Observed ==
  /\ seen' = [g \in Gates |-> IF Revalidating(g)' THEN seen[g] \cup Satisfied(g)' ELSE {}]
  /\ cleared' = cleared \cup { << gate[g].pull, gate[g].head >> :
                               g \in { h \in Gates : Revalidating(h) /\ seen[h] = Conditions } }

Rejected == \E n \in Numbers : pulls[n].state = "closed" /\ pulls[n].base = "main"

-----------------------------------------------------------------------------
(* A call *)

Goes(g, point) == gate' = [gate EXCEPT ![g].at = point]

\* deliveryState.pr is the earlier one until ensurePullRequest() has answered.
BeforePull == {"baseline", "list", "fetch", "count", "create"}
Ends(g, status) ==
  LET c == gate[g] IN
  gate' = [gate EXCEPT ![g] = [IdleGate(c.head) EXCEPT
                                 !.at = "save", !.status = status,
                                 !.prior.previousMain = IF status = "COMPLETED" THEN c.baseline
                                                        ELSE c.prior.previousMain,
                                 !.pull = IF c.at \in BeforePull THEN c.prior.pull ELSE c.pull]]

At(g, point) == gate[g].at = point /\ UNCHANGED << saved, landed, used >>
Reads(g, point) == At(g, point) /\ UNCHANGED remote

\* evaluateDeliveryGatePolicy: off unless it is switched on, for an eligible
\* product of the highest autonomy level that no allowlist leaves out.
PolicyAllows(settings) ==
  /\ ~ settings.killed /\ settings.enabled
  /\ settings.eligible /\ settings.level = 5
  /\ settings.listed

\* Without permission the attempt ends with its push, and the delivery of an
\* earlier one is forgotten with the row's result.
DeliveryOff(g) ==
  /\ gate[g].at = "idle"
  /\ used.calls < MaxCalls
  /\ \E settings \in Settings : ~ PolicyAllows(settings)
  /\ used' = [used EXCEPT !.calls = @ + 1]
  /\ \E head \in Shas : PushedTo(head)
  /\ saved' = NothingSaved
  /\ UNCHANGED << gate, ci, ruleset, classic, main, inMain, pending, landed >>

\* The branch carries the commit when deliver() is called.  The earlier state
\* is that of the claimed row, which a failed attempt may have overwritten.
Deliver(g) ==
  /\ gate[g].at = "idle"
  /\ used.calls < MaxCalls
  /\ \E settings \in Settings : PolicyAllows(settings)
  /\ used' = [used EXCEPT !.calls = @ + 1]
  /\ \E head \in Shas, prior \in {saved, NothingSaved} :
       /\ PushedTo(head)
       /\ gate' = [gate EXCEPT ![g] = [IdleGate(head) EXCEPT !.at = "baseline", !.prior = prior,
                                                             !.rejected = Rejected]]
  /\ UNCHANGED << ci, ruleset, classic, main, inMain, pending, saved, landed >>

\* A failed read of the default branch is not fatal.
ReadBaseline(g) ==
  /\ Reads(g, "baseline")
  /\ \E sha \in IF gate[g].prior.previousMain # None THEN {gate[g].prior.previousMain} ELSE {main, None} :
       gate' = [gate EXCEPT ![g].baseline = sha,
                            ![g].at = IF gate[g].prior.pull # None THEN "reconcile" ELSE "list"]

\* Mutant: any head will do.
MergedAs_AnyHead(n, head) == pulls[n].state = "merged"

MergedAs(n, head) == pulls[n].state = "merged" /\ pulls[n].head = head

\* The recovery does not use the baseline just read.
ReconcileMerged(g) ==
  /\ Reads(g, "reconcile")
  /\ MergedAs(gate[g].prior.pull, gate[g].head)
  /\ gate' = [gate EXCEPT ![g].at = "confirm", ![g].pull = gate[g].prior.pull,
                          ![g].baseline = gate[g].prior.previousMain,
                          ![g].rejected = FALSE]

\* Open, closed, merged with another head, or an error: go on with the list.
ReconcileOther(g) == Reads(g, "reconcile") /\ Goes(g, "list")

Listed(n) == pulls[n].state # "absent" /\ pulls[n].base = "main"
ListedOpen(n) == Listed(n) /\ pulls[n].state = "open"

Found(g, point, n) == gate' = [gate EXCEPT ![g].at = point, ![g].pull = n, ![g].rejected = FALSE]

ListOpen(g) ==
  /\ Reads(g, "list")
  /\ \E n \in Numbers : ListedOpen(n) /\ Found(g, "fetch", n)

ListMerged(g) ==
  /\ Reads(g, "list")
  /\ ~ \E n \in Numbers : ListedOpen(n)
  /\ \E n \in Numbers : /\ Listed(n) /\ MergedAs(n, gate[g].head)
                        /\ Found(g, "confirm", n)

\* Mutant: what was rejected is proposed again.
MayCreate_Again(head) ==
  ~ \E n \in Numbers : Listed(n) /\ (pulls[n].state = "open" \/ MergedAs(n, head))

MayCreate(head) ==
  ~ \E n \in Numbers : Listed(n) /\ (pulls[n].state \in {"open", "closed"} \/ MergedAs(n, head))

ListNone(g) == Reads(g, "list") /\ MayCreate(gate[g].head) /\ Goes(g, "create")

\* A closed pull request, and none that is open or has merged this head.
ListRejected(g) ==
  /\ Reads(g, "list")
  /\ ~ \E n \in Numbers : ListedOpen(n) \/ (Listed(n) /\ MergedAs(n, gate[g].head))
  /\ ~ MayCreate(gate[g].head)
  /\ Ends(g, "BLOCKED")

FetchPull(g) ==
  /\ Reads(g, "fetch")
  /\ IF pulls[gate[g].pull].head = gate[g].head THEN Goes(g, "count") ELSE Ends(g, "BLOCKED")

CountApprovals(g) ==
  /\ Reads(g, "count")
  /\ gate' = [gate EXCEPT ![g].before = Approvals(pulls[gate[g].pull].reviews), ![g].at = "rules"]

CreatePull(g) ==
  /\ At(g, "create")
  /\ CreateAccepted
  /\ Created
  /\ IF branch = gate[g].head
     THEN gate' = [gate EXCEPT ![g].pull = NextPull, ![g].at = "rules"]
     ELSE Ends(g, "BLOCKED")
  /\ UNCHANGED << branch, ci, ruleset, classic, main, inMain, pending >>

CreateLost(g) ==
  /\ At(g, "create")
  /\ pending' = pending \cup {[kind |-> "create"]}
  /\ Ends(g, "BLOCKED")
  /\ UNCHANGED << branch, pulls, ci, ruleset, classic, main, inMain >>

-----------------------------------------------------------------------------
(* Governance is read three times: for the required checks, for its certainty, *)
(* and for the revalidation *)

\* An unreadable source demands nothing and makes the whole unknown.
ReadRuleset(g) ==
  /\ Reads(g, "rules")
  /\ \E answer \in {NormalizeRulesets(ruleset), Unreadable} :
       gate' = [gate EXCEPT ![g].at = "protection", ![g].ruleset = answer]

AfterGovernance(round) == CASE round = 1 -> "ci" [] round = 2 -> "pull" [] OTHER -> "checks"

\* Only the second reading blocks by itself; the third is judged at the end.
ReadProtection(g) ==
  /\ Reads(g, "protection")
  /\ \E answer \in {NormalizeClassicProtection(classic), Unreadable} :
       LET gov == EffectiveGovernance(gate[g].ruleset, answer, HasUnattributedCommits)
       IN  IF gate[g].round = 2 /\ ~ gov.known
           THEN Ends(g, "BLOCKED")
           ELSE gate' = [gate EXCEPT ![g].at = AfterGovernance(gate[g].round),
                                     ![g].ruleset = NoDemands,
                                     ![g].gov = IF gate[g].round = 2 THEN NoDemands ELSE gov]

\* The observer polls until the checks are green; see Refused for the rest.
ObserveChecks(g) ==
  /\ Reads(g, "ci")
  /\ Green(ci[gate[g].head], gate[g].gov.checks)
  /\ gate' = [gate EXCEPT ![g].at = "rules", ![g].round = 2, ![g].gov = NoDemands]

-----------------------------------------------------------------------------
(* Revalidation and merge *)

RereadPull(g) ==
  /\ Reads(g, "pull")
  /\ LET p == pulls[gate[g].pull] IN
     gate' = [gate EXCEPT ![g].at = "reviews",
                          ![g].stillOpen = p.state = "open" /\ p.head = gate[g].head /\ p.base = "main"]

RereadReviews(g) ==
  /\ Reads(g, "reviews")
  /\ gate' = [gate EXCEPT ![g].at = "rules", ![g].round = 3, ![g].reviews = pulls[gate[g].pull].reviews]

\* revalidatePreMergeState() with authorizeMerge(); that GitHub finds the pull
\* request mergeable, and no draft, is up to GitHub (Refused).
Allowed(c, check) ==
  /\ c.stillOpen
  /\ NoDrift(c.reviews, c.before)
  /\ Revalidated(c.gov, c.reviews, check)
  /\ Authorized(c.gov, c.reviews, check)

Authorize(g) ==
  /\ Reads(g, "checks")
  /\ IF Allowed(gate[g], ci[gate[g].head])
     THEN gate' = [gate EXCEPT ![g].at = "put", ![g].stillOpen = FALSE, ![g].reviews = {},
                               ![g].gov = NoDemands, ![g].before = 0]
     ELSE Ends(g, "BLOCKED")

PutAnswered(g) ==
  LET n == gate[g].pull IN
  /\ gate[g].at = "put"
  /\ MergeAccepted(n, gate[g].head)
  /\ Merged(n)
  /\ landed' = landed \cup { << n, pulls[n].head >> }
  /\ Goes(g, "confirm")
  /\ UNCHANGED << branch, ci, ruleset, classic, pending, saved, used >>

\* The answers of executeMerge() that are no merge, and what they make of the
\* delivery: only what it cannot name is a failure.
Refusals == {"CONFLICT", "BLOCKED", "FORBIDDEN", "METHOD_NOT_ALLOWED", "VALIDATION_FAILED"}
DeliveryStatus(answer) == IF answer \in Refusals THEN "BLOCKED" ELSE "FAILED"

\* GitHub refuses, limits the rate, or answers 200 that it did not merge.
PutFailed(g) ==
  /\ Reads(g, "put")
  /\ \E answer \in Refusals \cup {"UNKNOWN"} : Ends(g, DeliveryStatus(answer))

\* A timeout, a network error or a 5xx.
PutLost(g) ==
  /\ At(g, "put")
  /\ pending' = pending \cup {[kind |-> "merge", pull |-> gate[g].pull, head |-> gate[g].head]}
  /\ Goes(g, "ambiguous")
  /\ UNCHANGED << branch, pulls, ci, ruleset, classic, main, inMain >>

\* The merge is never tried again; an unreadable pull request is a failure too.
ResolveAmbiguous(g) ==
  /\ Reads(g, "ambiguous")
  /\ \/ MergedAs(gate[g].pull, gate[g].head) /\ Goes(g, "confirm")
     \/ pulls[gate[g].pull].state = "closed" /\ Ends(g, DeliveryStatus("BLOCKED"))
     \/ Ends(g, DeliveryStatus("UNKNOWN"))

-----------------------------------------------------------------------------
(* Causal verification *)

Confirm(g) ==
  /\ Reads(g, "confirm")
  /\ MergedAs(gate[g].pull, gate[g].head)
  /\ gate' = [gate EXCEPT ![g].at = "verify",
                          ![g].baseline = IF @ = None THEN pulls[gate[g].pull].baseSha ELSE @]

\* MainVerifier compares two commits of the default branch and nothing else.
MainAdvanced(g) == main # gate[g].baseline

VerifyMain(g) ==
  /\ Reads(g, "verify")
  /\ IF MainAdvanced(g)
     THEN Ends(g, "COMPLETED")
     ELSE Ends(g, "BLOCKED")

\* Where an error, a refusal, a timeout or an unmet condition ends the call.
Refusable == {"baseline", "list", "fetch", "count", "create", "ci", "pull", "reviews",
              "checks", "confirm", "verify"}
Refused(g) == /\ gate[g].at \in Refusable
              /\ Ends(g, "BLOCKED")
              /\ UNCHANGED << remote, saved, used, landed >>

Save(g) ==
  /\ gate[g].at = "save"
  /\ saved' = [pull |-> gate[g].pull, previousMain |-> gate[g].prior.previousMain]
  /\ gate' = [gate EXCEPT ![g] = IdleGate(branch)]
  /\ UNCHANGED << remote, used, landed >>

\* The bounds of what disturbs the calls.
Happens(what) ==
  /\ used.events < MaxEvents
  /\ used' = [used EXCEPT !.events = @ + 1, !.rules = @ + (IF what = "rules" THEN 1 ELSE 0),
                          !.retargets = @ + (IF what = "retarget" THEN 1 ELSE 0)]

Crash(g) ==
  /\ gate[g].at # "idle"
  /\ Happens("crash")
  /\ gate' = [gate EXCEPT ![g] = IdleGate(branch)]
  /\ UNCHANGED << remote, saved, landed >>

-----------------------------------------------------------------------------
(* The others *)

Event ==
  /\ Happens("event")
  /\ \/ \E sha \in Shas : Push(sha) \/ CheckRuns(sha)
     \/ \E n \in Numbers : Review(n) \/ Close(n) \/ MergeByHand(n)
     \/ OtherWorkMerged
  /\ UNCHANGED << gate, saved, landed >>

GovernanceChanged ==
  /\ used.rules < MaxRuleChanges
  /\ Happens("rules")
  /\ RulesChange
  /\ UNCHANGED << gate, saved, landed >>

Retargeted ==
  /\ used.retargets < MaxRetargets
  /\ Happens("retarget")
  /\ \E n \in Numbers : Retarget(n)
  /\ UNCHANGED << gate, saved, landed >>

Late ==
  /\ \E req \in pending :
       \/ ServerMerges(req) /\ landed' = landed \cup { << req.pull, pulls[req.pull].head >> }
       \/ ServerCreates(req) /\ UNCHANGED landed
  /\ UNCHANGED << gate, saved, used >>

GateStep(g) ==
  \/ DeliveryOff(g) \/ Deliver(g) \/ ReadBaseline(g) \/ ReconcileMerged(g) \/ ReconcileOther(g)
  \/ ListOpen(g) \/ ListMerged(g) \/ ListNone(g) \/ ListRejected(g)
  \/ FetchPull(g) \/ CountApprovals(g) \/ CreatePull(g) \/ CreateLost(g)
  \/ ReadRuleset(g) \/ ReadProtection(g) \/ ObserveChecks(g)
  \/ RereadPull(g) \/ RereadReviews(g) \/ Authorize(g)
  \/ PutAnswered(g) \/ PutFailed(g) \/ PutLost(g) \/ ResolveAmbiguous(g)
  \/ Confirm(g) \/ VerifyMain(g) \/ Refused(g) \/ Save(g)

Next ==
  /\ (\E g \in Gates : GateStep(g) \/ Crash(g)) \/ Event \/ GovernanceChanged \/ Retargeted \/ Late
  /\ Observed

Spec == Init /\ [][Next]_vars

-----------------------------------------------------------------------------
(* Properties *)

\* The remote, the calls and what is saved of them are well formed.
TypeOK ==
  /\ RemoteTypeOK
  /\ gate \in [Gates -> GateRecords]
  /\ saved \in Saved
  /\ used \in [calls : 0 .. MaxCalls, events : 0 .. MaxEvents, rules : 0 .. MaxRuleChanges,
               retargets : 0 .. MaxRetargets]
  /\ seen \in [Gates -> SUBSET Conditions]
  /\ cleared \subseteq Numbers \X Shas
  /\ landed \subseteq Numbers \X Shas

\* Whatever the gate gets merged, at once, late or after a crash, is a commit
\* whose pull request was open at that head, whose checks were green and whose
\* reviews and merge method met both sources of governance as they stood, each
\* at some moment of the revalidation that authorised it
\* (pre-merge-revalidation.ts, governance-normalizer.ts, the sha of the merge
\* request).
MergedWasCleared == landed \subseteq cleared

Completed(g) == gate[g].at = "save" /\ gate[g].status = "COMPLETED"

\* As long as no pull request changes its base, a delivery is reported
\* COMPLETED only when the default branch contains the commit, whichever way
\* the gate learned of the merge (remote-delivery-gate.ts,
\* completeCausalVerification).
CompletedIsInMain ==
  used.retargets = 0 => \A g \in Gates : Completed(g) => gate[g].head \in inMain

\* A call that begins after a pull request of the branch was closed unmerged
\* asks for no new one (pr-lifecycle-manager.ts, PR_PREVIOUSLY_REJECTED).
RejectionIsHeeded == \A g \in Gates : gate[g].at = "create" => ~ gate[g].rejected
=============================================================================
