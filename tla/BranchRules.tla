---------------------------- MODULE BranchRules ----------------------------
(***************************************************************************)
(* Branch governance: the rulesets and the classic protection as GitHub    *)
(* answers them, the normalisation of each (governance-normalizer.ts), the *)
(* effective governance as their strictest union, and the judgement of the *)
(* revalidation and of the authoriser (pre-merge-revalidation.ts,          *)
(* merge-authorizer.ts).  Pure operators.                                  *)
(*                                                                         *)
(* A ruleset answer is a sequence of rules, a protection a record or       *)
(* Unprotected.  Boolean demands are members of a set of flags.            *)
(***************************************************************************)
EXTENDS Naturals, Sequences, FiniteSets, FiniteSetsExt

CONSTANTS
  Unprotected,  \* the 404 of a branch without classic protection
  TheCheck,     \* the context under which the one check of a commit reports
  Method        \* requestedMergeMethod of the delivery, "merge" by default

MergeMethods == {"merge", "squash", "rebase"}

ASSUME BranchRulesAssumption == Method \in MergeMethods

\* Demands that are on or off.  The authoriser looks at threads, strict and
\* linear only.
Flags == {"codeOwners", "lastPush", "threads", "unattributed", "strict",
          "noForcePush", "noDeletion", "linear"}

\* A rule of GET /rules/branches/{branch}; what its type does not use is empty.
RawRule(type, count, flags, checks, methods) ==
  [type |-> type, approvals |-> count, flags |-> flags, checks |-> checks,
   methods |-> methods]

\* GET /branches/{branch}/protection; checks are in two lists.
RawProtection(count, flags, contexts, checks) ==
  [approvals |-> count, flags |-> flags, contexts |-> contexts, checks |-> checks]

\* What either answer may look like.
Rule == [type : STRING, approvals : Nat, flags : SUBSET Flags, checks : SUBSET STRING,
         methods : SUBSET MergeMethods]
Protection == [approvals : Nat, flags : SUBSET Flags, contexts : SUBSET STRING,
               checks : SUBSET STRING]

-----------------------------------------------------------------------------
(* Normalisation *)

\* What a source without any demand comes to, and what one comes to that
\* could not be read.
NoDemands == [approvals |-> 0, flags |-> {}, checks |-> {}, methods |-> MergeMethods,
              known |-> TRUE]
Unreadable == [NoDemands EXCEPT !.known = FALSE]

OfType(rules, type) == { i \in DOMAIN rules : rules[i].type = type }

RuleApprovals(rules) ==
  Max({0} \cup { rules[i].approvals : i \in OfType(rules, "pull_request") })

RuleFlags(rules) ==
  LET from(type, flags) == UNION { rules[i].flags \cap flags : i \in OfType(rules, type) }
  IN  from("pull_request", {"codeOwners", "lastPush", "threads", "unattributed"})
      \cup from("required_status_checks", {"strict"})
      \cup (IF OfType(rules, "non_fast_forward") # {} THEN {"noForcePush"} ELSE {})
      \cup (IF OfType(rules, "deletion") # {} THEN {"noDeletion"} ELSE {})
      \cup (IF OfType(rules, "required_linear_history") # {} THEN {"linear"} ELSE {})

RuleChecks(rules) ==
  UNION { rules[i].checks : i \in OfType(rules, "required_status_checks") }

\* The last pull_request rule with a list of methods decides, an earlier one
\* is overwritten; no list allows all of them.
RuleMethods(rules) ==
  LET listing == { i \in OfType(rules, "pull_request") : rules[i].methods # {} }
  IN  IF listing = {} THEN MergeMethods ELSE rules[Max(listing)].methods

NormalizeRulesets(rules) ==
  [approvals |-> RuleApprovals(rules), flags |-> RuleFlags(rules),
   checks |-> RuleChecks(rules), methods |-> RuleMethods(rules), known |-> TRUE]

ClassicFlags == {"codeOwners", "lastPush", "strict", "threads", "linear",
                 "noForcePush", "noDeletion"}

\* Mutant: only the older of the two lists of checks is read.
NormalizeClassicProtection_ContextsOnly(protection) ==
  IF protection = Unprotected
  THEN NoDemands
  ELSE [NoDemands EXCEPT !.approvals = protection.approvals,
                         !.flags = protection.flags \cap ClassicFlags,
                         !.checks = protection.contexts]

NormalizeClassicProtection(protection) ==
  IF protection = Unprotected
  THEN NoDemands
  ELSE [NoDemands EXCEPT !.approvals = protection.approvals,
                         !.flags = protection.flags \cap ClassicFlags,
                         !.checks = protection.contexts \cup protection.checks]

\* A pull request with unattributed commits needs one approval at least.
EffectiveApprovals(r, c, unattributed) ==
  Max({r.approvals, c.approvals}
      \cup (IF unattributed /\ "unattributed" \in r.flags \cup c.flags THEN {1} ELSE {}))

\* A linear history forbids merge commits; only rulesets list methods.
EffectiveMethods(r, c) ==
  r.methods \ (IF "linear" \in r.flags \cup c.flags THEN {"merge"} ELSE {})

\* computeEffectiveGovernance: the strictest union of two normalised sources,
\* known only when both are.
EffectiveGovernance(r, c, unattributed) ==
  [approvals |-> EffectiveApprovals(r, c, unattributed),
   flags |-> r.flags \cup c.flags,
   checks |-> r.checks \cup c.checks,
   methods |-> EffectiveMethods(r, c),
   known |-> r.known /\ c.known]

-----------------------------------------------------------------------------
(* The pull request as toPullRequestSnapshot() shows it, against governance *)

\* RemoteCiObserver: every required check has to succeed; without required
\* checks whatever runs has to succeed, and nothing running is a success.
Green(check, required) ==
  IF required = {} THEN check \in {"none", "success"}
                   ELSE check = "success" /\ required \subseteq {TheCheck}

\* approvalsCount (of one reviewer) and reviewDecision against the demand.
Approvals(reviews) == IF "APPROVED" \in reviews THEN 1 ELSE 0
ReviewDecision(reviews) ==
  IF "CHANGES_REQUESTED" \in reviews THEN "CHANGES_REQUESTED"
  ELSE IF "APPROVED" \in reviews THEN "APPROVED" ELSE "NONE"

\* The snapshot claims both of every pull request: a demand for resolved
\* threads is always met, one about unattributed commits never arises.
AllThreadsResolved == TRUE
HasUnattributedCommits == FALSE

\* TOCTOU drift against the snapshot taken before the checks were observed.
\* Head, state and base are compared once more by the invariants below.
NoDrift(reviews, before) == Approvals(reviews) >= before

\* The invariants 8 to 12 of revalidatePreMergeState().
Revalidated(gov, reviews, check) ==
  /\ Green(check, gov.checks)
  /\ gov.known
  /\ Approvals(reviews) >= gov.approvals
  /\ gov.approvals > 0 => ReviewDecision(reviews) = "APPROVED"
  /\ "threads" \in gov.flags => AllThreadsResolved
  /\ Method \in gov.methods

\* authorizeMerge(): the same once more, and each required check by name among
\* those that succeeded.
Authorized(gov, reviews, check) ==
  /\ gov.known
  /\ Green(check, gov.checks)
  /\ \A context \in gov.checks : check = "success" /\ context = TheCheck
  /\ Approvals(reviews) >= gov.approvals
  /\ gov.approvals > 0 => ReviewDecision(reviews) = "APPROVED"
  /\ "threads" \in gov.flags => AllThreadsResolved
  /\ Method \in gov.methods

-----------------------------------------------------------------------------
(* The same demands read off the sources themselves, rule by rule: what the *)
(* normaliser has to preserve *)

ApprovalsMet(rules, protection, reviews) ==
  LET Met(demand) == /\ Approvals(reviews) >= demand.approvals
                     /\ demand.approvals > 0 => "CHANGES_REQUESTED" \notin reviews
  IN  /\ \A i \in DOMAIN rules : rules[i].type = "pull_request" => Met(rules[i])
      /\ protection # Unprotected => Met(protection)

Demanded(rules, protection, context) ==
  \/ \E i \in DOMAIN rules :
       rules[i].type = "required_status_checks" /\ context \in rules[i].checks
  \/ protection # Unprotected /\ context \in protection.contexts \cup protection.checks

\* `others`: contexts that no check of a commit ever reports under.
ChecksMet(rules, protection, check, others) ==
  /\ \A context \in others : ~ Demanded(rules, protection, context)
  /\ Demanded(rules, protection, TheCheck) => check = "success"
  /\ check # "red"

MethodMet(rules, protection) ==
  /\ \A i \in DOMAIN rules :
       /\ rules[i].type = "required_linear_history" => Method # "merge"
       /\ rules[i].type = "pull_request" /\ rules[i].methods # {} => Method \in rules[i].methods
  /\ protection # Unprotected /\ "linear" \in protection.flags => Method # "merge"
=============================================================================
