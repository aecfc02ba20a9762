------------------------------- MODULE GitHub -------------------------------
(***************************************************************************)
(* The remote as the delivery gate meets it through GitHubClient: the      *)
(* feature branch, its pull requests, the checks of each commit, the two   *)
(* sources of branch governance and the default branch.  External: what it *)
(* does is what src/pdl/delivery relies on.  GitHub is not relied on to    *)
(* enforce the rules (a token may be exempt), only to bind a merge to the  *)
(* head the request names and to refuse a second open pull request.        *)
(***************************************************************************)
EXTENDS BranchRules

CONSTANTS
  Shas,        \* the commits the feature branch may point to
  MaxPulls,    \* bound: pull requests of the branch
  Rulesets,    \* the answers the rules of the default branch may give
  Protections, \* and its classic protection
  None         \* an unset value

ASSUME GitHubAssumption ==
  /\ MaxPulls \in Nat
  /\ None \notin Nat
  /\ Rulesets \subseteq Seq(Rule)
  /\ Protections \subseteq {Unprotected} \cup Protection

VARIABLES
  branch,   \* the head of the feature branch
  pulls,    \* the pull requests, by number
  ci,       \* the (one) check of each commit; red: running, failed or odd
  ruleset,  \* GET /rules/branches/{branch}
  classic,  \* GET /branches/{branch}/protection
  main,     \* how often the default branch has advanced
  inMain,   \* the feature commits it contains
  pending   \* requests the client gave up on and the server may still process

remote == << branch, pulls, ci, ruleset, classic, main, inMain, pending >>

Numbers == 1 .. MaxPulls
CheckStates == {"none", "red", "success"}
Reviews == {"APPROVED", "CHANGES_REQUESTED"}

Pull == [state : {"absent", "open", "closed", "merged"}, head : Shas,
         base : {"main", "other"}, baseSha : Nat, reviews : SUBSET Reviews]

Requests == [kind : {"create"}] \cup [kind : {"merge"}, pull : Numbers, head : Shas]

RemoteTypeOK ==
  /\ branch \in Shas
  /\ pulls \in [Numbers -> Pull]
  /\ ci \in [Shas -> CheckStates]
  /\ ruleset \in Rulesets /\ classic \in Protections
  /\ main \in Nat
  /\ inMain \subseteq Shas
  /\ pending \subseteq Requests

RemoteInit ==
  /\ branch \in Shas
  /\ pulls = [n \in Numbers |-> [state |-> "absent", head |-> branch, base |-> "main",
                                 baseSha |-> 0, reviews |-> {}]]
  /\ ci \in [Shas -> {"none", "success"}]
  /\ ruleset \in Rulesets /\ classic \in Protections
  /\ main = 0
  /\ inMain = {}
  /\ pending = {}

-----------------------------------------------------------------------------
(* What the server does *)

\* PUT /pulls/n/merge with payload.sha = sha.
MergeAccepted(n, sha) == pulls[n].state = "open" /\ pulls[n].head = sha

Merged(n) ==
  /\ pulls' = [pulls EXCEPT ![n].state = "merged"]
  /\ IF pulls[n].base = "main"
     THEN main' = main + 1 /\ inMain' = inMain \cup {pulls[n].head}
     ELSE UNCHANGED << main, inMain >>

\* POST /pulls: one open pull request for a head and a base, and something to
\* merge.
NextPull == CHOOSE n \in Numbers : /\ pulls[n].state = "absent"
                                   /\ \A m \in 1 .. n - 1 : pulls[m].state # "absent"

CreateAccepted ==
  /\ \E n \in Numbers : pulls[n].state = "absent"
  /\ \A n \in Numbers : ~ (pulls[n].state = "open" /\ pulls[n].base = "main")
  /\ branch \notin inMain

Created ==
  pulls' = [pulls EXCEPT ![NextPull] = [state |-> "open", head |-> branch, base |-> "main",
                                        baseSha |-> main, reviews |-> {}]]

\* A push moves the branch and the open pull requests with it.
PushedTo(sha) ==
  /\ branch' = sha
  /\ pulls' = [n \in Numbers |->
                IF pulls[n].state = "open" THEN [pulls[n] EXCEPT !.head = sha] ELSE pulls[n]]

\* A request the client has given up on is processed after all.
ServerMerges(req) ==
  /\ req.kind = "merge"
  /\ MergeAccepted(req.pull, req.head)
  /\ Merged(req.pull)
  /\ pending' = pending \ {req}
  /\ UNCHANGED << branch, ci, ruleset, classic >>

ServerCreates(req) ==
  /\ req.kind = "create"
  /\ CreateAccepted
  /\ Created
  /\ pending' = pending \ {req}
  /\ UNCHANGED << branch, ci, ruleset, classic, main, inMain >>

-----------------------------------------------------------------------------
(* What people and machines do *)

Push(sha) ==
  /\ sha # branch
  /\ PushedTo(sha)
  /\ UNCHANGED << ci, ruleset, classic, main, inMain, pending >>

Review(n) ==
  /\ pulls[n].state = "open"
  /\ \E r \in SUBSET Reviews \ {pulls[n].reviews} : pulls' = [pulls EXCEPT ![n].reviews = r]
  /\ UNCHANGED << branch, ci, ruleset, classic, main, inMain, pending >>

Close(n) ==
  /\ pulls[n].state = "open"
  /\ pulls' = [pulls EXCEPT ![n].state = "closed"]
  /\ UNCHANGED << branch, ci, ruleset, classic, main, inMain, pending >>

\* A person merges the pull request, wherever it points to.
MergeByHand(n) ==
  /\ pulls[n].state = "open"
  /\ Merged(n)
  /\ UNCHANGED << branch, ci, ruleset, classic, pending >>

Retarget(n) ==
  /\ pulls[n].state = "open" /\ pulls[n].base = "main"
  /\ pulls' = [pulls EXCEPT ![n].base = "other"]
  /\ UNCHANGED << branch, ci, ruleset, classic, main, inMain, pending >>

\* A run starts, or starts again, or ends; runs do not vanish.
CheckRuns(sha) ==
  /\ \E s \in CheckStates \ {"none"} : s # ci[sha] /\ ci' = [ci EXCEPT ![sha] = s]
  /\ UNCHANGED << branch, pulls, ruleset, classic, main, inMain, pending >>

RulesChange ==
  /\ \/ ruleset' \in Rulesets \ {ruleset} /\ UNCHANGED classic
     \/ classic' \in Protections \ {classic} /\ UNCHANGED ruleset
  /\ UNCHANGED << branch, pulls, ci, main, inMain, pending >>

OtherWorkMerged ==
  /\ main' = main + 1
  /\ UNCHANGED << branch, pulls, ci, ruleset, classic, inMain, pending >>
=============================================================================
