-------------------------- MODULE Delivery_proofs --------------------------
(***************************************************************************)
(* What the delivery gate guarantees, proved for any number of gates,      *)
(* commits and pull requests, any rules of the branch and every bound.     *)
(***************************************************************************)
EXTENDS Delivery, WellFoundedInduction, TLAPS

-----------------------------------------------------------------------------
(* Extrema of sets of naturals *)

\* A non-empty set of naturals has a least element.
LEMMA LeastNatural ==
  ASSUME NEW S \in SUBSET Nat, S # {}
  PROVE  \E n \in S : \A m \in S : n <= m
<1>1. PICK n \in S : \A m \in S : ~ (<< m, n >> \in OpToRel(<, Nat))
  BY NatLessThanWellFounded, WFMin, Zenon
<1>2. \A m \in S : << m, n >> \in Nat \X Nat
  OBVIOUS
<1>3. \A m \in S : ~ (m < n)
  BY <1>1, <1>2 DEF OpToRel
<1> QED BY <1>3

\* A non-empty set of naturals with a bound has a greatest element.
LEMMA GreatestNatural ==
  ASSUME NEW S \in SUBSET Nat, S # {}, NEW b \in Nat, \A n \in S : n <= b
  PROVE  /\ Max(S) \in S
         /\ \A n \in S : n <= Max(S)
<1> DEFINE Bounds == { u \in Nat : \A n \in S : n <= u }
<1>1. PICK u \in Bounds : \A v \in Bounds : u <= v
  BY LeastNatural
<1>2. u \in S
  <2>1. SUFFICES ASSUME u \notin S PROVE FALSE
    OBVIOUS
  <2>2. PICK n \in S : TRUE
    OBVIOUS
  <2>3. \A m \in S : m <= u - 1
    BY <2>1
  <2>4. u - 1 \in Bounds
    BY <2>2, <2>3
  <2> QED BY <1>1, <2>4
<1>3. \E x \in S : \A y \in S : x >= y
  BY <1>2
<1> QED BY <1>3 DEF Max

\* The approvals of finitely many rules have a bound.
LEMMA BoundedValues ==
  ASSUME NEW len \in Nat, NEW f, \A i \in 1 .. len : f[i] \in Nat
  PROVE  \E b \in Nat : \A i \in 1 .. len : f[i] <= b
<1> DEFINE Unbounded == { n \in Nat : n <= len /\ ~ \E b \in Nat : \A i \in 1 .. n : f[i] <= b }
<1>1. SUFFICES ASSUME len \in Unbounded PROVE FALSE
  OBVIOUS
<1>2. PICK n \in Unbounded : \A m \in Unbounded : n <= m
  <2> HIDE DEF Unbounded
  <2>1. Unbounded \in SUBSET Nat
    BY DEF Unbounded
  <2> QED BY <1>1, <2>1, LeastNatural
<1>3. n \in Nat /\ n <= len /\ ~ \E b \in Nat : \A i \in 1 .. n : f[i] <= b
  OBVIOUS
<1>4. n # 0
  <2>1. ~ \A i \in 1 .. n : f[i] <= 0
    BY <1>3
  <2> QED BY <2>1
<1>5. n - 1 \in Nat /\ n - 1 \notin Unbounded
  <2> HIDE DEF Unbounded
  <2> QED BY <1>2, <1>3, <1>4
<1>6. PICK b \in Nat : \A i \in 1 .. n - 1 : f[i] <= b
  BY <1>3, <1>5
<1>7. f[n] \in Nat
  BY <1>3, <1>4
<1>8. PICK c \in Nat : c >= b /\ c >= f[n]
  <2>1. CASE b >= f[n]
    BY <1>7, <2>1
  <2>2. CASE ~ (b >= f[n])
    BY <1>7, <2>2
  <2> QED BY <2>1, <2>2
<1>9. \A i \in 1 .. n : f[i] <= c
  <2>1. SUFFICES ASSUME NEW i \in 1 .. n PROVE f[i] <= c
    OBVIOUS
  <2>2. i = n \/ i \in 1 .. n - 1
    BY <1>3, <1>4
  <2>3. f[i] \in Nat
    BY <1>3, <2>1
  <2> HIDE DEF Unbounded
  <2> QED BY <1>6, <1>7, <1>8, <2>2, <2>3
<1> QED BY <1>3, <1>9

-----------------------------------------------------------------------------
(* The normalised governance demands what its sources demand *)

\* Every pull_request rule with a list of merge methods has the same list.
MethodsAgree ==
  \A rules \in Rulesets : \A i, j \in OfType(rules, "pull_request") :
    (rules[i].methods # {} /\ rules[j].methods # {}) => rules[i].methods = rules[j].methods

\* The demand for approvals is a number and the highest of all the rules.
LEMMA HighestApprovals ==
  ASSUME NEW rules \in Seq(Rule)
  PROVE  /\ RuleApprovals(rules) \in Nat
         /\ \A i \in OfType(rules, "pull_request") : rules[i].approvals <= RuleApprovals(rules)
<1> DEFINE of == [i \in 1 .. Len(rules) |-> rules[i].approvals]
           counts == {0} \cup { rules[i].approvals : i \in OfType(rules, "pull_request") }
<1>1. /\ Len(rules) \in Nat /\ DOMAIN rules = 1 .. Len(rules)
      /\ \A i \in 1 .. Len(rules) : rules[i] \in Rule
  OBVIOUS
<1>2. \A i \in 1 .. Len(rules) : of[i] = rules[i].approvals /\ of[i] \in Nat
  BY <1>1 DEF Rule
<1>3. PICK b \in Nat : \A i \in 1 .. Len(rules) : of[i] <= b
  <2> HIDE DEF of
  <2> QED BY <1>1, <1>2, BoundedValues
<1>4. counts \in SUBSET Nat /\ counts # {}
  BY <1>1 DEF OfType, Rule
<1>5. \A n \in counts : n <= b
  <2> HIDE DEF of
  <2> QED BY <1>1, <1>2, <1>3 DEF OfType
<1>6. Max(counts) \in counts /\ \A n \in counts : n <= Max(counts)
  <2> HIDE DEF counts
  <2> QED BY <1>4, <1>5, GreatestNatural
<1> QED BY <1>4, <1>6 DEF RuleApprovals

\* The rule that decides the merge methods is one of those that list any.
LEMMA LastListing ==
  ASSUME NEW rules \in Seq(Rule)
  PROVE  LET listing == { i \in OfType(rules, "pull_request") : rules[i].methods # {} }
         IN  listing # {} => Max(listing) \in listing
<1> DEFINE listing == { i \in OfType(rules, "pull_request") : rules[i].methods # {} }
<1>1. Len(rules) \in Nat /\ DOMAIN rules = 1 .. Len(rules)
  OBVIOUS
<1>2. listing \in SUBSET Nat /\ \A n \in listing : n <= Len(rules)
  BY <1>1 DEF OfType
<1>3. listing # {} => Max(listing) \in listing
  <2> HIDE DEF listing
  <2> QED BY <1>1, <1>2, GreatestNatural
<1> QED BY <1>3

\* Both sources, and what they come to together, are well formed.
LEMMA NormalizedIsGovernance ==
  ASSUME NEW rules \in Rulesets, NEW protection \in Protections
  PROVE  /\ NormalizeRulesets(rules) \in Governance
         /\ NormalizeClassicProtection(protection) \in Governance
         /\ NoDemands \in Governance /\ Unreadable \in Governance
<1>1. rules \in Seq(Rule) /\ protection \in {Unprotected} \cup Protection
  BY GitHubAssumption
<1>2. NoDemands \in Governance /\ Unreadable \in Governance
  BY DEF NoDemands, Unreadable, Governance
<1>3. NormalizeRulesets(rules) \in Governance
  <2>1. RuleApprovals(rules) \in Nat
    BY <1>1, HighestApprovals
  <2>2. RuleFlags(rules) \in SUBSET Flags
    BY DEF RuleFlags, Flags
  <2>checks. RuleChecks(rules) \in SUBSET Contexts
    <3>1. RuleChecks(rules) \subseteq UNION { rules[i].checks : i \in DOMAIN rules }
      BY DEF RuleChecks, OfType
    <3>2. UNION { rules[i].checks : i \in DOMAIN rules } \subseteq Contexts
      <4> DEFINE of(r) == UNION { r[i].checks : i \in DOMAIN r }
      <4>1. of(rules) \in { of(r) : r \in Rulesets }
        <5> HIDE DEF of
        <5> QED OBVIOUS
      <4> QED BY <4>1 DEF Contexts
    <3> QED BY <3>1, <3>2
  <2>4. RuleMethods(rules) \in SUBSET MergeMethods
    <3> DEFINE listing == { i \in OfType(rules, "pull_request") : rules[i].methods # {} }
    <3>1. CASE listing = {}
      BY <3>1 DEF RuleMethods
    <3>2. CASE listing # {}
      <4>1. Max(listing) \in DOMAIN rules
        BY <1>1, <3>2, LastListing DEF OfType
      <4>2. RuleMethods(rules) = rules[Max(listing)].methods
        BY <3>2 DEF RuleMethods
      <4>3. rules[Max(listing)] \in Rule
        <5> HIDE DEF listing
        <5> QED BY <1>1, <4>1
      <4> HIDE DEF listing
      <4> QED BY <4>2, <4>3 DEF Rule
    <3> QED BY <3>1, <3>2
  <2> QED BY <2>1, <2>2, <2>checks, <2>4 DEF NormalizeRulesets, Governance
<1>4. NormalizeClassicProtection(protection) \in Governance
  <2>1. CASE protection = Unprotected
    BY <1>2, <2>1 DEF NormalizeClassicProtection
  <2>2. CASE protection # Unprotected
    <3>1. protection \in Protection
      BY <1>1, <2>2
    <3>2. protection.contexts \cup protection.checks \in SUBSET Contexts
      BY <2>2 DEF Contexts
    <3>3. protection.approvals \in Nat /\ protection.flags \cap ClassicFlags \in SUBSET Flags
      BY <3>1 DEF Protection
    <3> QED BY <2>2, <3>2, <3>3 DEF NormalizeClassicProtection, NoDemands, Governance
  <2> QED BY <2>1, <2>2
<1> QED BY <1>2, <1>3, <1>4

\* What the gate would demand now, had it read both sources.
InForce == EffectiveGovernance(NormalizeRulesets(ruleset), NormalizeClassicProtection(classic),
                               HasUnattributedCommits)

\* The effective demand for approvals is no lower than that of either source.
LEMMA ApprovalsOfBoth ==
  ASSUME NEW r \in Governance, NEW c \in Governance
  PROVE  /\ EffectiveApprovals(r, c, HasUnattributedCommits) \in Nat
         /\ EffectiveApprovals(r, c, HasUnattributedCommits) >= r.approvals
         /\ EffectiveApprovals(r, c, HasUnattributedCommits) >= c.approvals
<1> DEFINE both == {r.approvals, c.approvals}
<1>1. r.approvals \in Nat /\ c.approvals \in Nat
  BY DEF Governance
<1>2. EffectiveApprovals(r, c, HasUnattributedCommits) = Max(both)
  <2>1. both \cup (IF HasUnattributedCommits /\ "unattributed" \in r.flags \cup c.flags THEN {1} ELSE {})
          = both
    BY DEF HasUnattributedCommits
  <2> QED BY <2>1 DEF EffectiveApprovals
<1>3. /\ both \in SUBSET Nat /\ both # {} /\ r.approvals + c.approvals \in Nat
      /\ \A n \in both : n <= r.approvals + c.approvals
  BY <1>1
<1>4. Max(both) \in both /\ \A n \in both : n <= Max(both)
  <2> HIDE DEF both
  <2> QED BY <1>1, <1>3, GreatestNatural
<1> QED BY <1>1, <1>2, <1>4

\* Enough approvals for the effective governance are enough for every rule.
LEMMA ApprovedByBoth ==
  ASSUME NEW rules \in Rulesets, NEW protection \in Protections, NEW reviews \in SUBSET Reviews,
         NEW gov, gov = EffectiveGovernance(NormalizeRulesets(rules),
                                            NormalizeClassicProtection(protection),
                                            HasUnattributedCommits),
         Approvals(reviews) >= gov.approvals,
         gov.approvals > 0 => ReviewDecision(reviews) = "APPROVED"
  PROVE  ApprovalsMet(rules, protection, reviews)
<1> DEFINE r == NormalizeRulesets(rules)
           c == NormalizeClassicProtection(protection)
           Met(demand) == /\ Approvals(reviews) >= demand.approvals
                          /\ demand.approvals > 0 => "CHANGES_REQUESTED" \notin reviews
<1>1. rules \in Seq(Rule) /\ protection \in {Unprotected} \cup Protection
  BY GitHubAssumption
<1>2. r \in Governance /\ c \in Governance
  BY NormalizedIsGovernance
<1>3. gov.approvals = EffectiveApprovals(r, c, HasUnattributedCommits)
  BY DEF EffectiveGovernance
<1>4. gov.approvals \in Nat /\ gov.approvals >= r.approvals /\ gov.approvals >= c.approvals
  <2> HIDE DEF r, c
  <2> QED BY <1>2, <1>3, ApprovalsOfBoth
<1>5. Approvals(reviews) \in Nat
  BY DEF Approvals
<1>6. gov.approvals > 0 => "CHANGES_REQUESTED" \notin reviews
  BY DEF ReviewDecision
<1>7. ASSUME NEW demand, demand.approvals \in Nat, demand.approvals <= gov.approvals
      PROVE  Met(demand)
  BY <1>4, <1>5, <1>6, <1>7
<1>8. \A i \in OfType(rules, "pull_request") : Met(rules[i])
  <2>1. SUFFICES ASSUME NEW i \in OfType(rules, "pull_request")
                 PROVE  rules[i].approvals \in Nat /\ rules[i].approvals <= gov.approvals
    BY <1>7
  <2>2. rules[i] \in Rule
    BY <1>1 DEF OfType
  <2>3. r.approvals = RuleApprovals(rules)
    BY DEF NormalizeRulesets
  <2>4. rules[i].approvals <= RuleApprovals(rules) /\ RuleApprovals(rules) \in Nat
    BY <1>1, HighestApprovals
  <2>5. rules[i].approvals \in Nat
    BY <2>2 DEF Rule
  <2> HIDE DEF r, c
  <2> QED BY <1>4, <2>3, <2>4, <2>5
<1>9. protection # Unprotected => Met(protection)
  <2>1. SUFFICES ASSUME protection # Unprotected
                 PROVE  protection.approvals \in Nat /\ protection.approvals <= gov.approvals
    BY <1>7
  <2>2. c.approvals = protection.approvals
    BY <2>1 DEF NormalizeClassicProtection, NoDemands
  <2>3. protection.approvals \in Nat
    BY <1>1, <2>1 DEF Protection
  <2> HIDE DEF r, c
  <2> QED BY <1>4, <2>2, <2>3
<1> QED BY <1>8, <1>9 DEF ApprovalsMet, OfType

\* Checks that are green under the effective governance are so for both sources.
LEMMA GreenForBoth ==
  ASSUME NEW rules \in Rulesets, NEW protection \in Protections, NEW check \in CheckStates,
         NEW gov, gov = EffectiveGovernance(NormalizeRulesets(rules),
                                            NormalizeClassicProtection(protection),
                                            HasUnattributedCommits),
         Green(check, gov.checks)
  PROVE  ChecksMet(rules, protection, check, Contexts \ {TheCheck})
<1>1. gov.checks = RuleChecks(rules) \cup NormalizeClassicProtection(protection).checks
  BY DEF EffectiveGovernance, NormalizeRulesets
<1>2. \A context : Demanded(rules, protection, context) => context \in gov.checks
  <2>1. protection # Unprotected =>
          NormalizeClassicProtection(protection).checks = protection.contexts \cup protection.checks
    BY DEF NormalizeClassicProtection, NoDemands
  <2>2. \A context, i : (i \in DOMAIN rules /\ rules[i].type = "required_status_checks" /\ context \in rules[i].checks)
                          => context \in RuleChecks(rules)
    BY DEF RuleChecks, OfType
  <2> QED BY <1>1, <2>1, <2>2 DEF Demanded
<1>3. gov.checks # {} => (check = "success" /\ gov.checks \subseteq {TheCheck})
  BY DEF Green
<1>4. check # "red"
  BY DEF Green
<1> QED BY <1>2, <1>3, <1>4 DEF ChecksMet

\* A merge method the effective governance allows is allowed by both sources,
\* provided the rules that list methods agree.
LEMMA MethodOfBoth ==
  ASSUME MethodsAgree, NEW rules \in Rulesets, NEW protection \in Protections,
         NEW gov, gov = EffectiveGovernance(NormalizeRulesets(rules),
                                            NormalizeClassicProtection(protection),
                                            HasUnattributedCommits),
         Method \in gov.methods
  PROVE  MethodMet(rules, protection)
<1> DEFINE listing == { i \in OfType(rules, "pull_request") : rules[i].methods # {} }
           r == NormalizeRulesets(rules)
           c == NormalizeClassicProtection(protection)
<1>1. rules \in Seq(Rule)
  BY GitHubAssumption
<1>2. /\ Method \in RuleMethods(rules)
      /\ "linear" \in r.flags \cup c.flags => Method # "merge"
  BY DEF EffectiveGovernance, EffectiveMethods, NormalizeRulesets
<1>3. \A i \in listing : Method \in rules[i].methods
  <2>1. SUFFICES ASSUME NEW i \in listing PROVE Method \in rules[i].methods
    OBVIOUS
  <2>2. Max(listing) \in listing
    BY <1>1, LastListing
  <2>3. Method \in rules[Max(listing)].methods
    BY <1>2 DEF RuleMethods
  <2>4. rules[Max(listing)].methods = rules[i].methods
    <3>1. \A j \in listing : rules[j].methods = rules[i].methods
      BY DEF MethodsAgree
    <3> HIDE DEF listing
    <3> QED BY <2>2, <3>1
  <2> QED BY <2>3, <2>4
<1>4. \A i \in DOMAIN rules : rules[i].type = "required_linear_history" => "linear" \in r.flags
  BY DEF NormalizeRulesets, RuleFlags, OfType
<1>5. (protection # Unprotected /\ "linear" \in protection.flags) => "linear" \in c.flags
  BY DEF NormalizeClassicProtection, NoDemands, ClassicFlags
<1> HIDE DEF r, c
<1> QED BY <1>2, <1>3, <1>4, <1>5 DEF MethodMet, OfType

-----------------------------------------------------------------------------
(* Types *)

\* From here on a call knows the pull request it is about.
WithPull == {"fetch", "count", "rules", "protection", "ci", "pull", "reviews", "checks", "put",
             "ambiguous", "confirm", "verify"}

\* Where governance has not been read yet.
Early == BeforePull \cup {"reconcile"}

Placed(c) == /\ c.at \in WithPull => c.pull \in Numbers
             /\ c.at = "reconcile" => c.prior.pull \in Numbers
             /\ c.at \in Early => c.round = 1

Calls == { c \in GateRecords : Placed(c) }

CallsOK == gate \in [Gates -> Calls]

\* The step of one gate that leaves a call of the right form is in order.
LEMMA OneCall ==
  ASSUME CallsOK, NEW g \in Gates, NEW c \in Calls, gate' = [gate EXCEPT ![g] = c]
  PROVE  CallsOK'
BY DEF CallsOK

LEMMA IdleIsCall ==
  ASSUME NEW head \in Shas
  PROVE  IdleGate(head) \in Calls
<1>1. NoDemands \in Governance
  BY DEF NoDemands, Governance
<1>2. IdleGate(head) \in GateRecords
  BY <1>1 DEF IdleGate, GateRecords, Points, NothingSaved, Saved
<1>3. IdleGate(head).at = "idle"
  BY DEF IdleGate
<1> QED BY <1>2, <1>3 DEF Calls, Placed, WithPull, Early, BeforePull

\* The fields that a step changes one by one.
LEMMA Fields ==
  ASSUME NEW c \in GateRecords
  PROVE  /\ \A p \in Points : [c EXCEPT !.at = p] \in GateRecords
         /\ \A n \in Numbers \cup {None} : [c EXCEPT !.pull = n] \in GateRecords
         /\ \A n \in Nat \cup {None} : [c EXCEPT !.baseline = n] \in GateRecords
         /\ [c EXCEPT !.round = 2] \in GateRecords
         /\ [c EXCEPT !.round = 3] \in GateRecords
         /\ \A n \in Nat : [c EXCEPT !.before = n] \in GateRecords
         /\ \A d \in Governance : /\ [c EXCEPT !.ruleset = d] \in GateRecords
                                  /\ [c EXCEPT !.gov = d] \in GateRecords
         /\ \A s \in SUBSET Reviews : [c EXCEPT !.reviews = s] \in GateRecords
         /\ \A b \in BOOLEAN : /\ [c EXCEPT !.rejected = b] \in GateRecords
                               /\ [c EXCEPT !.stillOpen = b] \in GateRecords
         /\ \A s \in Saved : [c EXCEPT !.prior = s] \in GateRecords
         /\ \A s \in {None, "COMPLETED", "BLOCKED", "FAILED"} : [c EXCEPT !.status = s] \in GateRecords
BY DEF GateRecords

LEMMA GoesIsCall ==
  ASSUME CallsOK, NEW g \in Gates, NEW p \in Points, Goes(g, p),
         p \in WithPull => gate[g].pull \in Numbers, p # "reconcile",
         p \in Early => gate[g].round = 1
  PROVE  CallsOK'
<1> DEFINE c == [gate[g] EXCEPT !.at = p]
<1>1. gate[g] \in GateRecords
  BY DEF CallsOK, Calls
<1>2. c \in GateRecords
  BY <1>1, Fields
<1>3. c.at = p /\ c.pull = gate[g].pull /\ c.round = gate[g].round
  BY <1>1 DEF GateRecords
<1>4. c \in Calls
  <2> HIDE DEF c
  <2> QED BY <1>2, <1>3 DEF Calls, Placed
<1>5. gate' = [gate EXCEPT ![g] = c]
  BY DEF Goes
<1> HIDE DEF c
<1> QED BY <1>4, <1>5, OneCall

\* A delivery that ends keeps the number of the pull request, if it has one.
LEMMA EndsIsCall ==
  ASSUME CallsOK, NEW g \in Gates, NEW s \in {"COMPLETED", "BLOCKED", "FAILED"}, Ends(g, s)
  PROVE  CallsOK'
<1> DEFINE c == gate[g]
           main1 == IF s = "COMPLETED" THEN c.baseline ELSE c.prior.previousMain
           pull1 == IF c.at \in BeforePull THEN c.prior.pull ELSE c.pull
           d == [IdleGate(c.head) EXCEPT !.at = "save", !.status = s,
                                         !.prior.previousMain = main1, !.pull = pull1]
<1>1. c \in GateRecords
  BY DEF CallsOK, Calls
<1>2. c.head \in Shas /\ main1 \in Nat \cup {None} /\ pull1 \in Numbers \cup {None}
  BY <1>1 DEF GateRecords, Saved
<1>3. IdleGate(c.head) \in GateRecords
  BY <1>2, IdleIsCall DEF Calls
<1>4. d \in GateRecords /\ d.at = "save"
  <2> HIDE DEF c, main1, pull1
  <2>1. IdleGate(c.head) \in GateRecords
    BY <1>3
  <2> QED BY <1>2, <2>1 DEF GateRecords, Points, Saved
<1>5. d \in Calls
  <2> HIDE DEF d
  <2> QED BY <1>4 DEF Calls, Placed, WithPull, Early, BeforePull
<1>6. gate' = [gate EXCEPT ![g] = d]
  BY DEF Ends
<1> HIDE DEF d
<1> QED BY <1>5, <1>6, OneCall

\* Two sources that are well formed are so together.
LEMMA EffectiveIsGovernance ==
  ASSUME NEW r \in Governance, NEW c \in Governance
  PROVE  EffectiveGovernance(r, c, HasUnattributedCommits) \in Governance
<1>1. EffectiveApprovals(r, c, HasUnattributedCommits) \in Nat
  BY ApprovalsOfBoth
<1>2. EffectiveMethods(r, c) \in SUBSET MergeMethods
  BY DEF EffectiveMethods, Governance
<1>3. r.flags \cup c.flags \in SUBSET Flags /\ r.checks \cup c.checks \in SUBSET Contexts
  BY DEF Governance
<1>4. (r.known /\ c.known) \in BOOLEAN
  OBVIOUS
<1> QED BY <1>1, <1>2, <1>3, <1>4 DEF EffectiveGovernance, Governance

\* The number of a new pull request is the least that is free.
LEMMA NextIsAbsent ==
  ASSUME CreateAccepted
  PROVE  NextPull \in Numbers /\ pulls[NextPull].state = "absent"
<1> DEFINE free == { n \in Numbers : pulls[n].state = "absent" }
<1>1. free # {} /\ free \in SUBSET Nat
  BY DEF CreateAccepted, Numbers
<1>2. PICK n \in free : \A m \in free : n <= m
  <2> HIDE DEF free
  <2> QED BY <1>1, LeastNatural
<1>3. \A m \in 1 .. n - 1 : pulls[m].state # "absent"
  <2>1. SUFFICES ASSUME NEW m \in 1 .. n - 1 PROVE m \notin free /\ m \in Numbers
    OBVIOUS
  <2>2. n \in Nat /\ n <= MaxPulls
    BY GitHubAssumption DEF Numbers
  <2>3. m \in Numbers /\ ~ (n <= m)
    BY <2>2, GitHubAssumption DEF Numbers
  <2> HIDE DEF free
  <2> QED BY <1>2, <2>3
<1>4. n \in Numbers /\ pulls[n].state = "absent"
  OBVIOUS
<1> QED BY <1>3, <1>4 DEF NextPull

\* The steps of a gate that change several fields of its call leave a call.
LEMMA CallStep ==
  ASSUME CallsOK, RemoteTypeOK, saved \in Saved, NEW g \in Gates, GateStep(g) \/ Crash(g)
  PROVE  CallsOK'
<1> USE DEF Calls, CallsOK
<1> DEFINE c == gate[g]
<1>1. c \in GateRecords /\ c \in Calls
  OBVIOUS
<1>2. CASE DeliveryOff(g)
  BY <1>2 DEF DeliveryOff
<1>3. CASE Deliver(g)
  <2>1. PICK head \in Shas, prior \in {saved, NothingSaved} :
          gate' = [gate EXCEPT ![g] = [IdleGate(head) EXCEPT !.at = "baseline", !.prior = prior,
                                                              !.rejected = Rejected]]
    BY <1>3 DEF Deliver
  <2> DEFINE d == [IdleGate(head) EXCEPT !.at = "baseline", !.prior = prior, !.rejected = Rejected]
  <2>2. IdleGate(head) \in GateRecords
    BY IdleIsCall
  <2>3. prior \in Saved
    BY DEF NothingSaved, Saved
  <2>4. Rejected \in BOOLEAN
    BY DEF Rejected
  <2>5. d \in GateRecords /\ d.at = "baseline" /\ d.round = 1
    BY <2>2, <2>3, <2>4 DEF GateRecords, Points, IdleGate
  <2>6. d \in Calls
    <3> HIDE DEF d
    <3> QED BY <2>5 DEF Placed, WithPull, Early, BeforePull
  <2>7. gate' = [gate EXCEPT ![g] = d]
    BY <2>1
  <2> HIDE DEF d
  <2> QED BY <2>6, <2>7, OneCall
<1>4. CASE ReadBaseline(g)
  <2>1. PICK sha \in Nat \cup {None} :
          gate' = [gate EXCEPT ![g].baseline = sha,
                               ![g].at = IF c.prior.pull # None THEN "reconcile" ELSE "list"]
    BY <1>1, <1>4 DEF ReadBaseline, RemoteTypeOK, GateRecords, Saved
  <2> DEFINE d == [c EXCEPT !.baseline = sha,
                            !.at = IF c.prior.pull # None THEN "reconcile" ELSE "list"]
  <2>2. /\ d \in GateRecords /\ d.prior = c.prior /\ d.round = c.round
        /\ d.at = IF c.prior.pull # None THEN "reconcile" ELSE "list"
    BY <1>1 DEF GateRecords, Points
  <2>3. c.prior.pull \in Numbers \cup {None} /\ c.round = 1
    BY <1>1, <1>4 DEF GateRecords, Saved, ReadBaseline, Reads, At, Placed, Early, BeforePull
  <2>4. d \in Calls
    <3> HIDE DEF d
    <3> QED BY <2>2, <2>3 DEF Placed, WithPull, Early, BeforePull
  <2>5. gate' = [gate EXCEPT ![g] = d]
    BY <2>1
  <2> HIDE DEF d
  <2> QED BY <2>4, <2>5, OneCall
<1>5. CASE ReconcileMerged(g)
  <2> DEFINE d == [c EXCEPT !.at = "confirm", !.pull = c.prior.pull,
                            !.baseline = c.prior.previousMain, !.rejected = FALSE]
  <2>1. c.at = "reconcile"
    BY <1>5 DEF ReconcileMerged, Reads, At
  <2>2. c.prior.pull \in Numbers /\ c.prior.previousMain \in Nat \cup {None}
    BY <1>1, <2>1 DEF Placed, GateRecords, Saved
  <2>3. d \in GateRecords /\ d.at = "confirm" /\ d.pull \in Numbers
    BY <1>1, <2>2 DEF GateRecords, Points
  <2>4. d \in Calls
    <3> HIDE DEF d
    <3> QED BY <2>3 DEF Placed, WithPull, Early, BeforePull
  <2>5. gate' = [gate EXCEPT ![g] = d]
    BY <1>5 DEF ReconcileMerged
  <2> HIDE DEF d
  <2> QED BY <2>4, <2>5, OneCall
<1>6. ASSUME NEW point \in WithPull, NEW n \in Numbers, Found(g, point, n), c.round = 1
      PROVE  CallsOK'
  <2> DEFINE d == [c EXCEPT !.at = point, !.pull = n, !.rejected = FALSE]
  <2>3. d \in GateRecords /\ d.at = point /\ d.pull = n /\ d.round = 1
    BY <1>1, <1>6 DEF GateRecords, Points, WithPull
  <2>4. d \in Calls
    <3> HIDE DEF d
    <3> QED BY <2>3 DEF Placed, WithPull, Early, BeforePull
  <2>5. gate' = [gate EXCEPT ![g] = d]
    BY <1>6 DEF Found
  <2> HIDE DEF d
  <2> QED BY <2>4, <2>5, OneCall
<1>7. ASSUME NEW point \in WithPull \cup {"list", "create"}, NEW s \in {"COMPLETED", "BLOCKED", "FAILED"},
             Goes(g, point) \/ Ends(g, s), point \in WithPull => c.pull \in Numbers,
             point \in Early => c.round = 1
      PROVE  CallsOK'
  BY <1>7, GoesIsCall, EndsIsCall DEF WithPull, Points
<1>8. CASE ReconcileOther(g) \/ ListNone(g)
  <2>1. c.round = 1
    BY <1>8 DEF ReconcileOther, ListNone, Reads, At, Placed, Early, BeforePull
  <2> QED BY <1>7, <1>8, <2>1 DEF ReconcileOther, ListNone, WithPull
<1>9. CASE ListOpen(g) \/ ListMerged(g)
  <2>1. c.round = 1
    BY <1>9 DEF ListOpen, ListMerged, Reads, At, Placed, Early, BeforePull
  <2> QED BY <1>6, <1>9, <2>1 DEF ListOpen, ListMerged, WithPull
<1>10. CASE ListRejected(g) \/ CreateLost(g) \/ Refused(g) \/ VerifyMain(g)
  BY <1>10, EndsIsCall DEF ListRejected, CreateLost, Refused, VerifyMain
<1>11. CASE FetchPull(g)
  <2>1. c.pull \in Numbers /\ c.round = 1
    BY <1>11 DEF FetchPull, Reads, At, Placed, WithPull, Early, BeforePull
  <2> QED BY <1>7, <1>11, <2>1 DEF FetchPull, WithPull
<1>12. CASE CountApprovals(g)
  <2> DEFINE d == [c EXCEPT !.before = Approvals(pulls[c.pull].reviews), !.at = "rules"]
  <2>1. c.pull \in Numbers
    BY <1>12 DEF CountApprovals, Reads, At, Placed, WithPull
  <2>2. Approvals(pulls[c.pull].reviews) \in Nat
    BY DEF Approvals
  <2>3. d \in GateRecords /\ d.at = "rules" /\ d.pull = c.pull
    BY <1>1, <2>2 DEF GateRecords, Points
  <2>4. d \in Calls
    <3> HIDE DEF d
    <3> QED BY <2>1, <2>3 DEF Placed, WithPull, Early, BeforePull
  <2>5. gate' = [gate EXCEPT ![g] = d]
    BY <1>12 DEF CountApprovals
  <2> HIDE DEF d
  <2> QED BY <2>4, <2>5, OneCall
<1>13. CASE CreatePull(g)
  <2>1. NextPull \in Numbers
    BY <1>13, NextIsAbsent DEF CreatePull
  <2>2. CASE branch = c.head
    <3> DEFINE d == [c EXCEPT !.pull = NextPull, !.at = "rules"]
    <3>1. d \in GateRecords /\ d.at = "rules" /\ d.pull = NextPull
      BY <1>1, <2>1 DEF GateRecords, Points
    <3>2. d \in Calls
      <4> HIDE DEF d
      <4> QED BY <2>1, <3>1 DEF Placed, WithPull, Early, BeforePull
    <3>3. gate' = [gate EXCEPT ![g] = d]
      BY <1>13, <2>2 DEF CreatePull
    <3> HIDE DEF d
    <3> QED BY <3>2, <3>3, OneCall
  <2>3. CASE branch # c.head
    BY <1>13, <2>3, EndsIsCall DEF CreatePull
  <2> QED BY <2>2, <2>3
<1>14. CASE ReadRuleset(g)
  <2>1. PICK answer \in {NormalizeRulesets(ruleset), Unreadable} :
          gate' = [gate EXCEPT ![g].at = "protection", ![g].ruleset = answer]
    BY <1>14 DEF ReadRuleset
  <2> DEFINE d == [c EXCEPT !.at = "protection", !.ruleset = answer]
  <2>2. c.pull \in Numbers
    BY <1>14 DEF ReadRuleset, Reads, At, Placed, WithPull
  <2>3. answer \in Governance
    BY NormalizedIsGovernance DEF RemoteTypeOK
  <2>4. d \in GateRecords /\ d.at = "protection" /\ d.pull = c.pull
    BY <1>1, <2>3 DEF GateRecords, Points
  <2>5. d \in Calls
    <3> HIDE DEF d
    <3> QED BY <2>2, <2>4 DEF Placed, WithPull, Early, BeforePull
  <2>6. gate' = [gate EXCEPT ![g] = d]
    BY <2>1
  <2> HIDE DEF d
  <2> QED BY <2>5, <2>6, OneCall
<1>15. CASE ReadProtection(g)
  <2>1. PICK answer \in {NormalizeClassicProtection(classic), Unreadable} :
          LET gov == EffectiveGovernance(c.ruleset, answer, HasUnattributedCommits)
          IN  IF c.round = 2 /\ ~ gov.known
              THEN Ends(g, "BLOCKED")
              ELSE gate' = [gate EXCEPT ![g].at = AfterGovernance(c.round),
                                        ![g].ruleset = NoDemands,
                                        ![g].gov = IF c.round = 2 THEN NoDemands ELSE gov]
    BY <1>15 DEF ReadProtection
  <2> DEFINE gov == EffectiveGovernance(c.ruleset, answer, HasUnattributedCommits)
             d == [c EXCEPT !.at = AfterGovernance(c.round), !.ruleset = NoDemands,
                            !.gov = IF c.round = 2 THEN NoDemands ELSE gov]
  <2>2. c.pull \in Numbers
    BY <1>15 DEF ReadProtection, Reads, At, Placed, WithPull
  <2>3. answer \in Governance /\ NoDemands \in Governance
    BY NormalizedIsGovernance DEF RemoteTypeOK
  <2>4. gov \in Governance
    BY <1>1, <2>3, EffectiveIsGovernance DEF GateRecords
  <2>5. AfterGovernance(c.round) \in {"ci", "pull", "checks"}
    BY DEF AfterGovernance
  <2>6. d \in GateRecords /\ d.at = AfterGovernance(c.round) /\ d.pull = c.pull
    <3> HIDE DEF gov
    <3> QED BY <1>1, <2>3, <2>4, <2>5 DEF GateRecords, Points
  <2>7. d \in Calls
    <3> HIDE DEF d
    <3> QED BY <2>2, <2>5, <2>6 DEF Placed, WithPull, Early, BeforePull
  <2>8. CASE c.round = 2 /\ ~ gov.known
    BY <2>1, <2>8, EndsIsCall
  <2>9. CASE ~ (c.round = 2 /\ ~ gov.known)
    <3>1. gate' = [gate EXCEPT ![g] = d]
      BY <2>1, <2>9
    <3> HIDE DEF d
    <3> QED BY <2>7, <3>1, OneCall
  <2> QED BY <2>8, <2>9
<1>16. CASE ObserveChecks(g)
  <2> DEFINE d == [c EXCEPT !.at = "rules", !.round = 2, !.gov = NoDemands]
  <2>1. c.pull \in Numbers
    BY <1>16 DEF ObserveChecks, Reads, At, Placed, WithPull
  <2>2. NoDemands \in Governance
    BY NormalizedIsGovernance DEF RemoteTypeOK
  <2>3. d \in GateRecords /\ d.at = "rules" /\ d.pull = c.pull
    <3> DEFINE d1 == [c EXCEPT !.at = "rules"]
               d2 == [d1 EXCEPT !.round = 2]
    <3>1. d1 \in GateRecords
      BY <1>1, Fields DEF Points
    <3>2. d2 \in GateRecords
      <4> HIDE DEF d1
      <4> QED BY <3>1, Fields
    <3>3. [d2 EXCEPT !.gov = NoDemands] \in GateRecords
      <4> HIDE DEF d2
      <4> QED BY <2>2, <3>2, Fields
    <3>4. d = [d2 EXCEPT !.gov = NoDemands]
      OBVIOUS
    <3>5. d.at = "rules" /\ d.pull = c.pull
      BY <1>1 DEF GateRecords
    <3> HIDE DEF d, d2
    <3> QED BY <3>3, <3>4, <3>5
  <2>4. d \in Calls
    <3> HIDE DEF d
    <3> QED BY <2>1, <2>3 DEF Placed, WithPull, Early, BeforePull
  <2>5. gate' = [gate EXCEPT ![g] = d]
    BY <1>16 DEF ObserveChecks
  <2> HIDE DEF d
  <2> QED BY <2>4, <2>5, OneCall
<1>17. CASE RereadPull(g)
  <2> DEFINE p == pulls[c.pull]
             open == p.state = "open" /\ p.head = c.head /\ p.base = "main"
             d == [c EXCEPT !.at = "reviews", !.stillOpen = open]
  <2>1. c.pull \in Numbers
    BY <1>17 DEF RereadPull, Reads, At, Placed, WithPull
  <2>2. open \in BOOLEAN
    OBVIOUS
  <2>3. d \in GateRecords /\ d.at = "reviews" /\ d.pull = c.pull
    <3> HIDE DEF open
    <3> QED BY <1>1, <2>2 DEF GateRecords, Points
  <2>4. d \in Calls
    <3> HIDE DEF d
    <3> QED BY <2>1, <2>3 DEF Placed, WithPull, Early, BeforePull
  <2>5. gate' = [gate EXCEPT ![g] = d]
    BY <1>17 DEF RereadPull
  <2> HIDE DEF d
  <2> QED BY <2>4, <2>5, OneCall
<1>18. CASE RereadReviews(g)
  <2> DEFINE d == [c EXCEPT !.at = "rules", !.round = 3, !.reviews = pulls[c.pull].reviews]
  <2>1. c.pull \in Numbers
    BY <1>18 DEF RereadReviews, Reads, At, Placed, WithPull
  <2>2. pulls[c.pull].reviews \in SUBSET Reviews
    BY <2>1 DEF RemoteTypeOK, Pull
  <2>3. d \in GateRecords /\ d.at = "rules" /\ d.pull = c.pull
    <3> DEFINE d1 == [c EXCEPT !.at = "rules"]
               d2 == [d1 EXCEPT !.round = 3]
               r == pulls[c.pull].reviews
    <3>1. d1 \in GateRecords
      BY <1>1, Fields DEF Points
    <3>2. d2 \in GateRecords
      <4> HIDE DEF d1
      <4> QED BY <3>1, Fields
    <3>3. [d2 EXCEPT !.reviews = r] \in GateRecords
      <4> HIDE DEF d2, r
      <4>1. r \in SUBSET Reviews
        BY <2>2 DEF r
      <4> QED BY <3>2, <4>1, Fields
    <3>4. d = [d2 EXCEPT !.reviews = r]
      OBVIOUS
    <3>5. d.at = "rules" /\ d.pull = c.pull
      BY <1>1 DEF GateRecords
    <3> HIDE DEF d, d2
    <3> QED BY <3>3, <3>4, <3>5
  <2>4. d \in Calls
    <3> HIDE DEF d
    <3> QED BY <2>1, <2>3 DEF Placed, WithPull, Early, BeforePull
  <2>5. gate' = [gate EXCEPT ![g] = d]
    BY <1>18 DEF RereadReviews
  <2> HIDE DEF d
  <2> QED BY <2>4, <2>5, OneCall
<1>19. CASE Authorize(g)
  <2> DEFINE d == [c EXCEPT !.at = "put", !.stillOpen = FALSE, !.reviews = {}, !.gov = NoDemands,
                            !.before = 0]
  <2>1. c.pull \in Numbers
    BY <1>19 DEF Authorize, Reads, At, Placed, WithPull
  <2>2. NoDemands \in Governance
    BY NormalizedIsGovernance DEF RemoteTypeOK
  <2>3. d \in GateRecords /\ d.at = "put" /\ d.pull = c.pull
    BY <1>1, <2>2 DEF GateRecords, Points
  <2>4. d \in Calls
    <3> HIDE DEF d
    <3> QED BY <2>1, <2>3 DEF Placed, WithPull, Early, BeforePull
  <2>5. gate' = [gate EXCEPT ![g] = d] \/ Ends(g, "BLOCKED")
    BY <1>19 DEF Authorize
  <2> HIDE DEF d
  <2> QED BY <2>4, <2>5, OneCall, EndsIsCall
<1>20. CASE PutAnswered(g) \/ PutFailed(g) \/ PutLost(g) \/ ResolveAmbiguous(g)
  <2>1. c.pull \in Numbers
    BY <1>20 DEF PutAnswered, PutFailed, PutLost, ResolveAmbiguous, Reads, At, Placed, WithPull
  <2>2. \A answer : DeliveryStatus(answer) \in {"BLOCKED", "FAILED"}
    BY DEF DeliveryStatus
  <2> QED BY <1>7, <1>20, <2>1, <2>2
          DEF PutAnswered, PutFailed, PutLost, ResolveAmbiguous, WithPull, Early, BeforePull
<1>21. CASE Confirm(g)
  <2> DEFINE b == IF c.baseline = None THEN pulls[c.pull].baseSha ELSE c.baseline
             d == [c EXCEPT !.at = "verify", !.baseline = b]
  <2>1. c.pull \in Numbers
    BY <1>21 DEF Confirm, Reads, At, Placed, WithPull
  <2>2. b \in Nat \cup {None}
    BY <1>1, <2>1 DEF RemoteTypeOK, Pull, GateRecords
  <2>3. d \in GateRecords /\ d.at = "verify" /\ d.pull = c.pull
    <3> HIDE DEF b
    <3> QED BY <1>1, <2>2 DEF GateRecords, Points
  <2>4. d \in Calls
    <3> HIDE DEF d
    <3> QED BY <2>1, <2>3 DEF Placed, WithPull, Early, BeforePull
  <2>5. gate' = [gate EXCEPT ![g] = d]
    BY <1>21 DEF Confirm
  <2> HIDE DEF d
  <2> QED BY <2>4, <2>5, OneCall
<1>22. CASE Save(g) \/ Crash(g)
  <2>1. IdleGate(branch) \in Calls
    BY IdleIsCall DEF RemoteTypeOK
  <2>2. gate' = [gate EXCEPT ![g] = IdleGate(branch)]
    BY <1>22 DEF Save, Crash
  <2> QED BY <2>1, <2>2, OneCall
<1> QED
  BY <1>2, <1>3, <1>4, <1>5, <1>8, <1>9, <1>10, <1>11, <1>12, <1>13, <1>14, <1>15, <1>16, <1>17,
     <1>18, <1>19, <1>20, <1>21, <1>22 DEF GateStep

\* The actions, by what they may do to the remote.
Reading(g) ==
  \/ ReadBaseline(g) \/ ReconcileMerged(g) \/ ReconcileOther(g) \/ ListOpen(g) \/ ListMerged(g)
  \/ ListNone(g) \/ ListRejected(g) \/ FetchPull(g) \/ CountApprovals(g) \/ ReadRuleset(g)
  \/ ReadProtection(g) \/ ObserveChecks(g) \/ RereadPull(g) \/ RereadReviews(g) \/ Authorize(g)
  \/ PutFailed(g) \/ ResolveAmbiguous(g) \/ Confirm(g) \/ VerifyMain(g) \/ Refused(g) \/ Save(g)
  \/ Crash(g)

LEMMA NextByRemote ==
  ASSUME Next
  PROVE  \/ \E g \in Gates : Reading(g)
         \/ \E g \in Gates : DeliveryOff(g) \/ Deliver(g) \/ CreatePull(g) \/ CreateLost(g)
                             \/ PutAnswered(g) \/ PutLost(g)
         \/ Event \/ GovernanceChanged \/ Retargeted \/ Late
BY DEF Next, GateStep, Reading

LEMMA ReadingLeavesRemote ==
  ASSUME NEW g \in Gates, Reading(g)
  PROVE  UNCHANGED << remote, landed >>
BY DEF Reading, ReadBaseline, ReconcileMerged, ReconcileOther, ListOpen, ListMerged, ListNone,
       ListRejected, FetchPull, CountApprovals, ReadRuleset, ReadProtection, ObserveChecks,
       RereadPull, RereadReviews, Authorize, PutFailed, ResolveAmbiguous, Confirm, VerifyMain,
       Refused, Save, Crash, Reads, At

\* The ways the pull requests, the branch and the default branch change.
PullStep ==
  \/ UNCHANGED << branch, pulls, inMain >>
  \/ (\E head \in Shas : PushedTo(head)) /\ UNCHANGED inMain
  \/ \E n \in Numbers : pulls[n].state = "open" /\ Merged(n) /\ UNCHANGED branch
  \/ CreateAccepted /\ Created /\ UNCHANGED << branch, inMain >>
  \/ \E n \in Numbers : (Review(n) \/ Close(n)) /\ UNCHANGED << branch, inMain >>
  \/ /\ used'.retargets = used.retargets + 1
     /\ \E n \in Numbers : Retarget(n) /\ UNCHANGED << branch, inMain >>

LEMMA NextIsPullStep ==
  ASSUME TypeOK, CallsOK, Next
  PROVE  PullStep
<1>1. ASSUME NEW g \in Gates, Reading(g) PROVE PullStep
  BY <1>1, ReadingLeavesRemote DEF PullStep, remote
<1>2. ASSUME NEW g \in Gates, DeliveryOff(g) \/ Deliver(g) PROVE PullStep
  BY <1>2 DEF DeliveryOff, Deliver, PullStep
<1>3. ASSUME NEW g \in Gates, CreatePull(g) \/ CreateLost(g) PROVE PullStep
  BY <1>3 DEF CreatePull, CreateLost, PullStep
<1>4. ASSUME NEW g \in Gates, PutAnswered(g) PROVE PullStep
  <2>1. gate[g].pull \in Numbers
    BY <1>4 DEF PutAnswered, CallsOK, Calls, Placed, WithPull
  <2> QED BY <1>4, <2>1 DEF PutAnswered, MergeAccepted, PullStep
<1>5. ASSUME NEW g \in Gates, PutLost(g) PROVE PullStep
  BY <1>5 DEF PutLost, PullStep
<1>6. CASE Event
  BY <1>6 DEF Event, Push, CheckRuns, Review, Close, MergeByHand, OtherWorkMerged, PullStep
<1>7. CASE GovernanceChanged
  BY <1>7 DEF GovernanceChanged, RulesChange, PullStep
<1>8. CASE Retargeted
  <2>1. used'.retargets = used.retargets + 1
    BY <1>8 DEF Retargeted, Happens, TypeOK
  <2> QED BY <1>8, <2>1 DEF Retargeted, Retarget, PullStep
<1>9. CASE Late
  <2>1. PICK req \in pending : ServerMerges(req) \/ ServerCreates(req)
    BY <1>9 DEF Late
  <2>2. req \in Requests
    BY DEF TypeOK, RemoteTypeOK
  <2>3. ServerMerges(req) => req.pull \in Numbers
    BY <2>2 DEF Requests, ServerMerges
  <2> QED BY <2>1, <2>3 DEF ServerMerges, ServerCreates, MergeAccepted, PullStep
<1> QED BY <1>1, <1>2, <1>3, <1>4, <1>5, <1>6, <1>7, <1>8, <1>9, NextByRemote

\* A record of a pull request in which one field has changed.
LEMMA PullFields ==
  ASSUME NEW p \in Pull
  PROVE  /\ \A s \in {"absent", "open", "closed", "merged"} : [p EXCEPT !.state = s] \in Pull
         /\ \A s \in Shas : [p EXCEPT !.head = s] \in Pull
         /\ [p EXCEPT !.base = "other"] \in Pull
         /\ \A r \in SUBSET Reviews : [p EXCEPT !.reviews = r] \in Pull
BY DEF Pull

LEMMA OnePull ==
  ASSUME RemoteTypeOK, NEW n \in Numbers, NEW p \in Pull, pulls' = [pulls EXCEPT ![n] = p]
  PROVE  pulls' \in [Numbers -> Pull]
BY DEF RemoteTypeOK

LEMMA PullsTyped ==
  ASSUME RemoteTypeOK, PullStep
  PROVE  pulls' \in [Numbers -> Pull] /\ branch' \in Shas /\ inMain' \subseteq Shas
<1> USE DEF RemoteTypeOK
<1>1. CASE UNCHANGED << branch, pulls, inMain >>
  BY <1>1
<1>2. CASE (\E head \in Shas : PushedTo(head)) /\ UNCHANGED inMain
  <2>1. PICK head \in Shas : PushedTo(head)
    BY <1>2
  <2>2. \A n \in Numbers : [pulls[n] EXCEPT !.head = head] \in Pull /\ pulls[n] \in Pull
    BY PullFields
  <2>3. pulls' \in [Numbers -> Pull]
    BY <2>1, <2>2 DEF PushedTo
  <2> QED BY <1>2, <2>1, <2>3 DEF PushedTo
<1>3. CASE \E n \in Numbers : pulls[n].state = "open" /\ Merged(n) /\ UNCHANGED branch
  <2>1. PICK n \in Numbers : Merged(n) /\ UNCHANGED branch
    BY <1>3
  <2>2. pulls[n] \in Pull /\ pulls[n].head \in Shas
    BY DEF Pull
  <2>3. [pulls[n] EXCEPT !.state = "merged"] \in Pull
    BY <2>2, PullFields
  <2>4. pulls' \in [Numbers -> Pull]
    BY <2>1, <2>3, OnePull DEF Merged
  <2>5. inMain' \subseteq Shas
    BY <2>1, <2>2 DEF Merged
  <2> QED BY <2>1, <2>4, <2>5
<1>4. CASE CreateAccepted /\ Created /\ UNCHANGED << branch, inMain >>
  <2> DEFINE new == [state |-> "open", head |-> branch, base |-> "main", baseSha |-> main,
                     reviews |-> {}]
  <2>1. new \in Pull
    BY DEF Pull
  <2> HIDE DEF new
  <2>2. pulls' = [pulls EXCEPT ![NextPull] = new]
    BY <1>4 DEF Created, new
  <2> QED BY <1>4, <2>1, <2>2
<1>5. CASE \E n \in Numbers : (Review(n) \/ Close(n)) /\ UNCHANGED << branch, inMain >>
  <2>1. PICK n \in Numbers : (Review(n) \/ Close(n)) /\ UNCHANGED << branch, inMain >>
    BY <1>5
  <2>2. /\ [pulls[n] EXCEPT !.state = "closed"] \in Pull
        /\ \A r \in SUBSET Reviews : [pulls[n] EXCEPT !.reviews = r] \in Pull
    BY PullFields
  <2>3. \E q \in Pull : pulls' = [pulls EXCEPT ![n] = q]
    BY <2>1, <2>2 DEF Review, Close
  <2> QED BY <2>1, <2>3, OnePull
<1>6. CASE \E n \in Numbers : Retarget(n) /\ UNCHANGED << branch, inMain >>
  <2>1. PICK n \in Numbers : Retarget(n) /\ UNCHANGED << branch, inMain >>
    BY <1>6
  <2>2. [pulls[n] EXCEPT !.base = "other"] \in Pull
    BY PullFields
  <2> QED BY <2>1, <2>2, OnePull DEF Retarget
<1> QED BY <1>1, <1>2, <1>3, <1>4, <1>5, <1>6 DEF PullStep

\* How the rest of the remote changes.
LEMMA OtherRemoteTyped ==
  ASSUME TypeOK, CallsOK, Next
  PROVE  /\ ci' \in [Shas -> CheckStates]
         /\ ruleset' \in Rulesets /\ classic' \in Protections
         /\ main' \in Nat
         /\ pending' \subseteq Requests
<1> USE DEF TypeOK, RemoteTypeOK
<1>1. ASSUME NEW g \in Gates, Reading(g) PROVE UNCHANGED remote
  BY <1>1, ReadingLeavesRemote
<1>2. \A g \in Gates : /\ gate[g].head \in Shas
                       /\ gate[g].at = "put" => gate[g].pull \in Numbers
  BY DEF CallsOK, Calls, Placed, WithPull, GateRecords
<1>3. ci' \in [Shas -> CheckStates]
  <2>1. ASSUME NEW sha \in Shas, CheckRuns(sha) PROVE ci' \in [Shas -> CheckStates]
    <3>1. PICK s \in CheckStates : ci' = [ci EXCEPT ![sha] = s]
      BY <2>1 DEF CheckRuns
    <3> QED BY <3>1
  <2>2. CASE Event
    BY <2>1, <2>2 DEF Event, Push, Review, Close, MergeByHand, OtherWorkMerged
  <2>3. CASE ~ Event
    BY <1>1, <2>3, NextByRemote
       DEF remote, DeliveryOff, Deliver, CreatePull, CreateLost, PutAnswered, PutLost,
           GovernanceChanged, RulesChange, Retargeted, Retarget, Late, ServerMerges, ServerCreates
  <2> QED BY <2>2, <2>3
<1>4. ruleset' \in Rulesets /\ classic' \in Protections
  BY <1>1, NextByRemote
     DEF remote, DeliveryOff, Deliver, CreatePull, CreateLost, PutAnswered, PutLost, Event, Push,
         CheckRuns, Review, Close, MergeByHand, OtherWorkMerged, GovernanceChanged, RulesChange,
         Retargeted, Retarget, Late, ServerMerges, ServerCreates
<1>5. main' \in Nat
  <2> DEFINE next == main + 1
  <2>1. next \in Nat
    OBVIOUS
  <2>2. \A n : Merged(n) => main' \in {main, next}
    BY DEF Merged
  <2>unrelated. OtherWorkMerged => main' = next
    BY DEF OtherWorkMerged
  <2> HIDE DEF next
  <2>4. CASE Event
    BY <2>1, <2>2, <2>unrelated, <2>4 DEF Event, Push, CheckRuns, Review, Close, MergeByHand
  <2>5. CASE ~ Event
    BY <1>1, <2>1, <2>2, <2>5, NextByRemote
       DEF remote, DeliveryOff, Deliver, CreatePull, CreateLost, PutAnswered, PutLost,
           GovernanceChanged, RulesChange, Retargeted, Retarget, Late, ServerMerges, ServerCreates
  <2> QED BY <2>4, <2>5
<1>6. \A g \in Gates : PutLost(g) => pending' \subseteq Requests
  BY <1>2 DEF PutLost, At, Requests
<1>7. \A g \in Gates : CreateLost(g) => pending' \subseteq Requests
  BY DEF CreateLost, Requests
<1>8. pending' \subseteq Requests
  BY <1>1, <1>6, <1>7, NextByRemote
     DEF remote, DeliveryOff, Deliver, CreatePull, PutAnswered, Event, Push,
         CheckRuns, Review, Close, MergeByHand, OtherWorkMerged, GovernanceChanged, RulesChange,
         Retargeted, Retarget, Late, ServerMerges, ServerCreates
<1> QED BY <1>3, <1>4, <1>5, <1>8

\* What the calls have saved, and what is used of the bounds.
LEMMA SavedTyped ==
  ASSUME TypeOK, CallsOK, Next
  PROVE  saved' \in Saved
<1> USE DEF TypeOK
<1>1. \A g \in Gates : gate[g] \in GateRecords
  BY DEF CallsOK, Calls
<1>2. \A g \in Gates : Save(g) => saved' \in Saved
  BY <1>1 DEF Save, GateRecords, Saved
<1>3. NothingSaved \in Saved
  BY DEF NothingSaved, Saved
<1> QED BY <1>2, <1>3, ZenonT(60)
  DEF Next, GateStep, ReadBaseline, ReconcileMerged, ReconcileOther, ListOpen, ListMerged, ListNone,
      ListRejected, FetchPull, CountApprovals, ReadRuleset, ReadProtection, ObserveChecks,
      RereadPull, RereadReviews, Authorize, PutFailed, ResolveAmbiguous, Confirm, VerifyMain,
      Refused, Crash, Reads, At, DeliveryOff, Deliver, CreatePull, CreateLost, PutAnswered, PutLost,
      Event, GovernanceChanged, Retargeted, Late

Bounds == [calls : 0 .. MaxCalls, events : 0 .. MaxEvents, rules : 0 .. MaxRuleChanges,
           retargets : 0 .. MaxRetargets]

LEMMA UsedTyped ==
  ASSUME TypeOK, Next
  PROVE  used' \in Bounds
<1>1. used \in Bounds
  BY DEF TypeOK, Bounds
<1>2. ASSUME NEW w \in Bounds, w.calls < MaxCalls
      PROVE  [w EXCEPT !.calls = @ + 1] \in Bounds
  BY <1>2, DeliveryAssumption DEF Bounds
<1>3. ASSUME NEW w \in Bounds, w.events < MaxEvents
      PROVE  [w EXCEPT !.events = @ + 1] \in Bounds
  BY <1>3, DeliveryAssumption DEF Bounds
<1>4. ASSUME NEW w \in Bounds, w.rules < MaxRuleChanges
      PROVE  [w EXCEPT !.rules = @ + 1] \in Bounds
  BY <1>4, DeliveryAssumption DEF Bounds
<1>5. ASSUME NEW w \in Bounds, w.retargets < MaxRetargets
      PROVE  [w EXCEPT !.retargets = @ + 1] \in Bounds
  BY <1>5, DeliveryAssumption DEF Bounds
<1> DEFINE e == [used EXCEPT !.events = @ + 1]
<1>6. ASSUME used.events < MaxEvents
      PROVE  /\ e \in Bounds
             /\ e.rules = used.rules /\ e.retargets = used.retargets
             /\ [e EXCEPT !.rules = @ + 0, !.retargets = @ + 0] = e
             /\ [e EXCEPT !.rules = @ + 1, !.retargets = @ + 0] = [e EXCEPT !.rules = @ + 1]
             /\ [e EXCEPT !.rules = @ + 0, !.retargets = @ + 1] = [e EXCEPT !.retargets = @ + 1]
  <2>1. e \in Bounds
    BY <1>1, <1>3, <1>6
  <2>2. e.rules = used.rules /\ e.retargets = used.retargets
    BY <1>1 DEF Bounds
  <2>3. ASSUME NEW w \in Bounds
        PROVE  [w EXCEPT !.rules = @ + 0] = w /\ [w EXCEPT !.retargets = @ + 0] = w
    <3>1. w.rules + 0 = w.rules /\ w.retargets + 0 = w.retargets
      BY DEF Bounds
    <3>2. [w EXCEPT !.rules = w.rules] = w /\ [w EXCEPT !.retargets = w.retargets] = w
      BY DEF Bounds
    <3> QED BY <3>1, <3>2
  <2>4. [e EXCEPT !.rules = @ + 0, !.retargets = @ + 0] = e
    <3> HIDE DEF e
    <3> QED BY <2>1, <2>3
  <2>5. [e EXCEPT !.rules = @ + 1, !.retargets = @ + 0] = [e EXCEPT !.rules = @ + 1]
    <3> HIDE DEF e
    <3>1. e.retargets + 0 = e.retargets /\ [e EXCEPT !.retargets = e.retargets] = e
      BY <2>1 DEF Bounds
    <3> QED BY <2>1, <3>1 DEF Bounds
  <2>6. [e EXCEPT !.rules = @ + 0, !.retargets = @ + 1] = [e EXCEPT !.retargets = @ + 1]
    <3> HIDE DEF e
    <3> QED BY <2>1, <2>3
  <2> QED BY <2>1, <2>2, <2>4, <2>5, <2>6
<1>7. \A g \in Gates : (DeliveryOff(g) \/ Deliver(g)) => used' \in Bounds
  BY <1>1, <1>2 DEF DeliveryOff, Deliver
<1>8. Happens("crash") \/ Happens("event") => used' = e /\ used.events < MaxEvents
  BY <1>6 DEF Happens
<1>9. Happens("rules") => used' = [e EXCEPT !.rules = @ + 1] /\ used.events < MaxEvents
  BY <1>6 DEF Happens
<1>10. Happens("retarget") => used' = [e EXCEPT !.retargets = @ + 1] /\ used.events < MaxEvents
  BY <1>6 DEF Happens
<1>11. /\ Happens("crash") \/ Happens("event") => used' \in Bounds
       /\ used.rules < MaxRuleChanges /\ Happens("rules") => used' \in Bounds
       /\ used.retargets < MaxRetargets /\ Happens("retarget") => used' \in Bounds
  <2> HIDE DEF e
  <2> QED BY <1>4, <1>5, <1>6, <1>8, <1>9, <1>10
<1> QED BY <1>1, <1>7, <1>11, ZenonT(60)
  DEF Next, GateStep, ReadBaseline, ReconcileMerged, ReconcileOther, ListOpen, ListMerged, ListNone,
      ListRejected, FetchPull, CountApprovals, ReadRuleset, ReadProtection, ObserveChecks,
      RereadPull, RereadReviews, Authorize, PutFailed, ResolveAmbiguous, Confirm, VerifyMain,
      Refused, Crash, Save, Reads, At, CreatePull, CreateLost, PutAnswered, PutLost,
      Event, GovernanceChanged, Retargeted, Late

LEMMA HistoryTyped ==
  ASSUME TypeOK, CallsOK, Next
  PROVE  /\ seen' \in [Gates -> SUBSET Conditions]
         /\ cleared' \subseteq Numbers \X Shas
         /\ landed' \subseteq Numbers \X Shas
<1>1. Observed
  BY DEF Next
<1>2. \A g \in Gates : Satisfied(g)' \subseteq Conditions
  BY DEF Satisfied
<1>3. seen' \in [Gates -> SUBSET Conditions]
  BY <1>1, <1>2 DEF Observed, TypeOK
<1>4. \A g \in Gates : /\ gate[g].head \in Shas
                       /\ Revalidating(g) \/ gate[g].at = "put" => gate[g].pull \in Numbers
  BY DEF CallsOK, Calls, Placed, WithPull, GateRecords, Revalidating
<1>5. cleared' \subseteq Numbers \X Shas
  BY <1>1, <1>4 DEF Observed, TypeOK
<1>6. \A n \in Numbers : << n, pulls[n].head >> \in Numbers \X Shas
  BY DEF TypeOK, RemoteTypeOK, Pull
<1>7. landed' \subseteq Numbers \X Shas
  <2>1. ASSUME NEW g \in Gates, Reading(g) PROVE UNCHANGED landed
    BY <2>1, ReadingLeavesRemote
  <2>2. ASSUME NEW g \in Gates, PutAnswered(g) PROVE landed' \subseteq Numbers \X Shas
    BY <1>4, <1>6, <2>2 DEF PutAnswered, TypeOK
  <2>3. CASE Late
    <3>1. PICK req \in pending :
            \/ ServerMerges(req) /\ landed' = landed \cup { << req.pull, pulls[req.pull].head >> }
            \/ UNCHANGED landed
      BY <2>3 DEF Late
    <3>2. ServerMerges(req) => req.pull \in Numbers
      BY DEF TypeOK, RemoteTypeOK, Requests, ServerMerges
    <3> QED BY <1>6, <3>1, <3>2 DEF TypeOK
  <2> QED BY <2>1, <2>2, <2>3, NextByRemote
    DEF TypeOK, DeliveryOff, Deliver, CreatePull, CreateLost, PutLost, At, Event,
        GovernanceChanged, Retargeted
<1> QED BY <1>3, <1>5, <1>7

LEMMA InitTyped ==
  ASSUME Init
  PROVE  TypeOK /\ CallsOK
<1> USE DEF Init, RemoteInit
<1>1. RemoteTypeOK
  <2>1. \A head \in Shas : [state |-> "absent", head |-> head, base |-> "main", baseSha |-> 0,
                            reviews |-> {}] \in Pull
    BY DEF Pull
  <2>2. ci \in [Shas -> CheckStates]
    BY DEF CheckStates
  <2> QED BY <2>1, <2>2 DEF RemoteTypeOK
<1>2. CallsOK
  BY IdleIsCall DEF CallsOK
<1>3. gate \in [Gates -> GateRecords]
  BY <1>2 DEF CallsOK, Calls
<1>4. saved \in Saved
  BY DEF NothingSaved, Saved
<1>5. used \in Bounds
  BY DeliveryAssumption DEF Bounds
<1> QED BY <1>1, <1>2, <1>3, <1>4, <1>5 DEF TypeOK, Bounds

LEMMA StepTyped ==
  ASSUME TypeOK, CallsOK, [Next]_vars
  PROVE  TypeOK' /\ CallsOK'
<1>1. CASE Next
  <2>1. RemoteTypeOK'
    BY <1>1, NextIsPullStep, PullsTyped, OtherRemoteTyped DEF TypeOK, RemoteTypeOK
  <2>2. CallsOK'
    <3>1. CASE \E g \in Gates : GateStep(g) \/ Crash(g)
      BY <3>1, CallStep DEF TypeOK
    <3>2. CASE Event \/ GovernanceChanged \/ Retargeted \/ Late
      BY <3>2 DEF Event, GovernanceChanged, Retargeted, Late, CallsOK
    <3> QED BY <1>1, <3>1, <3>2 DEF Next
  <2>3. gate' \in [Gates -> GateRecords]
    BY <2>2 DEF CallsOK, Calls
  <2> QED BY <1>1, <2>1, <2>2, <2>3, SavedTyped, UsedTyped, HistoryTyped DEF TypeOK, Bounds
<1>2. CASE UNCHANGED vars
  BY <1>2 DEF TypeOK, RemoteTypeOK, CallsOK, vars, remote
<1> QED BY <1>1, <1>2

\* The remote, the calls of the gates and what is saved of them keep their form
\* whatever the requests, the answers and the crashes (TypeOK of Delivery), and
\* a call that needs a pull request knows its number.
THEOREM DeliveryTypes == Spec => [](TypeOK /\ CallsOK)
BY InitTyped, StepTyped, PTL DEF Spec

-----------------------------------------------------------------------------
(* Where a call comes from *)

\* A call that is neither revalidated, nor about to merge or to create, nor
\* verified, nor completed.
Elsewhere(d) ==
  /\ d.at \notin {"create", "put", "verify", "pull", "reviews", "checks"}
  /\ d.at \in {"rules", "protection"} => d.round # 3
  /\ d.at = "save" => d.status # "COMPLETED"

LEMMA EndsElsewhere ==
  ASSUME CallsOK, NEW g \in Gates, NEW s \in {"BLOCKED", "FAILED"}, Ends(g, s)
  PROVE  Elsewhere(gate'[g]) /\ ~ gate'[g].rejected
BY DEF CallsOK, Ends, Elsewhere, IdleGate

\* The step of one gate changes no other, and only some steps lead a call to a
\* point that the properties are about.
LEMMA Destinations ==
  ASSUME CallsOK, NEW g \in Gates, GateStep(g) \/ Crash(g)
  PROVE  /\ \A h \in Gates : h # g => gate'[h] = gate[h]
         /\ \/ gate'[g] = gate[g] \/ Elsewhere(gate'[g])
            \/ ListNone(g) \/ ReadRuleset(g) \/ ReadProtection(g) \/ RereadPull(g)
            \/ RereadReviews(g) \/ Authorize(g) \/ Confirm(g) \/ VerifyMain(g)
         /\ gate'[g].rejected => gate[g].rejected \/ (Deliver(g) /\ Rejected)
<1> DEFINE c == gate[g]
           Apart == \A h \in Gates : h # g => gate'[h] = gate[h]
<1>1. gate \in [Gates -> GateRecords] /\ Placed(c)
  BY DEF CallsOK, Calls
<1>2. ASSUME NEW s \in {"COMPLETED", "BLOCKED", "FAILED"}, Ends(g, s)
      PROVE  /\ Apart /\ ~ gate'[g].rejected
             /\ s # "COMPLETED" => Elsewhere(gate'[g])
  BY <1>1, <1>2 DEF Ends, Elsewhere, IdleGate
<1>3. ASSUME NEW p \in Points, Goes(g, p)
      PROVE  /\ Apart /\ gate'[g].at = p /\ gate'[g].round = c.round
             /\ gate'[g].rejected = c.rejected
  BY <1>1, <1>3 DEF Goes, GateRecords
<1>4. ASSUME NEW p \in {"fetch", "confirm"}, NEW n \in Numbers, Found(g, p, n)
      PROVE  Apart /\ Elsewhere(gate'[g]) /\ ~ gate'[g].rejected
  BY <1>1, <1>4 DEF Found, GateRecords, Elsewhere
<1>5. CASE DeliveryOff(g)
  BY <1>5 DEF DeliveryOff
<1>6. CASE Deliver(g)
  <2>1. PICK head \in Shas, prior \in {saved, NothingSaved} :
          gate' = [gate EXCEPT ![g] = [IdleGate(head) EXCEPT !.at = "baseline", !.prior = prior,
                                                              !.rejected = Rejected]]
    BY <1>6 DEF Deliver
  <2> QED BY <1>1, <1>6, <2>1 DEF IdleGate, Elsewhere
<1>7. CASE ReadBaseline(g) \/ ReconcileMerged(g)
  <2>1. /\ Apart
        /\ gate'[g].at \in {"reconcile", "list", "confirm"}
        /\ gate'[g].rejected => c.rejected
    <3>1. CASE ReadBaseline(g)
      <4> DEFINE next == IF c.prior.pull # None THEN "reconcile" ELSE "list"
      <4>1. PICK sha : gate' = [gate EXCEPT ![g].baseline = sha, ![g].at = next]
        BY <3>1 DEF ReadBaseline
      <4>2. next \in {"reconcile", "list"}
        OBVIOUS
      <4> HIDE DEF next
      <4> QED BY <1>1, <4>1, <4>2 DEF GateRecords
    <3>2. CASE ReconcileMerged(g)
      BY <1>1, <3>2 DEF ReconcileMerged, GateRecords
    <3> QED BY <1>7, <3>1, <3>2
  <2> QED BY <2>1 DEF Elsewhere
<1>8. CASE ReconcileOther(g) \/ ListNone(g) \/ PutAnswered(g) \/ PutLost(g)
  BY <1>3, <1>8 DEF ReconcileOther, ListNone, PutAnswered, PutLost, Elsewhere, Points
<1>9. CASE ListOpen(g) \/ ListMerged(g)
  BY <1>4, <1>9 DEF ListOpen, ListMerged
<1>10. CASE ListRejected(g) \/ CreateLost(g) \/ Refused(g) \/ VerifyMain(g)
  BY <1>2, <1>10 DEF ListRejected, CreateLost, Refused, VerifyMain
<1>11. CASE PutFailed(g) \/ ResolveAmbiguous(g)
  <2>1. \A answer : DeliveryStatus(answer) \in {"BLOCKED", "FAILED"}
    BY DEF DeliveryStatus
  <2> QED BY <1>2, <1>3, <1>11, <2>1 DEF PutFailed, ResolveAmbiguous, Points, Elsewhere
<1>12. CASE FetchPull(g)
  BY <1>2, <1>3, <1>12 DEF FetchPull, Points, Elsewhere
<1>13. CASE CountApprovals(g)
  <2>1. c.round = 1
    BY <1>1, <1>13 DEF CountApprovals, Reads, At, Placed, Early, BeforePull
  <2> QED BY <1>1, <1>13, <2>1 DEF CountApprovals, GateRecords, Elsewhere
<1>14. CASE CreatePull(g)
  <2>1. c.round = 1
    BY <1>1, <1>14 DEF CreatePull, Reads, At, Placed, Early, BeforePull
  <2>2. CASE branch = c.head
    BY <1>1, <1>14, <2>1, <2>2 DEF CreatePull, GateRecords, Elsewhere
  <2> QED BY <1>2, <1>14, <2>2 DEF CreatePull
<1>15. CASE ReadRuleset(g)
  BY <1>1, <1>15 DEF ReadRuleset, GateRecords
<1>16. CASE ReadProtection(g)
  <2>1. \/ Ends(g, "BLOCKED")
        \/ \E d : gate' = [gate EXCEPT ![g].at = AfterGovernance(c.round), ![g].ruleset = NoDemands,
                                       ![g].gov = d]
    BY <1>16 DEF ReadProtection
  <2> QED BY <1>1, <1>2, <1>16, <2>1 DEF GateRecords
<1>17. CASE ObserveChecks(g)
  BY <1>1, <1>17 DEF ObserveChecks, GateRecords, Elsewhere
<1>18. CASE RereadPull(g) \/ RereadReviews(g) \/ Confirm(g)
  BY <1>1, <1>18 DEF RereadPull, RereadReviews, Confirm, GateRecords
<1>19. CASE Authorize(g)
  <2>1. \/ Ends(g, "BLOCKED")
        \/ gate' = [gate EXCEPT ![g].at = "put", ![g].stillOpen = FALSE, ![g].reviews = {},
                                ![g].gov = NoDemands, ![g].before = 0]
    BY <1>19 DEF Authorize
  <2> QED BY <1>1, <1>2, <1>19, <2>1 DEF GateRecords
<1>20. CASE Save(g) \/ Crash(g)
  BY <1>1, <1>20 DEF Save, Crash, IdleGate, Elsewhere
<1> QED BY <1>5, <1>6, <1>7, <1>8, <1>9, <1>10, <1>11, <1>12, <1>13, <1>14, <1>15, <1>16, <1>17,
           <1>18, <1>19, <1>20 DEF GateStep

\* What the steps that lead to those points make of the call.
AfterRuleset(c, d) ==
  /\ c.at = "rules" /\ d.at = "protection"
  /\ d.ruleset \in {NormalizeRulesets(ruleset), Unreadable}
  /\ d.round = c.round /\ d.pull = c.pull /\ d.head = c.head
  /\ d.stillOpen = c.stillOpen /\ d.reviews = c.reviews

AfterProtection(c, d) ==
  /\ c.at = "protection"
  /\ \/ Elsewhere(d)
     \/ d.at = "pull" /\ d.pull = c.pull /\ d.head = c.head
     \/ /\ c.round = 3 /\ d.at = "checks" /\ d.pull = c.pull /\ d.head = c.head
        /\ d.stillOpen = c.stillOpen /\ d.reviews = c.reviews
        /\ \E answer \in {NormalizeClassicProtection(classic), Unreadable} :
             d.gov = EffectiveGovernance(c.ruleset, answer, HasUnattributedCommits)

AfterPull(c, d) ==
  /\ c.at = "pull" /\ d.at = "reviews" /\ d.pull = c.pull /\ d.head = c.head
  /\ d.stillOpen = (/\ pulls[c.pull].state = "open"
                    /\ pulls[c.pull].head = c.head
                    /\ pulls[c.pull].base = "main")

AfterReviews(c, d) ==
  /\ c.at = "reviews" /\ d.at = "rules" /\ d.pull = c.pull /\ d.head = c.head
  /\ d.stillOpen = c.stillOpen /\ d.reviews = pulls[c.pull].reviews

AfterAuthorize(c, d) ==
  /\ c.at = "checks"
  /\ \/ Elsewhere(d)
     \/ d.at = "put" /\ d.pull = c.pull /\ d.head = c.head /\ Allowed(c, ci[c.head])

LEMMA Arrivals ==
  ASSUME CallsOK, NEW g \in Gates
  PROVE  LET c == gate[g]
             d == gate'[g]
         IN  /\ ListNone(g) => d.at = "create" /\ d.rejected = c.rejected
             /\ ReadRuleset(g) => AfterRuleset(c, d)
             /\ ReadProtection(g) => AfterProtection(c, d)
             /\ RereadPull(g) => AfterPull(c, d)
             /\ RereadReviews(g) => AfterReviews(c, d)
             /\ Authorize(g) => AfterAuthorize(c, d)
             /\ Confirm(g) => /\ d.at = "verify" /\ d.head = c.head
                              /\ c.pull \in Numbers /\ MergedAs(c.pull, c.head)
             /\ VerifyMain(g) => c.at = "verify" /\ d.at = "save" /\ d.head = c.head
<1> DEFINE c == gate[g]
           d == gate'[g]
<1>1. gate \in [Gates -> GateRecords] /\ c \in GateRecords /\ Placed(c)
  BY DEF CallsOK, Calls
<1>2. ASSUME NEW s \in {"COMPLETED", "BLOCKED", "FAILED"}, Ends(g, s)
      PROVE  d.at = "save" /\ d.status = s /\ d.head = c.head
  BY <1>1, <1>2 DEF Ends, IdleGate
<1>3. ListNone(g) => d.at = "create" /\ d.rejected = c.rejected
  BY <1>1 DEF ListNone, Goes, GateRecords
<1>4. ASSUME ReadRuleset(g) PROVE AfterRuleset(c, d)
  <2>1. PICK answer \in {NormalizeRulesets(ruleset), Unreadable} :
          gate' = [gate EXCEPT ![g].at = "protection", ![g].ruleset = answer]
    BY <1>4 DEF ReadRuleset
  <2> QED BY <1>1, <1>4, <2>1 DEF ReadRuleset, Reads, At, GateRecords, AfterRuleset
<1>5. ASSUME ReadProtection(g) PROVE AfterProtection(c, d)
  <2>1. PICK answer \in {NormalizeClassicProtection(classic), Unreadable} :
          LET gov == EffectiveGovernance(c.ruleset, answer, HasUnattributedCommits)
          IN  IF c.round = 2 /\ ~ gov.known
              THEN Ends(g, "BLOCKED")
              ELSE gate' = [gate EXCEPT ![g].at = AfterGovernance(c.round),
                                        ![g].ruleset = NoDemands,
                                        ![g].gov = IF c.round = 2 THEN NoDemands ELSE gov]
    BY <1>5 DEF ReadProtection
  <2> DEFINE gov == EffectiveGovernance(c.ruleset, answer, HasUnattributedCommits)
             kept == IF c.round = 2 THEN NoDemands ELSE gov
             next == AfterGovernance(c.round)
  <2>2. c.at = "protection"
    BY <1>5 DEF ReadProtection, Reads, At
  <2>3. CASE c.round = 2 /\ ~ gov.known
    BY <1>2, <2>1, <2>2, <2>3 DEF AfterProtection, Elsewhere
  <2>4. CASE ~ (c.round = 2 /\ ~ gov.known)
    <3>1. gate' = [gate EXCEPT ![g].at = next, ![g].ruleset = NoDemands, ![g].gov = kept]
      BY <2>1, <2>4
    <3>2. /\ d.at = next /\ d.gov = kept /\ d.pull = c.pull /\ d.head = c.head
          /\ d.stillOpen = c.stillOpen /\ d.reviews = c.reviews
      <4> HIDE DEF next, kept
      <4> QED BY <1>1, <3>1 DEF GateRecords
    <3>3. c.round = 1 \/ c.round = 2 \/ c.round = 3
      BY <1>1 DEF GateRecords
    <3>4. CASE c.round = 1
      BY <2>2, <3>2, <3>4 DEF AfterGovernance, AfterProtection, Elsewhere
    <3>5. CASE c.round = 2
      BY <2>2, <3>2, <3>5 DEF AfterGovernance, AfterProtection
    <3>6. CASE c.round = 3
      <4>1. next = "checks" /\ kept = gov
        BY <3>6 DEF AfterGovernance
      <4> HIDE DEF next, kept
      <4> QED BY <2>2, <3>2, <3>6, <4>1 DEF AfterProtection
    <3> QED BY <3>3, <3>4, <3>5, <3>6
  <2> QED BY <2>3, <2>4
<1>6. RereadPull(g) => AfterPull(c, d)
  <2> DEFINE q == pulls[c.pull]
             open == q.state = "open" /\ q.head = c.head /\ q.base = "main"
  <2>1. SUFFICES ASSUME RereadPull(g) PROVE AfterPull(c, d)
    OBVIOUS
  <2>2. c.at = "pull" /\ gate' = [gate EXCEPT ![g].at = "reviews", ![g].stillOpen = open]
    BY <2>1 DEF RereadPull, Reads, At
  <2> DEFINE e == [c EXCEPT !.at = "reviews", !.stillOpen = open]
  <2>3. d = e
    BY <1>1, <2>2
  <2>4. e.at = "reviews" /\ e.pull = c.pull /\ e.head = c.head /\ e.stillOpen = open
    BY <1>1 DEF GateRecords
  <2>5. d.stillOpen = open
    BY <2>3, <2>4
  <2>6. d.at = "reviews" /\ d.pull = c.pull /\ d.head = c.head
    BY <2>3, <2>4
  <2> HIDE DEF c, d
  <2> QED BY <2>2, <2>5, <2>6, Zenon DEF AfterPull
<1>7. RereadReviews(g) => AfterReviews(c, d)
  BY <1>1 DEF RereadReviews, Reads, At, GateRecords, AfterReviews
<1>8. ASSUME Authorize(g) PROVE AfterAuthorize(c, d)
  <2>1. c.at = "checks"
    BY <1>8 DEF Authorize, Reads, At
  <2>2. \/ Ends(g, "BLOCKED")
        \/ /\ Allowed(c, ci[c.head])
           /\ gate' = [gate EXCEPT ![g].at = "put", ![g].stillOpen = FALSE, ![g].reviews = {},
                                   ![g].gov = NoDemands, ![g].before = 0]
    BY <1>8 DEF Authorize
  <2> QED BY <1>1, <1>2, <2>1, <2>2 DEF GateRecords, AfterAuthorize, Elsewhere
<1>9. Confirm(g) => /\ d.at = "verify" /\ d.head = c.head
                    /\ c.pull \in Numbers /\ MergedAs(c.pull, c.head)
  <2>1. Confirm(g) => c.pull \in Numbers
    BY <1>1 DEF Confirm, Reads, At, Placed, WithPull
  <2> QED BY <1>1, <2>1 DEF Confirm, GateRecords
<1>10. VerifyMain(g) => c.at = "verify" /\ d.at = "save" /\ d.head = c.head
  BY <1>2 DEF VerifyMain, Reads, At
<1> QED BY <1>3, <1>4, <1>5, <1>6, <1>7, <1>8, <1>9, <1>10

-----------------------------------------------------------------------------
(* Rejected pull requests *)

\* A pull request that is closed or merged stays as it is, and the default
\* branch keeps what it contains.
LEMMA SettledPulls ==
  ASSUME RemoteTypeOK, PullStep
  PROVE  /\ \A n \in Numbers : pulls[n].state \in {"closed", "merged"} => pulls'[n] = pulls[n]
         /\ inMain \subseteq inMain'
<1> USE DEF RemoteTypeOK
<1>1. CASE UNCHANGED << branch, pulls, inMain >>
  BY <1>1
<1>2. CASE (\E head \in Shas : PushedTo(head)) /\ UNCHANGED inMain
  BY <1>2 DEF PushedTo
<1>3. CASE \E n \in Numbers : pulls[n].state = "open" /\ Merged(n) /\ UNCHANGED branch
  BY <1>3 DEF Merged
<1>4. CASE CreateAccepted /\ Created /\ UNCHANGED << branch, inMain >>
  BY <1>4, NextIsAbsent DEF Created
<1>5. CASE \E n \in Numbers : (Review(n) \/ Close(n)) /\ UNCHANGED << branch, inMain >>
  BY <1>5 DEF Review, Close
<1>6. CASE \E n \in Numbers : Retarget(n) /\ UNCHANGED << branch, inMain >>
  BY <1>6 DEF Retarget
<1> QED BY <1>1, <1>2, <1>3, <1>4, <1>5, <1>6 DEF PullStep

\* A step is that of one gate, or leaves every call alone.
LEMMA StepOfAGate ==
  ASSUME [Next]_vars
  PROVE  (\E g \in Gates : GateStep(g) \/ Crash(g)) \/ UNCHANGED gate
BY DEF Next, Event, GovernanceChanged, Retargeted, Late, vars

\* A call knows of a rejection only while there is one, and forgets none before
\* it asks for a pull request.
RejectionInv ==
  \A g \in Gates : /\ gate[g].rejected => Rejected
                   /\ gate[g].at = "create" => ~ gate[g].rejected

LEMMA RejectionStep ==
  ASSUME TypeOK, CallsOK, RejectionInv, [Next]_vars
  PROVE  RejectionInv'
<1>1. RemoteTypeOK /\ PullStep
  BY NextIsPullStep DEF TypeOK, PullStep, vars, remote
<1>2. Rejected => Rejected'
  BY <1>1, SettledPulls DEF Rejected
<1>3. ASSUME NEW g \in Gates, GateStep(g) \/ Crash(g), NEW h \in Gates
      PROVE  /\ gate'[h].rejected => Rejected'
             /\ gate'[h].at = "create" => ~ gate'[h].rejected
  <2>1. CASE gate'[h] = gate[h]
    BY <1>2, <2>1 DEF RejectionInv
  <2>2. CASE gate'[h] # gate[h]
    <3>1. h = g
      BY <1>3, <2>2, Destinations
    <3>2. gate'[g].rejected => Rejected
      BY <1>3, Destinations DEF RejectionInv
    <3>3. gate'[g].at = "create" => ListNone(g)
      <4>1. Elsewhere(gate'[g]) \/ ListNone(g) \/ ReadRuleset(g) \/ ReadProtection(g) \/ RereadPull(g)
            \/ RereadReviews(g) \/ Authorize(g) \/ Confirm(g) \/ VerifyMain(g)
        BY <1>3, <2>2, <3>1, Destinations
      <4> QED BY <4>1, Arrivals
        DEF Elsewhere, AfterRuleset, AfterProtection, AfterPull, AfterReviews, AfterAuthorize
    <3>4. ListNone(g) => ~ Rejected
      BY DEF ListNone, MayCreate, Listed, Rejected
    <3> QED BY <1>2, <3>1, <3>2, <3>3, <3>4
  <2> QED BY <2>1, <2>2
<1>4. CASE UNCHANGED gate
  BY <1>2, <1>4 DEF RejectionInv
<1> QED BY <1>3, <1>4, StepOfAGate DEF RejectionInv

\* A call that begins after a pull request of the branch was closed unmerged
\* asks for no new one, whatever pushes, closings and other gates come in
\* between (pr-lifecycle-manager.ts, PR_PREVIOUSLY_REJECTED).
THEOREM RejectedStaysRejected == Spec => []RejectionIsHeeded
<1>1. Init => RejectionInv
  BY DEF Init, RejectionInv, IdleGate
<1>2. RejectionInv => RejectionIsHeeded
  BY DEF RejectionInv, RejectionIsHeeded
<1> QED BY <1>1, <1>2, RejectionStep, DeliveryTypes, PTL DEF Spec

-----------------------------------------------------------------------------
(* What has been merged *)

\* As long as nothing is retargeted, every pull request is one of the default
\* branch, and a merged one has brought its head there.
MainInv ==
  used.retargets = 0 =>
    /\ \A n \in Numbers : /\ pulls[n].base = "main"
                          /\ pulls[n].state = "merged" => pulls[n].head \in inMain
    /\ \A g \in Gates : gate[g].at = "verify" \/ Completed(g) => gate[g].head \in inMain

\* What has been retargeted is never forgotten.
LEMMA RetargetsStay ==
  ASSUME TypeOK, [Next]_vars, used'.retargets = 0
  PROVE  used.retargets = 0
<1>1. used \in Bounds
  BY DEF TypeOK, Bounds
<1>2. used.retargets \in Nat
  BY <1>1 DEF Bounds
<1>3. used' = used => used.retargets = 0
  OBVIOUS
<1>4. \A g \in Gates : DeliveryOff(g) \/ Deliver(g) => used.retargets = 0
  BY <1>1 DEF DeliveryOff, Deliver, Bounds
<1>5. \A what : Happens(what) => used.retargets = 0
  <2>1. SUFFICES ASSUME NEW what, Happens(what) PROVE used.retargets = 0
    OBVIOUS
  <2> DEFINE more == IF what = "retarget" THEN 1 ELSE 0
  <2>2. used'.retargets = used.retargets + more
    BY <1>1, <2>1 DEF Happens, Bounds
  <2>3. more \in Nat
    OBVIOUS
  <2> HIDE DEF more
  <2> QED BY <1>2, <2>2, <2>3
<1> QED BY <1>3, <1>4, <1>5, ZenonT(60)
  DEF Next, GateStep, ReadBaseline, ReconcileMerged, ReconcileOther, ListOpen, ListMerged, ListNone,
      ListRejected, FetchPull, CountApprovals, ReadRuleset, ReadProtection, ObserveChecks,
      RereadPull, RereadReviews, Authorize, PutFailed, ResolveAmbiguous, Confirm, VerifyMain,
      Refused, Crash, Save, Reads, At, CreatePull, CreateLost, PutAnswered, PutLost,
      Event, GovernanceChanged, Retargeted, Late, vars

LEMMA MainStep ==
  ASSUME TypeOK, CallsOK, MainInv, [Next]_vars
  PROVE  MainInv'
<1>1. RemoteTypeOK /\ PullStep
  BY NextIsPullStep DEF TypeOK, PullStep, vars, remote
<1>2. SUFFICES ASSUME used'.retargets = 0
               PROVE  /\ \A n \in Numbers : /\ pulls'[n].base = "main"
                                            /\ pulls'[n].state = "merged" => pulls'[n].head \in inMain'
                      /\ \A g \in Gates : gate'[g].at = "verify" \/ Completed(g)' => gate'[g].head \in inMain'
  BY DEF MainInv
<1>3. /\ \A n \in Numbers : /\ pulls[n].base = "main"
                            /\ pulls[n].state = "merged" => pulls[n].head \in inMain
      /\ \A g \in Gates : gate[g].at = "verify" \/ Completed(g) => gate[g].head \in inMain
      /\ used.retargets = 0
  BY <1>2, RetargetsStay DEF MainInv
<1>4. \A n \in Numbers : /\ pulls'[n].base = "main"
                         /\ pulls'[n].state = "merged" => pulls'[n].head \in inMain'
  <2> USE DEF RemoteTypeOK, Pull
  <2>1. CASE UNCHANGED << branch, pulls, inMain >>
    BY <1>3, <2>1
  <2>2. CASE (\E head \in Shas : PushedTo(head)) /\ UNCHANGED inMain
    BY <1>1, <1>3, <2>2 DEF PushedTo
  <2>merge. CASE \E n \in Numbers : pulls[n].state = "open" /\ Merged(n) /\ UNCHANGED branch
    BY <1>1, <1>3, <2>merge DEF Merged
  <2>4. CASE CreateAccepted /\ Created /\ UNCHANGED << branch, inMain >>
    BY <1>1, <1>3, <2>4 DEF Created
  <2>5. CASE \E n \in Numbers : (Review(n) \/ Close(n)) /\ UNCHANGED << branch, inMain >>
    BY <1>1, <1>3, <2>5 DEF Review, Close
  <2>6. used'.retargets # used.retargets + 1
    BY <1>2, <1>3
  <2> QED BY <1>1, <2>1, <2>2, <2>merge, <2>4, <2>5, <2>6 DEF PullStep
<1>5. inMain \subseteq inMain'
  BY <1>1, SettledPulls
<1>6. ASSUME NEW g \in Gates, GateStep(g) \/ Crash(g), NEW h \in Gates,
             gate'[h].at = "verify" \/ Completed(h)'
      PROVE  gate'[h].head \in inMain'
  <2>1. CASE gate'[h] = gate[h]
    BY <1>3, <1>5, <1>6, <2>1 DEF Completed
  <2>2. CASE gate'[h] # gate[h]
    <3>1. h = g
      BY <1>6, <2>2, Destinations
    <3>2. ~ Elsewhere(gate'[g])
      BY <1>6, <3>1 DEF Elsewhere, Completed
    <3>3. Confirm(g) \/ VerifyMain(g)
      <4>1. \/ ListNone(g) \/ ReadRuleset(g) \/ ReadProtection(g) \/ RereadPull(g)
            \/ RereadReviews(g) \/ Authorize(g) \/ Confirm(g) \/ VerifyMain(g)
        BY <1>6, <2>2, <3>1, <3>2, Destinations
      <4>2. gate'[g].at \in {"verify", "save"}
        BY <1>6, <3>1 DEF Completed
      <4> QED BY <3>2, <4>1, <4>2, Arrivals
        DEF AfterRuleset, AfterProtection, AfterPull, AfterReviews, AfterAuthorize
    <3>4. gate'[g].head = gate[g].head /\ gate[g].head \in inMain
      BY <1>3, <3>3, Arrivals DEF MergedAs
    <3> QED BY <1>5, <3>1, <3>4
  <2> QED BY <2>1, <2>2
<1>7. CASE UNCHANGED gate
  BY <1>3, <1>4, <1>5, <1>7 DEF Completed
<1> QED BY <1>4, <1>6, <1>7, StepOfAGate

\* As long as no pull request changes its base, a delivery is reported COMPLETED
\* only when the default branch contains the commit: after an answer that was
\* lost, a merge by hand, a reconciliation or a second gate, too
\* (remote-delivery-gate.ts, completeCausalVerification).
THEOREM CompletedReachesMain == Spec => []CompletedIsInMain
<1>1. Init => MainInv
  BY DEF Init, RemoteInit, MainInv, IdleGate, Completed
<1>2. MainInv => CompletedIsInMain
  BY DEF MainInv, CompletedIsInMain
<1> QED BY <1>1, <1>2, MainStep, DeliveryTypes, PTL DEF Spec

-----------------------------------------------------------------------------
(* What authorises a merge *)

\* The rules of the branch rest while a gate revalidates.
RulesRest == (\E g \in Gates : Revalidating(g)) => UNCHANGED << ruleset, classic >>

\* What a gate that revalidates has read, it has read at a moment that the
\* history knows.
ReadsAreSeen(g) ==
  LET c == gate[g] IN
  /\ Satisfied(g) \subseteq seen[g]
  /\ c.at # "pull" /\ c.stillOpen => "open" \in seen[g]
  /\ c.at \in {"rules", "protection", "checks"} /\ ApprovalsMet(ruleset, classic, c.reviews) =>
       "approved" \in seen[g]
  /\ c.at = "protection" /\ c.ruleset.known => c.ruleset = NormalizeRulesets(ruleset)
  /\ c.at = "checks" /\ c.gov.known => c.gov = InForce

ClearedInv ==
  /\ \A g \in Gates : /\ Revalidating(g) => ReadsAreSeen(g)
                      /\ gate[g].at = "put" => << gate[g].pull, gate[g].head >> \in cleared
  /\ \A req \in pending : req.kind = "merge" => << req.pull, req.head >> \in cleared
  /\ landed \subseteq cleared

\* A call that revalidates and is allowed to merge has seen every condition.
LEMMA AllowedHasSeenAll ==
  ASSUME MethodsAgree, TypeOK, CallsOK, NEW g \in Gates, gate[g].at = "checks",
         ReadsAreSeen(g), Allowed(gate[g], ci[gate[g].head])
  PROVE  seen[g] = Conditions
<1> DEFINE c == gate[g]
           check == ci[c.head]
<1>1. /\ c \in GateRecords /\ c.pull \in Numbers
      /\ ruleset \in Rulesets /\ classic \in Protections
      /\ seen[g] \subseteq Conditions
  BY DEF TypeOK, RemoteTypeOK, CallsOK, Calls, Placed, WithPull
<1>2. check \in CheckStates /\ c.reviews \in SUBSET Reviews
  BY <1>1 DEF TypeOK, RemoteTypeOK, GateRecords
<1>3. /\ c.stillOpen /\ c.gov.known
      /\ Green(check, c.gov.checks)
      /\ Approvals(c.reviews) >= c.gov.approvals
      /\ c.gov.approvals > 0 => ReviewDecision(c.reviews) = "APPROVED"
      /\ Method \in c.gov.methods
  BY DEF Allowed, Revalidated
<1>4. c.gov = InForce
  BY <1>3 DEF ReadsAreSeen
<1>5. "open" \in seen[g]
  BY <1>3 DEF ReadsAreSeen
<1>6. "approved" \in seen[g]
  <2>1. ApprovalsMet(ruleset, classic, c.reviews)
    BY <1>1, <1>2, <1>3, <1>4, ApprovedByBoth DEF InForce
  <2> QED BY <2>1 DEF ReadsAreSeen
<1>7. "green" \in seen[g]
  <2>1. ChecksMet(ruleset, classic, check, Contexts \ {TheCheck})
    BY <1>1, <1>2, <1>3, <1>4, GreenForBoth DEF InForce
  <2>2. "green" \in Satisfied(g)
    BY <2>1 DEF Satisfied, Conditions
  <2> QED BY <2>2 DEF ReadsAreSeen
<1>8. "method" \in seen[g]
  <2>1. MethodMet(ruleset, classic)
    BY <1>1, <1>3, <1>4, MethodOfBoth DEF InForce
  <2>2. "method" \in Satisfied(g)
    BY <2>1 DEF Satisfied, Conditions
  <2> QED BY <2>2 DEF ReadsAreSeen
<1> QED BY <1>1, <1>5, <1>6, <1>7, <1>8 DEF Conditions

\* What is read off the rules, unchanged, does not change.
LEMMA ReadsStaySeen ==
  ASSUME NEW g \in Gates, ReadsAreSeen(g), gate'[g] = gate[g], UNCHANGED << ruleset, classic >>,
         seen[g] \subseteq seen'[g], Satisfied(g)' \subseteq seen'[g]
  PROVE  ReadsAreSeen(g)'
BY DEF ReadsAreSeen, InForce

\* A step into or along the revalidation reads what the history sees.
LEMMA ReadsAreSeenStep ==
  ASSUME TypeOK, CallsOK, ClearedInv, Next, RulesRest, NEW h \in Gates, Revalidating(h)'
  PROVE  ReadsAreSeen(h)'
<1> DEFINE c == gate[h]
           d == gate'[h]
<1>1. /\ seen' = [g \in Gates |-> IF Revalidating(g)' THEN seen[g] \cup Satisfied(g)' ELSE {}]
      /\ Observed
  BY DEF Next, Observed
<1>2. seen[h] \subseteq seen'[h] /\ Satisfied(h)' \subseteq seen'[h]
  BY <1>1
<1>3. Revalidating(h) => ReadsAreSeen(h) /\ UNCHANGED << ruleset, classic >>
  BY DEF ClearedInv, RulesRest
<1>4. CASE gate'[h] = gate[h]
  <2>1. Revalidating(h)
    BY <1>4 DEF Revalidating
  <2> QED BY <1>2, <1>3, <1>4, <2>1, ReadsStaySeen
<1>5. CASE gate'[h] # gate[h]
  <2>1. PICK g \in Gates : GateStep(g) \/ Crash(g)
    BY <1>5, StepOfAGate
  <2>2. h = g
    BY <1>5, <2>1, Destinations
  <2>3. ~ Elsewhere(d) /\ d.at \in {"pull", "reviews", "checks", "rules", "protection"}
    BY DEF Revalidating, Elsewhere
  <2>4. \/ ReadRuleset(h) /\ AfterRuleset(c, d)
        \/ ReadProtection(h) /\ AfterProtection(c, d)
        \/ RereadPull(h) /\ AfterPull(c, d)
        \/ RereadReviews(h) /\ AfterReviews(c, d)
    <3>1. \/ ListNone(h) \/ ReadRuleset(h) \/ ReadProtection(h) \/ RereadPull(h)
          \/ RereadReviews(h) \/ Authorize(h) \/ Confirm(h) \/ VerifyMain(h)
      BY <1>5, <2>1, <2>2, <2>3, Destinations
    <3> QED BY <2>3, <3>1, Arrivals DEF AfterAuthorize
  <2>5. ReadRuleset(h) \/ ReadProtection(h) \/ RereadPull(h) \/ RereadReviews(h) => UNCHANGED remote
    BY DEF ReadRuleset, ReadProtection, RereadPull, RereadReviews, Reads
  <2>6. CASE ReadRuleset(h) /\ AfterRuleset(c, d)
    <3>1. d.round = 3 /\ Revalidating(h)
      BY <2>6 DEF Revalidating, AfterRuleset
    <3>2. /\ c.stillOpen => "open" \in seen[h]
          /\ ApprovalsMet(ruleset, classic, c.reviews) => "approved" \in seen[h]
      BY <1>3, <2>6, <3>1 DEF ReadsAreSeen, AfterRuleset
    <3>3. d.ruleset.known => d.ruleset = NormalizeRulesets(ruleset)
      BY <2>6 DEF AfterRuleset, Unreadable, NoDemands
    <3> QED BY <1>2, <2>5, <2>6, <3>2, <3>3 DEF ReadsAreSeen, AfterRuleset, remote
  <2>7. CASE ReadProtection(h) /\ AfterProtection(c, d)
    <3>1. CASE d.at = "pull"
      BY <1>2, <3>1 DEF ReadsAreSeen
    <3>2. CASE d.at # "pull"
      <4>1. /\ c.at = "protection" /\ c.round = 3 /\ d.at = "checks"
            /\ d.stillOpen = c.stillOpen /\ d.reviews = c.reviews
        BY <2>3, <2>7, <3>2 DEF AfterProtection
      <4>2. PICK answer \in {NormalizeClassicProtection(classic), Unreadable} :
              d.gov = EffectiveGovernance(c.ruleset, answer, HasUnattributedCommits)
        BY <2>3, <2>7, <3>2 DEF AfterProtection
      <4>3. /\ c.stillOpen => "open" \in seen[h]
            /\ ApprovalsMet(ruleset, classic, c.reviews) => "approved" \in seen[h]
            /\ c.ruleset.known => c.ruleset = NormalizeRulesets(ruleset)
        BY <1>3, <4>1 DEF ReadsAreSeen, Revalidating
      <4>4. d.gov.known => c.ruleset.known /\ answer.known
        <5>1. EffectiveGovernance(c.ruleset, answer, HasUnattributedCommits).known
                = (c.ruleset.known /\ answer.known)
          BY DEF EffectiveGovernance
        <5> QED BY <4>2, <5>1, Zenon
      <4>5. answer.known => answer = NormalizeClassicProtection(classic)
        BY DEF Unreadable, NoDemands
      <4>6. d.gov.known => d.gov = InForce
        BY <4>2, <4>3, <4>4, <4>5 DEF InForce
      <4>7. InForce' = InForce
        BY <2>5, <2>7 DEF InForce, remote
      <4> QED BY <1>2, <2>5, <2>7, <4>1, <4>3, <4>6, <4>7 DEF ReadsAreSeen, remote
    <3> QED BY <3>1, <3>2
  <2>8. CASE RereadPull(h) /\ AfterPull(c, d)
    <3>1. d.at = "reviews" /\ d.pull = c.pull /\ d.head = c.head /\ UNCHANGED pulls
      BY <2>5, <2>8 DEF AfterPull, remote
    <3>2. d.stillOpen => "open" \in Satisfied(h)'
      <4>1. d.stillOpen => /\ pulls'[d.pull].state = "open"
                           /\ pulls'[d.pull].head = d.head
                           /\ pulls'[d.pull].base = "main"
        <5> HIDE DEF c, d
        <5> QED BY <2>8, <3>1, Zenon DEF AfterPull
      <4> QED BY <4>1 DEF Satisfied, Conditions
    <3> QED BY <1>2, <3>1, <3>2 DEF ReadsAreSeen
  <2>9. CASE RereadReviews(h) /\ AfterReviews(c, d)
    <3>1. d.at = "rules" /\ d.pull = c.pull /\ d.reviews = pulls'[d.pull].reviews
      BY <2>5, <2>9 DEF AfterReviews, remote
    <3>2. ApprovalsMet(ruleset', classic', d.reviews) => "approved" \in Satisfied(h)'
      BY <3>1 DEF Satisfied, Conditions
    <3>3. d.stillOpen => "open" \in seen[h]
      BY <1>3, <2>9 DEF AfterReviews, ReadsAreSeen, Revalidating
    <3> QED BY <1>2, <3>1, <3>2, <3>3 DEF ReadsAreSeen
  <2> QED BY <2>4, <2>6, <2>7, <2>8, <2>9
<1> QED BY <1>4, <1>5

LEMMA ClearedStep ==
  ASSUME MethodsAgree, TypeOK, CallsOK, ClearedInv, [Next]_vars, [RulesRest]_vars
  PROVE  ClearedInv'
<1>1. CASE UNCHANGED vars
  BY <1>1 DEF ClearedInv, Revalidating, ReadsAreSeen, Satisfied, InForce, vars, remote
<1>2. CASE Next /\ ~ UNCHANGED vars
  <2>1. RulesRest /\ Observed
    BY <1>2 DEF Next
  <2>2. \A h \in Gates : Revalidating(h)' => ReadsAreSeen(h)'
    BY <1>2, <2>1, ReadsAreSeenStep
  <2>3. cleared \subseteq cleared'
    BY <2>1 DEF Observed
  <2>4. ASSUME NEW h \in Gates, gate'[h].at = "put"
        PROVE  << gate'[h].pull, gate'[h].head >> \in cleared'
    <3>1. CASE gate'[h] = gate[h]
      BY <2>3, <2>4, <3>1 DEF ClearedInv
    <3>2. CASE gate'[h] # gate[h]
      <4>1. PICK g \in Gates : GateStep(g) \/ Crash(g)
        BY <1>2, <3>2, StepOfAGate
      <4>2. h = g
        BY <3>2, <4>1, Destinations
      <4>3. /\ gate[h].at = "checks" /\ Allowed(gate[h], ci[gate[h].head])
            /\ gate'[h].pull = gate[h].pull /\ gate'[h].head = gate[h].head
        <5>1. ~ Elsewhere(gate'[h])
          BY <2>4 DEF Elsewhere
        <5>2. \/ ListNone(h) \/ ReadRuleset(h) \/ ReadProtection(h) \/ RereadPull(h)
              \/ RereadReviews(h) \/ Authorize(h) \/ Confirm(h) \/ VerifyMain(h)
          BY <3>2, <4>1, <4>2, <5>1, Destinations
        <5> QED BY <2>4, <5>1, <5>2, Arrivals
          DEF AfterRuleset, AfterProtection, AfterPull, AfterReviews, AfterAuthorize
      <4>4. Revalidating(h) /\ ReadsAreSeen(h)
        BY <4>3 DEF Revalidating, ClearedInv
      <4>5. seen[h] = Conditions
        BY <4>3, <4>4, AllowedHasSeenAll
      <4>6. << gate[h].pull, gate[h].head >> \in cleared'
        BY <2>1, <4>4, <4>5 DEF Observed
      <4> QED BY <4>3, <4>6
    <3> QED BY <3>1, <3>2
  <2>5. ASSUME NEW req \in pending', req.kind = "merge"
        PROVE  << req.pull, req.head >> \in cleared'
    <3>1. req \in pending \/ \E g \in Gates : PutLost(g) /\ req.pull = gate[g].pull /\ req.head = gate[g].head
      <4>1. ASSUME NEW g \in Gates, Reading(g) PROVE pending' = pending
        BY <4>1, ReadingLeavesRemote DEF remote
      <4>2. \A g \in Gates : DeliveryOff(g) \/ Deliver(g) \/ CreatePull(g) \/ PutAnswered(g) => pending' = pending
        BY DEF DeliveryOff, Deliver, CreatePull, PutAnswered
      <4>3. \A g \in Gates : CreateLost(g) => req \in pending
        BY <2>5 DEF CreateLost
      <4>4. \A g \in Gates : PutLost(g) => req \in pending \/ (req.pull = gate[g].pull /\ req.head = gate[g].head)
        BY DEF PutLost
      <4>5. Event \/ GovernanceChanged \/ Retargeted \/ Late => pending' \subseteq pending
        BY DEF Event, Push, CheckRuns, Review, Close, MergeByHand, OtherWorkMerged,
               GovernanceChanged, RulesChange, Retargeted, Retarget, Late, ServerMerges, ServerCreates
      <4> QED BY <1>2, <4>1, <4>2, <4>3, <4>4, <4>5, NextByRemote
    <3>2. \A g \in Gates : PutLost(g) => << gate[g].pull, gate[g].head >> \in cleared
      BY DEF PutLost, At, ClearedInv
    <3> QED BY <2>3, <2>5, <3>1, <3>2 DEF ClearedInv
  <2>6. landed' \subseteq cleared'
    <3>1. ASSUME NEW g \in Gates, Reading(g) PROVE landed' = landed
      BY <3>1, ReadingLeavesRemote
    <3>2. ASSUME NEW g \in Gates, PutAnswered(g)
          PROVE  landed' \subseteq cleared
      BY <3>2 DEF PutAnswered, MergeAccepted, ClearedInv
    <3>3. CASE Late
      <4>1. PICK req \in pending :
              \/ ServerMerges(req) /\ landed' = landed \cup { << req.pull, pulls[req.pull].head >> }
              \/ landed' = landed
        BY <3>3 DEF Late
      <4> QED BY <2>3, <4>1 DEF ServerMerges, MergeAccepted, ClearedInv
    <3> QED BY <1>2, <2>3, <3>1, <3>2, <3>3, NextByRemote
      DEF ClearedInv, DeliveryOff, Deliver, CreatePull, CreateLost, PutLost, At, Event,
          GovernanceChanged, Retargeted
  <2> QED BY <2>2, <2>4, <2>5, <2>6 DEF ClearedInv
<1> QED BY <1>1, <1>2

\* Whatever the gate gets merged - at once, late, or after a crash - had passed
\* its revalidation at that very head, provided that the rules of the branch
\* rest while a gate revalidates and that the rules that list merge methods
\* agree (pre-merge-revalidation.ts, governance-normalizer.ts, the sha of the
\* merge request).
THEOREM MergesWereCleared ==
  ASSUME MethodsAgree
  PROVE  Spec /\ [][RulesRest]_vars => []MergedWasCleared
<1>1. Init => ClearedInv
  BY DEF Init, RemoteInit, ClearedInv, Revalidating, IdleGate
<1>2. ClearedInv => MergedWasCleared
  BY DEF ClearedInv, MergedWasCleared
<1>3. TypeOK /\ CallsOK /\ ClearedInv /\ [Next]_vars /\ [RulesRest]_vars => ClearedInv'
  BY ClearedStep
<1> QED BY <1>1, <1>2, <1>3, DeliveryTypes, PTL DEF Spec
=============================================================================
