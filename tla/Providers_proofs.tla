-------------------------- MODULE Providers_proofs --------------------------
(***************************************************************************)
(* What the gateways guarantee for any models, configurations and tasks.   *)
(***************************************************************************)
EXTENDS Providers, FiniteSetTheorems, WellFoundedInduction, TLAPS

-----------------------------------------------------------------------------
(* Extrema *)

LEMMA LeastNatural ==
  ASSUME NEW S \in SUBSET Nat, S # {}
  PROVE  \E n \in S : \A m \in S : n <= m
<1>1. PICK n \in S : \A m \in S : ~ (<<m, n>> \in OpToRel(<, Nat))
  BY NatLessThanWellFounded, WFMin, Zenon
<1>2. \A m \in S : <<m, n>> \in Nat \X Nat
  OBVIOUS
<1>3. \A m \in S : ~ (m < n)
  BY <1>1, <1>2 DEF OpToRel
<1> QED BY <1>3

LEMMA MinIs ==
  ASSUME NEW S \in SUBSET Nat, S # {}
  PROVE  Min(S) \in S
BY LeastNatural DEF Min

LEMMA MaxIs ==
  ASSUME NEW S \in SUBSET Int, NEW m \in S, \A x \in S : x <= m
  PROVE  Max(S) = m
<1>1. \A x \in S : (\A y \in S : x >= y) <=> x = m
  OBVIOUS
<1> QED BY <1>1 DEF Max

\* Some answer has the highest cost.
LEMMA DearestAnswer == Max(Costs) \in Nat \ {0} /\ \A c \in Costs : c \in Nat /\ c <= Max(Costs)
BY ConfigAssumption, MaxIs

LEMMA LongestRest ==
  /\ Max({Rest, QuotaRest}) \in Nat
  /\ Rest <= Max({Rest, QuotaRest}) /\ QuotaRest <= Max({Rest, QuotaRest})
  /\ ShortRest \in Nat \ {0} /\ ShortRest <= Max({Rest, QuotaRest})
<1>1. Rest \in Nat \ {0} /\ QuotaRest \in Nat \ {0}
  BY LimitsAssumption
<1>2. \/ Max({Rest, QuotaRest}) = Rest /\ QuotaRest <= Rest
      \/ Max({Rest, QuotaRest}) = QuotaRest /\ Rest <= QuotaRest
  <2>1. CASE Rest <= QuotaRest
    BY <1>1, <2>1, MaxIs
  <2>2. CASE QuotaRest <= Rest
    BY <1>1, <2>2, MaxIs
  <2> QED BY <1>1, <2>1, <2>2
<1>3. ShortRest \in Nat \ {0} /\ ShortRest <= Rest
  BY <1>1 DEF ShortRest
<1> QED BY <1>1, <1>2, <1>3

-----------------------------------------------------------------------------
(* The inductive invariant of an execution, under a configuration c *)

\* The fields that the steps below read after writing others.
Has(x) ==
  /\ "pc" \in DOMAIN x /\ "task" \in DOMAIN x /\ "gateway" \in DOMAIN x /\ "queue" \in DOMAIN x /\ "cands" \in DOMAIN x
  /\ "at" \in DOMAIN x /\ "calls" \in DOMAIN x /\ "batch" \in DOMAIN x /\ "wanted" \in DOMAIN x /\ "results" \in DOMAIN x
  /\ "messages" \in DOMAIN x /\ "touched" \in DOMAIN x /\ "paidAttempts" \in DOMAIN x /\ "paidRequests" \in DOMAIN x
  /\ "cost" \in DOMAIN x /\ "faithful" \in DOMAIN x

\* The gateway that ran tools is the present one, and it has counted them.
Touch(c, x) == x.touched \subseteq {c.gateways[x.gateway]} /\ (x.touched # {} => x.calls > 0)

Turns == [calls : Nat, results : Nat]

Talk(c, x) ==
  /\ x.messages \in Seq(Turns) /\ \A i \in DOMAIN x.messages : x.messages[i].calls = x.messages[i].results
  /\ x.pc = "tools" => /\ x.batch \in Seq(Seq(Nat)) /\ x.results \in Nat
                       /\ x.wanted = x.results + Len(x.batch)
  /\ ~c.stream => x.faithful

\* Paid models are a fallback only.
FallbackOnly(x) == \A i \in DOMAIN x.cands : x.cands[i].free \/ x.cands[i].model # x.queue[1]

NoOpenRouter(c, x) == \A i \in 1..x.gateway : c.gateways[i] # "openrouter"

AtOpenRouter(c, x) == x.gateway > 0 /\ c.gateways[x.gateway] = "openrouter"

Budget(c, x) ==
  /\ x.paidAttempts \in Nat /\ x.paidRequests \in Nat /\ x.cost \in Nat
  /\ NoOpenRouter(c, x) => x.paidRequests = 0
  /\ AtOpenRouter(c, x) =>
       /\ Len(x.cands) \in Nat /\ DOMAIN x.cands = 1..Len(x.cands)
       /\ x.paidRequests = x.paidAttempts
       /\ FallbackOnly(x) => x.paidAttempts <= c.maxPaidAttempts
       /\ x.cost < c.maxCost + Max(Costs)
       /\ x.pc = "asking" => x.at \in DOMAIN x.cands /\ (x.cands[x.at].free \/ x.cost < c.maxCost)

Basics(c, x) ==
  /\ Has(x) /\ x.calls \in Nat /\ x.gateway \in 0..Len(c.gateways) /\ x.task \in Tasks
  /\ x.gateway = 0 => x.pc = "idle"
  /\ x.gateway = 0 => x.touched = {}

Sound(c, x) == Basics(c, x) /\ Touch(c, x) /\ Talk(c, x) /\ Budget(c, x)

\* It has begun, and is sound.
Live(c, x) == Sound(c, x) /\ x.pc # "idle"

\* An execution goes on: nothing that the invariant counts has changed.
Kept(x, y) ==
  /\ Has(y)
  /\ y.task = x.task /\ y.gateway = x.gateway /\ y.calls = x.calls /\ y.touched = x.touched
  /\ y.messages = x.messages /\ y.faithful = x.faithful

SameBudget(x, y) ==
  /\ y.queue = x.queue /\ y.cands = x.cands /\ y.cost = x.cost
  /\ y.paidAttempts = x.paidAttempts /\ y.paidRequests = x.paidRequests

\* It has stopped asking and running tools.
Rests(x, y) == Kept(x, y) /\ SameBudget(x, y) /\ y.pc \in {"ended", "done"}

\* It asks the candidate at a place it may ask.
Asks(x, y) ==
  /\ Kept(x, y) /\ y.pc = "asking"
  /\ y.queue = x.queue /\ y.cands = x.cands /\ y.cost = x.cost
  /\ y.at \in DOMAIN x.cands /\ MayAsk(x, x.cands[y.at])
  /\ LET paid == IF x.cands[y.at].free THEN 0 ELSE 1
     IN  y.paidAttempts = x.paidAttempts + paid /\ y.paidRequests = x.paidRequests + paid

\* The router asks: it pays nothing.
AsksRouter(x, y) ==
  /\ Kept(x, y) /\ y.pc = "asking"
  /\ y.cost = x.cost /\ y.paidAttempts = x.paidAttempts /\ y.paidRequests = x.paidRequests

LEMMA RestsIsSound ==
  ASSUME NEW c, NEW x, NEW y, Sound(c, x), x.gateway > 0, Rests(x, y)
  PROVE  Live(c, y)
<1>1. Basics(c, y) /\ Touch(c, y) /\ Talk(c, y)
  BY DEF Sound, Basics, Touch, Talk, Rests, Kept
<1>2. Budget(c, y)
  BY DEF Sound, Budget, Rests, Kept, SameBudget, NoOpenRouter, AtOpenRouter, FallbackOnly
<1> QED BY <1>1, <1>2 DEF Sound, Live, Rests, Asks, AsksRouter

LEMMA AsksIsSound ==
  ASSUME NEW x, NEW y, Sound(cfg, x), AtOpenRouter(cfg, x), cfg \in Configs, Asks(x, y)
  PROVE  Live(cfg, y)
<1>1. Basics(cfg, y) /\ Touch(cfg, y) /\ Talk(cfg, y)
  BY DEF Sound, Basics, Touch, Talk, Asks, Kept, AtOpenRouter
<1>2. /\ cfg.maxPaidAttempts \in Nat /\ cfg.maxCost \in Nat
      /\ Policy(x).maxCost = cfg.maxCost /\ Policy(x).maxPaidAttempts = cfg.maxPaidAttempts
  BY ConfigAssumption DEF Policy, BuildRoutingPolicy
<1>3. ~x.cands[y.at].free => x.cost < cfg.maxCost
  BY <1>2 DEF Asks, MayAsk
<1>4. ~x.cands[y.at].free /\ FallbackOnly(x) => x.paidAttempts < cfg.maxPaidAttempts
  BY <1>2 DEF Asks, MayAsk, FallbackOnly, CanUsePaidFallback
<1>5. y.cost < cfg.maxCost + Max(Costs) /\ y.cost \in Nat
  BY DEF Asks, Sound, Budget
<1>6. /\ y.paidAttempts \in Nat /\ y.paidRequests \in Nat /\ y.paidRequests = y.paidAttempts
      /\ FallbackOnly(y) => y.paidAttempts <= cfg.maxPaidAttempts
  <2>1. FallbackOnly(y) <=> FallbackOnly(x)
    BY DEF Asks, FallbackOnly
  <2>2. x.paidAttempts \in Nat /\ x.paidRequests = x.paidAttempts
        /\ (FallbackOnly(x) => x.paidAttempts <= cfg.maxPaidAttempts)
    BY DEF Sound, Budget
  <2>3. CASE x.cands[y.at].free
    BY <2>1, <2>2, <2>3 DEF Asks
  <2>4. CASE ~x.cands[y.at].free
    BY <1>2, <1>4, <2>1, <2>2, <2>4 DEF Asks
  <2> QED BY <2>3, <2>4
<1>7. ~NoOpenRouter(cfg, y)
  BY <1>1 DEF Asks, Kept, AtOpenRouter, NoOpenRouter, Sound, Basics
<1>8. Budget(cfg, y)
  BY <1>3, <1>5, <1>6, <1>7 DEF Budget, Asks, Sound, AtOpenRouter, Kept
<1> QED BY <1>1, <1>8 DEF Sound, Live, Rests, Asks, AsksRouter

LEMMA RouterIsSound ==
  ASSUME NEW c, NEW x, NEW y, Sound(c, x), x.gateway > 0, ~AtOpenRouter(c, x), AsksRouter(x, y)
  PROVE  Live(c, y)
<1>1. Basics(c, y) /\ Touch(c, y) /\ Talk(c, y)
  BY DEF Sound, Basics, Touch, Talk, AsksRouter, Kept
<1>2. Budget(c, y)
  BY DEF Sound, Budget, AsksRouter, Kept, NoOpenRouter, AtOpenRouter
<1> QED BY <1>1, <1>2 DEF Sound, Live, Rests, Asks, AsksRouter

-----------------------------------------------------------------------------
(* What the functions of the providers make of an execution *)

LEMMA EndedRests ==
  ASSUME NEW x, Has(x), NEW status, NEW code, NEW http
  PROVE  Rests(x, Ended(x, status, code, http))
BY DEF Has, Rests, Kept, SameBudget, Ended

LEMMA GivesUpRests ==
  ASSUME NEW x, Has(x)
  PROVE  Rests(x, RouterGivesUp(x))
<1>1. \E status, code, http : RouterGivesUp(x) = Ended(x, status, code, http)
  BY DEF RouterGivesUp
<1> QED BY <1>1, EndedRests

LEMMA AllFailedRests ==
  ASSUME NEW x, Has(x)
  PROVE  Rests(x, AllFailed(x))
<1> DEFINE w == [x EXCEPT !.at = Len(x.cands) + 1]
<1>1. Has(w) /\ Kept(x, w) /\ SameBudget(x, w)
  BY DEF Has, Kept, SameBudget
<1> HIDE DEF w
<1>2. Rests(w, Ended(w, "FAILED", "ALL_PROVIDERS_FAILED", 0))
  BY <1>1, EndedRests
<1>3. AllFailed(x) = Ended(w, "FAILED", "ALL_PROVIDERS_FAILED", 0)
  BY DEF AllFailed, w
<1> QED BY <1>1, <1>2, <1>3 DEF Rests, Kept, SameBudget

LEMMA AskFromAsks ==
  ASSUME NEW x, Has(x), NEW i \in Nat \ {0}, Len(x.cands) \in Nat, DOMAIN x.cands = 1..Len(x.cands)
  PROVE  Rests(x, AskFrom(x, i)) \/ Asks(x, AskFrom(x, i))
<1> DEFINE allowed == {j \in i..Len(x.cands) : MayAsk(x, x.cands[j])}
<1>1. CASE allowed = {}
  <2>1. AskFrom(x, i) = AllFailed(x)
    BY <1>1 DEF AskFrom
  <2> QED BY <2>1, AllFailedRests
<1>2. CASE allowed # {}
  <2> DEFINE j == Min(allowed)
             paid == IF x.cands[j].free THEN 0 ELSE 1
             y == [x EXCEPT !.pc = "asking", !.at = j, !.attempt = 1, !.paidAttempts = @ + paid, !.paidRequests = @ + paid]
  <2>1. j \in allowed
    <3>1. allowed \in SUBSET Nat
      OBVIOUS
    <3> HIDE DEF allowed
    <3> QED BY <1>2, <3>1, MinIs
  <2>2. AskFrom(x, i) = y
    BY <1>2 DEF AskFrom
  <2>3. j \in DOMAIN x.cands /\ MayAsk(x, x.cands[j])
    BY <2>1
  <2> HIDE DEF j
  <2>4. Asks(x, y)
    BY <2>3 DEF Has, Asks, Kept
  <2> QED BY <2>2, <2>4
<1> QED BY <1>1, <1>2

\* The next model, or the next round, of a sound execution is sound.
LEMMA NextModelIsSound ==
  ASSUME cfg \in Configs, NEW x, Sound(cfg, x), x.gateway > 0, x.pc = "asking"
  PROVE  Live(cfg, NextModel(x))
<1>0. Has(x)
  BY DEF Sound, Basics
<1>1. CASE Gateway(x) = "openrouter"
  <2>1. AtOpenRouter(cfg, x)
    BY <1>1 DEF AtOpenRouter, Gateway
  <2>2. x.at \in DOMAIN x.cands /\ Len(x.cands) \in Nat /\ DOMAIN x.cands = 1..Len(x.cands)
    BY <2>1 DEF Sound, Budget
  <2>3. x.at + 1 \in Nat \ {0}
    BY <2>2
  <2>4. Rests(x, AskFrom(x, x.at + 1)) \/ Asks(x, AskFrom(x, x.at + 1))
    BY <1>0, <2>2, <2>3, AskFromAsks
  <2>5. NextModel(x) = AskFrom(x, x.at + 1)
    BY <1>1 DEF NextModel
  <2> QED BY <2>1, <2>4, <2>5, RestsIsSound, AsksIsSound
<1>2. CASE Gateway(x) # "openrouter"
  <2>1. ~AtOpenRouter(cfg, x)
    BY <1>2 DEF AtOpenRouter, Gateway
  <2>2. CASE x.at < Len(x.cands)
    <3>1. NextModel(x) = [x EXCEPT !.pc = "asking", !.at = @ + 1, !.attempt = 1]
      BY <1>2, <2>2 DEF NextModel
    <3>2. AsksRouter(x, NextModel(x))
      BY <1>0, <3>1 DEF Has, AsksRouter, Kept
    <3> QED BY <2>1, <3>2, RouterIsSound
  <2>3. CASE ~(x.at < Len(x.cands))
    <3>1. NextModel(x) = RouterGivesUp(x)
      BY <1>2, <2>3 DEF NextModel
    <3> QED BY <1>0, <3>1, GivesUpRests, RestsIsSound
  <2> QED BY <2>2, <2>3
<1> QED BY <1>1, <1>2

LEMMA NextRoundIsSound ==
  ASSUME cfg \in Configs, NEW x, Sound(cfg, x), x.gateway > 0
  PROVE  Live(cfg, NextRound(x))
<1>0. Has(x)
  BY DEF Sound, Basics
<1>1. CASE x.round >= MaxToolRounds
  <2>1. Rests(x, NextRound(x))
    BY <1>0, <1>1, EndedRests, AllFailedRests DEF NextRound
  <2> QED BY <2>1, RestsIsSound
<1>2. CASE ~(x.round >= MaxToolRounds) /\ Gateway(x) = "openrouter"
  <2>1. AtOpenRouter(cfg, x)
    BY <1>2 DEF AtOpenRouter, Gateway
  <2>2. Len(x.cands) \in Nat /\ DOMAIN x.cands = 1..Len(x.cands)
    BY <2>1 DEF Sound, Budget
  <2>3. Rests(x, AskFrom(x, 1)) \/ Asks(x, AskFrom(x, 1))
    BY <1>0, <2>2, AskFromAsks
  <2>4. NextRound(x) = AskFrom(x, 1)
    BY <1>2 DEF NextRound
  <2> QED BY <2>1, <2>3, <2>4, RestsIsSound, AsksIsSound
<1>3. CASE ~(x.round >= MaxToolRounds) /\ Gateway(x) # "openrouter"
  <2>1. ~AtOpenRouter(cfg, x)
    BY <1>3 DEF AtOpenRouter, Gateway
  <2>2. NextRound(x) = [x EXCEPT !.pc = "asking", !.cands = RouterCandidates(x), !.at = 1, !.attempt = 1, !.lastErr = NoErr]
    BY <1>3 DEF NextRound
  <2>3. AsksRouter(x, NextRound(x))
    BY <1>0, <2>2 DEF Has, AsksRouter, Kept
  <2> QED BY <2>1, <2>3, RouterIsSound
<1> QED BY <1>1, <1>2, <1>3

-----------------------------------------------------------------------------
(* A gateway begins *)

\* A gateway begins where none has run a tool, and at most one of them is OpenRouter's.
LEMMA FreshIsSound ==
  ASSUME cfg \in Configs, NEW e, NEW g \in 1..Len(cfg.gateways), Sound(cfg, ex[e]),
         g = ex[e].gateway + 1, ex[e].touched = {}
  PROVE  LET x == Fresh(ex[e], e, g)
         IN  /\ Basics(cfg, x) /\ Touch(cfg, x) /\ Talk(cfg, x)
             /\ x.gateway = g /\ x.task = ex[e].task
             /\ x.cost = 0 /\ x.paidAttempts = 0 /\ x.paidRequests \in Nat
             /\ cfg.gateways[g] = "openrouter" => x.paidRequests = 0
             /\ NoOpenRouter(cfg, x) => x.paidRequests = 0
<1> DEFINE x == Fresh(ex[e], e, g)
<1>1. /\ Has(x) /\ x.gateway = g /\ x.task = ex[e].task /\ x.calls = 0 /\ x.pc = "idle" /\ x.messages = <<>>
      /\ x.touched = ex[e].touched /\ x.paidRequests = ex[e].paidRequests /\ x.faithful = ex[e].faithful
      /\ x.cost = 0 /\ x.paidAttempts = 0
  BY DEF Fresh, IdleExec, Has
<1> HIDE DEF x
<1>2. ex[e].task \in Tasks /\ ex[e].paidRequests \in Nat /\ (~cfg.stream => ex[e].faithful)
      /\ (NoOpenRouter(cfg, ex[e]) => ex[e].paidRequests = 0) /\ ex[e].gateway \in Nat
  BY DEF Sound, Basics, Talk, Budget
<1>3. Basics(cfg, x) /\ Touch(cfg, x)
  BY <1>1, <1>2, ConfigAssumption DEF Basics, Touch
<1>4. Talk(cfg, x)
  <2>1. <<>> \in Seq(Turns) /\ DOMAIN <<>> = {}
    OBVIOUS
  <2> QED BY <1>1, <1>2, <2>1 DEF Talk
<1>5. NoOpenRouter(cfg, x) => NoOpenRouter(cfg, ex[e])
  BY <1>1, <1>2 DEF NoOpenRouter
<1>6. cfg.gateways[g] = "openrouter" => NoOpenRouter(cfg, ex[e])
  BY <1>2, ConfigAssumption DEF NoOpenRouter
<1> QED BY <1>1, <1>2, <1>3, <1>4, <1>5, <1>6 DEF x

LEMMA NotAllowedIsSound ==
  ASSUME cfg \in Configs, NEW x, Basics(cfg, x), Touch(cfg, x), Talk(cfg, x), x.gateway > 0, x.cost = 0, x.paidAttempts = 0,
         x.paidRequests \in Nat, AtOpenRouter(cfg, x) => x.paidRequests = 0, NoOpenRouter(cfg, x) => x.paidRequests = 0
  PROVE  Live(cfg, NotAllowed(x))
<1> DEFINE w == [x EXCEPT !.cands = <<>>]
<1>1. Has(w) /\ Kept(x, w) /\ w.pc = x.pc /\ w.batch = x.batch /\ w.results = x.results /\ w.wanted = x.wanted
      /\ w.cands = <<>> /\ w.cost = 0 /\ w.paidAttempts = 0 /\ w.paidRequests = x.paidRequests
  BY DEF Basics, Has, Kept
<1>2. NotAllowed(x) = Ended(w, "FAILED", "MODEL_NOT_ALLOWED_BY_FREE_ONLY_POLICY", 0)
  BY DEF NotAllowed
<1> HIDE DEF w
<1> DEFINE y == NotAllowed(x)
<1>3. Rests(w, y)
  BY <1>1, <1>2, EndedRests
<1> HIDE DEF y
<1>4. Basics(cfg, y) /\ Touch(cfg, y) /\ Talk(cfg, y)
  BY <1>1, <1>3 DEF Basics, Touch, Talk, Rests, Kept
<1>5. <<>> = y.cands /\ Len(<<>>) = 0 /\ DOMAIN <<>> = 1..0
  BY <1>1, <1>3 DEF Rests, SameBudget
<1>6. y.cost = 0 /\ y.paidAttempts = 0 /\ y.paidRequests = x.paidRequests /\ y.gateway = x.gateway /\ y.pc \notin {"idle", "asking"}
  BY <1>1, <1>3 DEF Rests, Kept, SameBudget
<1>7. Budget(cfg, y)
  BY <1>5, <1>6, ConfigAssumption, DearestAnswer DEF Budget, AtOpenRouter, NoOpenRouter
<1> QED BY <1>4, <1>6, <1>7 DEF Sound, Live, y

LEMMA RouterBeginsSoundly ==
  ASSUME cfg \in Configs, NEW e \in Execs, NEW g \in 1..Len(cfg.gateways), Sound(cfg, ex[e]),
         g = ex[e].gateway + 1, ex[e].touched = {}, RouterBegins(e, g)
  PROVE  \E y : ex' = [ex EXCEPT ![e] = y] /\ Live(cfg, y)
<1> DEFINE x == Fresh(ex[e], e, g)
<1>1. PICK queue : ex' = [ex EXCEPT ![e] = IF (cfg.model # NoModel /\ ~IsFreeModel(cfg.model)) \/ queue = <<>>
                                           THEN NotAllowed(x) ELSE NextRound([x EXCEPT !.queue = queue])]
  BY DEF RouterBegins
<1>2. cfg.gateways[g] = "9router"
  BY DEF RouterBegins
<1>3. /\ Basics(cfg, x) /\ Touch(cfg, x) /\ Talk(cfg, x) /\ x.gateway = g
      /\ x.cost = 0 /\ x.paidAttempts = 0 /\ x.paidRequests \in Nat
      /\ NoOpenRouter(cfg, x) => x.paidRequests = 0
  BY FreshIsSound
<1> HIDE DEF x
<1>4. ~AtOpenRouter(cfg, x) /\ x.gateway > 0
  BY <1>2, <1>3, ConfigAssumption DEF AtOpenRouter
<1>5. Live(cfg, NotAllowed(x))
  BY <1>3, <1>4, NotAllowedIsSound
<1> DEFINE w == [x EXCEPT !.queue = queue]
<1>6. /\ Has(w) /\ Kept(x, w) /\ w.pc = x.pc /\ w.batch = x.batch /\ w.results = x.results /\ w.wanted = x.wanted
      /\ w.cost = 0 /\ w.paidAttempts = 0 /\ w.paidRequests = x.paidRequests
  BY <1>3 DEF Basics, Has, Kept
<1> HIDE DEF w
<1>7. Sound(cfg, w)
  BY <1>3, <1>4, <1>6 DEF Sound, Basics, Touch, Talk, Budget, Kept, AtOpenRouter, NoOpenRouter
<1>8. Live(cfg, NextRound(w))
  BY <1>4, <1>6, <1>7, NextRoundIsSound DEF Kept
<1> QED BY <1>1, <1>5, <1>8 DEF w

LEMMA OpenRouterBeginsSoundly ==
  ASSUME cfg \in Configs, NEW e \in Execs, NEW g \in 1..Len(cfg.gateways), Sound(cfg, ex[e]),
         g = ex[e].gateway + 1, ex[e].touched = {}, OpenRouterBegins(e, g)
  PROVE  \E y : ex' = [ex EXCEPT ![e] = y] /\ Live(cfg, y)
<1> DEFINE x == Fresh(ex[e], e, g)
           resolved == ResolveCandidateModels(Policy(ex[e]), cfg)
           allowed == AllowedCandidates(Policy(x), resolved)
           names == [i \in 1..Len(resolved) |-> resolved[i].model]
           w == [x EXCEPT !.queue = names, !.cands = allowed]
<1>1. ex' = [ex EXCEPT ![e] = IF (cfg.orModel # NoModel /\ ~IsFreeModel(cfg.orModel)) \/ allowed = <<>>
                              THEN NotAllowed(x) ELSE AskFrom(w, 1)]
  BY DEF OpenRouterBegins
<1>2. cfg.gateways[g] = "openrouter"
  BY DEF OpenRouterBegins
<1>3. /\ Basics(cfg, x) /\ Touch(cfg, x) /\ Talk(cfg, x) /\ x.gateway = g /\ x.task = ex[e].task
      /\ x.cost = 0 /\ x.paidAttempts = 0 /\ x.paidRequests = 0
  BY <1>2, FreshIsSound
<1>4. Len(allowed) \in Nat /\ DOMAIN allowed = 1..Len(allowed)
  <2>1. ex[e].task \in Tasks /\ Policy(x) = BuildRoutingPolicy(cfg, ex[e].task)
        /\ Policy(ex[e]) = BuildRoutingPolicy(cfg, ex[e].task)
    BY <1>3 DEF Sound, Basics, Policy
  <2> QED BY <2>1, ConfigAssumption
<1> HIDE DEF x, allowed, names
<1>5. Live(cfg, NotAllowed(x))
  BY <1>3, NotAllowedIsSound
<1>6. /\ Has(w) /\ Kept(x, w) /\ w.pc = x.pc /\ w.batch = x.batch /\ w.results = x.results /\ w.wanted = x.wanted
      /\ w.cost = 0 /\ w.paidAttempts = 0 /\ w.paidRequests = 0 /\ w.cands = allowed
  BY <1>3 DEF Basics, Has, Kept
<1> HIDE DEF w
<1>7. AtOpenRouter(cfg, w)
  BY <1>2, <1>3, <1>6, ConfigAssumption DEF AtOpenRouter, Kept
<1>8. x.pc # "asking"
  BY DEF x, Fresh, IdleExec
<1>9. Sound(cfg, w)
  <2>1. Basics(cfg, w) /\ Touch(cfg, w) /\ Talk(cfg, w)
    BY <1>3, <1>6 DEF Basics, Touch, Talk, Kept
  <2>2. Budget(cfg, w)
    BY <1>4, <1>6, <1>8, ConfigAssumption, DearestAnswer DEF Budget
  <2> QED BY <2>1, <2>2 DEF Sound
<1>10. Rests(w, AskFrom(w, 1)) \/ Asks(w, AskFrom(w, 1))
  BY <1>4, <1>6, AskFromAsks
<1>11. Live(cfg, AskFrom(w, 1))
  BY <1>7, <1>9, <1>10, RestsIsSound, AsksIsSound DEF AtOpenRouter
<1> QED BY <1>1, <1>5, <1>11

-----------------------------------------------------------------------------
(* The steps *)

Executions == ex \in [Execs -> {ex[e] : e \in Execs}] /\ \A e \in Execs : Sound(cfg, ex[e]) /\ (ex[e].pc = "idle" => ex[e].gateway = 0)

Resting ==
  \A m \in DOMAIN health :
    /\ DOMAIN health[m] = {"state", "fails", "timeouts", "until", "quota"}
    /\ health[m].state = "COOLDOWN" => health[m].until \in 1..now + Max({Rest, QuotaRest})

Inv == cfg \in Configs /\ now \in Nat \ {0} /\ Executions /\ Resting

\* One execution changes, and remains sound.
Changes(e) == \E y : ex' = [ex EXCEPT ![e] = y] /\ Live(cfg, y)

LEMMA OneChanges ==
  ASSUME Executions, NEW e \in Execs, Changes(e), cfg' = cfg
  PROVE  Executions'
<1>1. PICK y : ex' = [ex EXCEPT ![e] = y] /\ Live(cfg, y)
  BY DEF Changes
<1>2. DOMAIN ex' = Execs /\ \A d \in Execs : ex'[d] = IF d = e THEN y ELSE ex[d]
  BY <1>1 DEF Executions
<1>3. ex' = [d \in Execs |-> IF d = e THEN y ELSE ex[d]]
  BY <1>1 DEF Executions
<1>4. ex' \in [Execs -> {ex'[d] : d \in Execs}]
  BY <1>2, <1>3
<1>5. \A d \in Execs : Sound(cfg, ex'[d]) /\ (ex'[d].pc = "idle" => ex'[d].gateway = 0)
  BY <1>1, <1>2 DEF Executions, Live
<1> QED BY <1>4, <1>5 DEF Executions

LEMMA BeginChanges == ASSUME Inv, NEW e \in Execs, Begin(e) PROVE Changes(e)
<1>1. ex[e].pc = "idle" /\ Sound(cfg, ex[e])
  BY DEF Begin, Inv, Executions
<1>2. 1 \in 1..Len(cfg.gateways)
  BY ConfigAssumption DEF Inv
<1>3. RouterBegins(e, 1) \/ OpenRouterBegins(e, 1)
  BY DEF Begin
<1>4. ex[e].gateway = 0 /\ ex[e].touched = {}
  BY <1>1 DEF Sound, Basics, Inv, Executions
<1> QED BY <1>1, <1>2, <1>3, <1>4, RouterBeginsSoundly, OpenRouterBeginsSoundly DEF Changes, Inv

\* The executions that a request's outcome concerns.
LEMMA AskingIs ==
  ASSUME Inv, NEW e \in Execs, NEW gateway, Asking(e, gateway)
  PROVE  /\ Sound(cfg, ex[e]) /\ Has(ex[e]) /\ ex[e].pc = "asking" /\ ex[e].gateway > 0
         /\ Gateway(ex[e]) = gateway /\ cfg.gateways[ex[e].gateway] = gateway
BY DEF Inv, Executions, Asking, Gateway, Sound, Basics

\* A retry changes nothing that counts.
LEMMA RetryIsSound ==
  ASSUME Inv, NEW e \in Execs, ex[e].pc = "asking", ex' = [ex EXCEPT ![e].attempt = @ + 1]
  PROVE  Changes(e)
<1> DEFINE y == [ex[e] EXCEPT !.attempt = @ + 1]
<1>1. ex' = [ex EXCEPT ![e] = y]
  BY DEF Inv, Executions
<1>2. Live(cfg, y)
  <2>1. Sound(cfg, ex[e]) /\ Has(ex[e])
    BY DEF Inv, Executions, Sound, Basics
  <2>2. /\ Kept(ex[e], y) /\ SameBudget(ex[e], y) /\ y.pc = "asking" /\ y.at = ex[e].at
    BY <2>1 DEF Has, Kept, SameBudget
  <2> HIDE DEF y
  <2>3. Basics(cfg, y) /\ Touch(cfg, y) /\ Talk(cfg, y)
    BY <2>1, <2>2 DEF Sound, Basics, Touch, Talk, Kept
  <2>4. Budget(cfg, y)
    BY <2>1, <2>2 DEF Sound, Budget, Kept, SameBudget, NoOpenRouter, AtOpenRouter, FallbackOnly
  <2> QED BY <2>2, <2>3, <2>4 DEF Sound, Live
<1> QED BY <1>1, <1>2 DEF Changes

\* The execution ends, or goes on to the next model, after a note on the failure.
LEMMA NotedIsSound ==
  ASSUME cfg \in Configs, NEW x, Sound(cfg, x), x.gateway > 0, x.pc = "asking", NEW f
  PROVE  Live(cfg, NextModel([x EXCEPT !.lastErr = f]))
<1> DEFINE w == [x EXCEPT !.lastErr = f]
<1>1. Has(x)
  BY DEF Sound, Basics
<1>2. Kept(x, w) /\ SameBudget(x, w) /\ w.pc = "asking" /\ w.at = x.at
  BY <1>1 DEF Has, Kept, SameBudget
<1> HIDE DEF w
<1>3. Basics(cfg, w) /\ Touch(cfg, w) /\ Talk(cfg, w)
  BY <1>2 DEF Sound, Basics, Touch, Talk, Kept
<1>4. Budget(cfg, w)
  BY <1>2 DEF Sound, Budget, Kept, SameBudget, NoOpenRouter, AtOpenRouter, FallbackOnly
<1>5. Live(cfg, NextModel(w))
  BY <1>2, <1>3, <1>4, NextModelIsSound DEF Sound, Kept
<1> QED BY <1>5 DEF w

LEMMA EndedIsSound ==
  ASSUME NEW x, Sound(cfg, x), x.gateway > 0, NEW status, NEW code, NEW http
  PROVE  Live(cfg, Ended(x, status, code, http))
BY EndedRests, RestsIsSound DEF Sound, Basics

LEMMA RouterFailureChanges ==
  ASSUME Inv, NEW e \in Execs, NEW f, RouterHttpFails(e, f) \/ RouterThrows(e, f)
  PROVE  Changes(e)
<1>1. /\ Sound(cfg, ex[e]) /\ ex[e].pc = "asking" /\ ex[e].gateway > 0 /\ cfg \in Configs
  BY AskingIs DEF RouterHttpFails, RouterThrows, Inv
<1>2. \/ ex' = [ex EXCEPT ![e] = NextModel([ex[e] EXCEPT !.lastErr = f])]
      \/ ex' = [ex EXCEPT ![e].attempt = @ + 1]
      \/ ex' = [ex EXCEPT ![e] = Ended(ex[e], "ROUTER_TIMEOUT", "ROUTER_TIMEOUT", 0)]
  BY DEF RouterHttpFails, RouterThrows
<1> QED BY <1>1, <1>2, NotedIsSound, EndedIsSound, RetryIsSound DEF Changes

LEMMA OpenRouterFailureChanges ==
  ASSUME Inv, NEW e \in Execs,
         \/ OpenRouterThrows(e)
         \/ \E f : OpenRouterHttpFails(e, f) \/ OpenRouterRejects(e, f)
         \/ \E code : OpenRouterUnreadable(e, code)
  PROVE  Changes(e)
<1>1. /\ Sound(cfg, ex[e]) /\ ex[e].pc = "asking" /\ ex[e].gateway > 0 /\ cfg \in Configs
  BY AskingIs DEF OpenRouterThrows, OpenRouterHttpFails, OpenRouterRejects, OpenRouterUnreadable, Inv
<1> DEFINE retried == [ex[e] EXCEPT !.attempt = @ + 1]
<1>2. \/ ex' = [ex EXCEPT ![e] = NextModel(ex[e])]
      \/ ex' = [ex EXCEPT ![e] = retried]
      \/ \E status, code, http : ex' = [ex EXCEPT ![e] = Ended(ex[e], status, code, http)]
  BY DEF OpenRouterThrows, OpenRouterHttpFails, OpenRouterRejects, OpenRouterUnreadable
<1>3. CASE ex' = [ex EXCEPT ![e] = retried]
  <2>1. ex' = [ex EXCEPT ![e].attempt = @ + 1]
    BY <1>3 DEF Inv, Executions
  <2> QED BY <1>1, <2>1, RetryIsSound
<1>4. CASE ex' = [ex EXCEPT ![e] = NextModel(ex[e])]
  BY <1>1, <1>4, NextModelIsSound DEF Changes
<1>5. ASSUME NEW status, NEW code, NEW http, ex' = [ex EXCEPT ![e] = Ended(ex[e], status, code, http)]
      PROVE  Changes(e)
  BY <1>1, <1>5, EndedIsSound DEF Changes
<1> QED BY <1>2, <1>3, <1>4, <1>5

-----------------------------------------------------------------------------
(* Answers *)

\* What a gateway receives is a list of calls; without a stream it is what was sent.
LEMMA ReceivedIs ==
  ASSUME Inv, NEW sent \in cfg.callLists, NEW r \in Received(sent)
  PROVE  r.calls \in Seq(Seq(Nat)) /\ (~cfg.stream => r.calls = sent)
<1>1. CASE cfg.stream
  <2>1. sent \in DOMAIN Streamed
    BY DEF Streamed, Inv
  <2>2. r \in Streamed[sent]
    BY <1>1 DEF Received
  <2> QED BY <1>1, <2>1, <2>2, StreamAssumption
<1>2. CASE ~cfg.stream
  <2>1. r = [calls |-> sent, broken |-> FALSE]
    BY <1>2 DEF Received
  <2>2. sent \in Seq(Seq(Nat))
    BY ConfigAssumption DEF Inv
  <2> QED BY <2>1, <2>2
<1> QED BY <1>1, <1>2

\* An answer that costs c is accounted for.
LEMMA AnsweredIsSound ==
  ASSUME Inv, NEW sent \in cfg.callLists, NEW r \in Received(sent), NEW used, NEW x, Sound(cfg, x), x.gateway > 0,
         NEW z, Kept(x, z), z.pc = x.pc,
         z.queue = x.queue, z.cands = x.cands, z.paidAttempts = x.paidAttempts, z.paidRequests = x.paidRequests,
         z.cost \in Nat, AtOpenRouter(cfg, x) => z.cost < cfg.maxCost + Max(Costs)
  PROVE  Live(cfg, Answered(z, used, r, sent))
<1> DEFINE act == IF Gateway(z) = "9router" THEN used ELSE z.active
           y == [z EXCEPT !.used = used, !.active = IF Gateway(z) = "9router" THEN used ELSE @]
           tools == [y EXCEPT !.pc = "tools", !.batch = r.calls, !.wanted = Len(r.calls), !.results = 0,
                              !.faithful = @ /\ (~r.broken => r.calls = sent)]
<1>0. Has(z) /\ Has(x)
  BY DEF Kept, Sound, Basics
<1>1. r.calls \in Seq(Seq(Nat)) /\ (~cfg.stream => r.calls = sent)
  BY ReceivedIs
<1>2. Kept(x, y) /\ y.pc = x.pc /\ y.queue = x.queue /\ y.cands = x.cands /\ y.cost = z.cost
      /\ y.paidAttempts = x.paidAttempts /\ y.paidRequests = x.paidRequests
  BY <1>0 DEF Has, Kept
<1>3. Answered(z, used, r, sent) = IF r.calls = <<>> THEN Ended(y, "COMPLETED", "none", 0) ELSE tools
  BY DEF Answered
<1> HIDE DEF y
<1>4. ASSUME NEW w, Has(w), w.pc \in {"ended", "tools"},
             w.task = x.task, w.gateway = x.gateway, w.calls = x.calls, w.touched = x.touched, w.messages = x.messages,
             w.queue = x.queue, w.cands = x.cands, w.cost = z.cost,
             w.paidAttempts = x.paidAttempts, w.paidRequests = x.paidRequests,
             w.pc = "tools" => w.batch = r.calls /\ w.results = 0 /\ w.wanted = Len(r.calls),
             ~cfg.stream => w.faithful
      PROVE  Live(cfg, w)
  <2>1. Basics(cfg, w) /\ Touch(cfg, w)
    BY <1>4 DEF Sound, Basics, Touch
  <2>2. Talk(cfg, w)
    BY <1>1, <1>4 DEF Sound, Talk
  <2>3. Budget(cfg, w)
    BY <1>4 DEF Sound, Budget, NoOpenRouter, AtOpenRouter, FallbackOnly
  <2> QED BY <1>4, <2>1, <2>2, <2>3 DEF Sound, Live
<1>5. ~cfg.stream => y.faithful
  BY <1>2 DEF Kept, Sound, Talk
<1>6. CASE r.calls = <<>>
  <2> DEFINE w == Ended(y, "COMPLETED", "none", 0)
  <2>1. Rests(y, w) /\ w.pc = "ended"
    BY <1>2, EndedRests DEF Kept, Ended, Has
  <2> HIDE DEF w
  <2>2. Live(cfg, w)
    BY <1>2, <1>4, <1>5, <2>1 DEF Rests, Kept, SameBudget
  <2> QED BY <1>3, <1>6, <2>2 DEF w
<1>7. CASE r.calls # <<>>
  <2>1. /\ Has(tools) /\ tools.pc = "tools"
        /\ tools.task = y.task /\ tools.gateway = y.gateway /\ tools.calls = y.calls /\ tools.touched = y.touched
        /\ tools.messages = y.messages /\ tools.queue = y.queue /\ tools.cands = y.cands /\ tools.cost = y.cost
        /\ tools.paidAttempts = y.paidAttempts /\ tools.paidRequests = y.paidRequests
        /\ tools.batch = r.calls /\ tools.results = 0 /\ tools.wanted = Len(r.calls)
    BY <1>2 DEF Kept, Has
  <2>2. ~cfg.stream => tools.faithful
    BY <1>1, <1>2, <1>5 DEF Kept, Has
  <2> HIDE DEF tools
  <2>3. Live(cfg, tools)
    BY <1>2, <1>4, <2>1, <2>2 DEF Kept
  <2> QED BY <1>3, <1>7, <2>3
<1> QED BY <1>6, <1>7

LEMMA RouterAnswerChanges ==
  ASSUME Inv, NEW e \in Execs, NEW sent \in cfg.callLists, RouterAnswers(e, sent)
  PROVE  Changes(e)
<1>1. /\ Sound(cfg, ex[e]) /\ Has(ex[e]) /\ ex[e].gateway > 0
  BY AskingIs DEF RouterAnswers
<1>2. PICK r \in Received(sent), used \in ReportedNames(ex[e]) : ex' = [ex EXCEPT ![e] = Answered(ex[e], used, r, sent)]
  BY DEF RouterAnswers
<1>3. Live(cfg, Answered(ex[e], used, r, sent))
  BY <1>1, AnsweredIsSound DEF Kept, Sound, Budget
<1> QED BY <1>2, <1>3 DEF Changes

LEMMA OpenRouterAnswerChanges ==
  ASSUME Inv, NEW e \in Execs, NEW sent \in cfg.callLists, OpenRouterAnswers(e, sent)
  PROVE  Changes(e)
<1> DEFINE x == ex[e]
<1>1. Sound(cfg, x) /\ Has(x) /\ x.pc = "asking" /\ x.gateway > 0 /\ cfg.gateways[x.gateway] = "openrouter"
  BY AskingIs DEF OpenRouterAnswers
<1>2. PICK r \in Received(sent), used \in ReportedNames(x), cost \in (IF Current(x).free THEN {0} ELSE Costs) :
        ex' = [ex EXCEPT ![e] = Answered([x EXCEPT !.cost = @ + cost], used, r, sent)]
  BY Zenon DEF OpenRouterAnswers
<1> HIDE DEF x
<1> DEFINE z == [x EXCEPT !.cost = @ + cost]
<1>3. AtOpenRouter(cfg, x) /\ x.cost \in Nat /\ x.cost < cfg.maxCost + Max(Costs)
      /\ (Current(x).free \/ x.cost < cfg.maxCost)
  BY <1>1 DEF AtOpenRouter, Sound, Budget, Current
<1>4. cost \in Nat /\ cost <= Max(Costs) /\ (Current(x).free => cost = 0)
  BY DearestAnswer
<1>5. Kept(x, z) /\ z.pc = x.pc /\ z.queue = x.queue /\ z.cands = x.cands
      /\ z.paidAttempts = x.paidAttempts /\ z.paidRequests = x.paidRequests /\ z.cost = x.cost + cost
  BY <1>1 DEF Has, Kept
<1>6. z.cost \in Nat /\ z.cost < cfg.maxCost + Max(Costs)
  <2>1. cfg.maxCost \in Nat /\ Max(Costs) \in Nat
    BY ConfigAssumption, DearestAnswer DEF Inv
  <2> QED BY <1>3, <1>4, <1>5, <2>1
<1> HIDE DEF z
<1>7. Live(cfg, Answered(z, used, r, sent))
  BY <1>1, <1>5, <1>6, AnsweredIsSound
<1> QED BY <1>2, <1>7 DEF Changes, x, z

-----------------------------------------------------------------------------
(* Tools *)

\* The results of a whole batch enter the conversation.
LEMMA PushedIsSound ==
  ASSUME NEW c, NEW x, Sound(c, x), x.pc = "tools", x.batch = <<>>
  PROVE  Sound(c, PushResults(x)) /\ PushResults(x).gateway = x.gateway
<1> DEFINE turn == [calls |-> x.wanted, results |-> x.results]
           y == PushResults(x)
<1>1. Has(x) /\ x.messages \in Seq(Turns) /\ x.results \in Nat /\ x.wanted = x.results
  BY DEF Sound, Basics, Talk
<1>2. turn \in Turns /\ turn.calls = turn.results
  BY <1>1 DEF Turns
<1> HIDE DEF turn
<1>3. /\ Has(y) /\ SameBudget(x, y) /\ y.pc = "tools" /\ y.batch = x.batch /\ y.results = x.results /\ y.wanted = x.wanted
      /\ y.task = x.task /\ y.gateway = x.gateway /\ y.calls = x.calls /\ y.touched = x.touched /\ y.faithful = x.faithful
      /\ y.messages = Append(x.messages, turn)
  BY <1>1 DEF PushResults, Has, SameBudget, turn
<1> HIDE DEF y
<1>4. Append(x.messages, turn) \in Seq(Turns)
      /\ \A i \in DOMAIN Append(x.messages, turn) : Append(x.messages, turn)[i].calls = Append(x.messages, turn)[i].results
  BY <1>1, <1>2 DEF Sound, Talk
<1>5. Basics(c, y) /\ Touch(c, y)
  BY <1>3 DEF Sound, Basics, Touch
<1>6. Talk(c, y)
  BY <1>3, <1>4 DEF Sound, Talk
<1>7. Budget(c, y)
  BY <1>3 DEF Sound, Budget, SameBudget, NoOpenRouter, AtOpenRouter, FallbackOnly
<1> QED BY <1>3, <1>5, <1>6, <1>7 DEF Sound, y

\* One call of the batch gets its result, and its tool may have run.
LEMMA CalledIsSound ==
  ASSUME NEW c, NEW x, Sound(c, x), x.pc = "tools", x.batch # <<>>,
         NEW y, Has(y), SameBudget(x, y), y.pc = "tools",
         y.task = x.task, y.gateway = x.gateway, y.faithful = x.faithful, y.messages = x.messages, y.wanted = x.wanted,
         y.calls = x.calls + 1, y.results = x.results + 1, y.batch = Tail(x.batch),
         y.touched \subseteq x.touched \cup {c.gateways[x.gateway]}
  PROVE  Live(c, y)
<1>1. x.calls \in Nat /\ x.batch \in Seq(Seq(Nat)) /\ x.results \in Nat /\ x.wanted = x.results + Len(x.batch)
  BY DEF Sound, Basics, Talk
<1>2. Tail(x.batch) \in Seq(Seq(Nat)) /\ Len(Tail(x.batch)) = Len(x.batch) - 1 /\ Len(x.batch) \in Nat
  BY <1>1
<1>3. Basics(c, y)
  BY <1>1 DEF Sound, Basics
<1>6. Touch(c, y)
  <2>1. x.touched \subseteq {c.gateways[x.gateway]}
    BY DEF Sound, Touch
  <2>2. y.touched \subseteq {c.gateways[y.gateway]}
    BY <2>1
  <2>3. y.calls > 0
    BY <1>1
  <2> QED BY <2>2, <2>3 DEF Touch
<1>4. Talk(c, y)
  <2>1. y.wanted = y.results + Len(y.batch)
    BY <1>1, <1>2
  <2> QED BY <1>1, <1>2, <2>1 DEF Sound, Talk
<1>5. Budget(c, y)
  BY DEF Sound, Budget, SameBudget, NoOpenRouter, AtOpenRouter, FallbackOnly
<1> QED BY <1>3, <1>4, <1>5, <1>6 DEF Sound, Live

LEMMA ToolStepChanges ==
  ASSUME Inv, NEW e \in Execs, ToolStep(e)
  PROVE  Changes(e)
<1> DEFINE x == ex[e]
           args == Head(x.batch)
           counted == [WithResult(x, args) EXCEPT !.calls = @ + 1, !.batch = Tail(@)]
           ran(writes) == [counted EXCEPT !.changed = @ \/ writes, !.touched = @ \cup {Gateway(x)}]
<1>1. Sound(cfg, x) /\ Has(x) /\ x.pc = "tools" /\ x.gateway > 0 /\ cfg \in Configs
  <2>1. x.pc = "tools"
    BY DEF ToolStep
  <2>2. Sound(cfg, x) /\ cfg \in Configs
    BY DEF Inv, Executions
  <2> QED BY <2>1, <2>2 DEF Sound, Basics
<1>2. \/ x.batch = <<>> /\ ex' = [ex EXCEPT ![e] = NextRound(PushResults(x))]
      \/ \E status : ex' = [ex EXCEPT ![e] = Ended(x, status, status, 0)]
      \/ /\ x.batch # <<>>
         /\ \E writes : ex' = [ex EXCEPT ![e] = IF Parses(args) THEN ran(writes) ELSE counted]
  BY DEF ToolStep
<1>3. CASE x.batch = <<>> /\ ex' = [ex EXCEPT ![e] = NextRound(PushResults(x))]
  BY <1>1, <1>3, PushedIsSound, NextRoundIsSound DEF Changes
<1>4. ASSUME NEW status, ex' = [ex EXCEPT ![e] = Ended(x, status, status, 0)]
      PROVE  Changes(e)
  BY <1>1, <1>4, EndedIsSound DEF Changes
<1>5. ASSUME NEW writes, x.batch # <<>>, ex' = [ex EXCEPT ![e] = IF Parses(args) THEN ran(writes) ELSE counted]
      PROVE  Changes(e)
  <2>1. /\ Has(counted) /\ SameBudget(x, counted) /\ counted.pc = "tools"
        /\ counted.task = x.task /\ counted.gateway = x.gateway /\ counted.faithful = x.faithful
        /\ counted.messages = x.messages /\ counted.wanted = x.wanted
        /\ counted.calls = x.calls + 1 /\ counted.results = x.results + 1 /\ counted.batch = Tail(x.batch)
        /\ counted.touched = x.touched
    BY <1>1 DEF Has, SameBudget, WithResult
  <2> HIDE DEF counted
  <2>2. /\ Has(ran(writes)) /\ SameBudget(counted, ran(writes)) /\ ran(writes).pc = "tools"
        /\ ran(writes).task = counted.task /\ ran(writes).gateway = counted.gateway
        /\ ran(writes).faithful = counted.faithful
        /\ ran(writes).messages = counted.messages /\ ran(writes).wanted = counted.wanted
        /\ ran(writes).calls = counted.calls /\ ran(writes).results = counted.results
        /\ ran(writes).batch = counted.batch
        /\ ran(writes).touched = counted.touched \cup {cfg.gateways[x.gateway]}
    BY <2>1 DEF Has, SameBudget, Gateway
  <2> HIDE DEF ran, x
  <2>3. Live(cfg, counted)
    BY <1>1, <1>5, <2>1, CalledIsSound
  <2>4. Live(cfg, ran(writes))
    BY <1>1, <1>5, <2>1, <2>2, CalledIsSound DEF SameBudget
  <2> QED BY <1>5, <2>3, <2>4 DEF Changes
<1> QED BY <1>2, <1>3, <1>4, <1>5

-----------------------------------------------------------------------------
(* The decision between the gateways, and the surroundings *)

LEMMA FinishChanges ==
  ASSUME Inv, NEW e \in Execs, NEW x, Sound(cfg, x), x.gateway > 0, Finish(e, x)
  PROVE  Changes(e)
<1>1. Rests(x, Done(x))
  BY DEF Sound, Basics, Has, Rests, Kept, SameBudget, Done
<1> QED BY <1>1, RestsIsSound DEF Finish, Changes

LEMMA GatewayDecidesChanges ==
  ASSUME Inv, NEW e \in Execs, GatewayDecides(e)
  PROVE  Changes(e)
<1> DEFINE x == ex[e]
           partial == [x EXCEPT !.result.status = "FAILED", !.result.code = "PARTIAL_EXECUTION_REQUIRES_REVIEW"]
<1>1. x.pc = "ended"
  BY DEF GatewayDecides
<1>2. Sound(cfg, x) /\ Has(x) /\ x.gateway > 0 /\ cfg \in Configs
  BY <1>1 DEF Inv, Executions, Sound, Basics
<1>3. \/ Finish(e, x)
      \/ Finish(e, partial)
      \/ /\ x.gateway # Len(cfg.gateways) /\ ~HasMutableEffects(x)
         /\ RouterBegins(e, x.gateway + 1) \/ OpenRouterBegins(e, x.gateway + 1)
  BY DEF GatewayDecides
<1>4. CASE Finish(e, x)
  BY <1>2, <1>4, FinishChanges
<1>5. CASE Finish(e, partial)
  <2>1. Rests(x, partial)
    BY <1>1, <1>2 DEF Has, Rests, Kept, SameBudget
  <2> HIDE DEF partial
  <2>2. Sound(cfg, partial) /\ partial.gateway > 0
    BY <1>2, <2>1, RestsIsSound DEF Live, Rests, Kept
  <2> QED BY <1>5, <2>2, FinishChanges
<1>6. CASE /\ x.gateway # Len(cfg.gateways) /\ ~HasMutableEffects(x)
           /\ RouterBegins(e, x.gateway + 1) \/ OpenRouterBegins(e, x.gateway + 1)
  <2>1. x.gateway + 1 \in 1..Len(cfg.gateways)
    BY <1>2, <1>6, ConfigAssumption DEF Sound, Basics
  <2>2. x.touched = {}
    BY <1>2, <1>6 DEF Sound, Touch, HasMutableEffects
  <2> QED BY <1>2, <1>6, <2>1, <2>2, RouterBeginsSoundly, OpenRouterBeginsSoundly DEF Changes
<1> QED BY <1>3, <1>4, <1>5, <1>6

\* The abort is noted.
LEMMA AbortChanges ==
  ASSUME Inv, NEW e \in Execs, Running(e), ex' = [ex EXCEPT ![e].aborted = TRUE]
  PROVE  Changes(e)
<1> DEFINE x == ex[e]
           y == [x EXCEPT !.aborted = TRUE]
<1>1. ex' = [ex EXCEPT ![e] = y]
  BY DEF Inv, Executions
<1>2. Sound(cfg, x) /\ Has(x) /\ x.pc # "idle"
  BY DEF Inv, Executions, Sound, Basics, Running
<1>3. /\ Kept(x, y) /\ SameBudget(x, y) /\ y.pc = x.pc /\ y.at = x.at
      /\ y.batch = x.batch /\ y.results = x.results /\ y.wanted = x.wanted
  BY <1>2 DEF Has, Kept, SameBudget
<1> HIDE DEF y, x
<1>4. Basics(cfg, y) /\ Touch(cfg, y) /\ Talk(cfg, y)
  BY <1>2, <1>3 DEF Sound, Basics, Touch, Talk, Kept
<1>5. Budget(cfg, y)
  BY <1>2, <1>3 DEF Sound, Budget, Kept, SameBudget, NoOpenRouter, AtOpenRouter, FallbackOnly
<1> QED BY <1>1, <1>2, <1>3, <1>4, <1>5 DEF Sound, Live, Changes

-----------------------------------------------------------------------------
(* The health of the models *)

Longest == Max({Rest, QuotaRest})

\* A record of the tracker that is no rest without end at the time t.
RestsTill(rec, t) ==
  /\ DOMAIN rec = {"state", "fails", "timeouts", "until", "quota"}
  /\ rec.state = "COOLDOWN" => rec.until \in 1..t + Longest

LEMMA NewRecordIsFine == \A t : RestsTill(NewRecord, t)
BY DEF RestsTill, NewRecord

LEMMA ObservedIsFine ==
  ASSUME NEW rec, NEW t \in Nat, RestsTill(rec, t)
  PROVE  RestsTill(Observed(rec, t), t)
BY DEF RestsTill, Observed

LEMMA OneMoreIsFine ==
  ASSUME NEW rec, NEW t, RestsTill(rec, t)
  PROVE  RestsTill(OneMoreFailure(rec), t)
BY DEF RestsTill, OneMoreFailure

LEMMA CoolDownIsFine ==
  ASSUME NEW rec, NEW t \in Nat \ {0}, RestsTill(rec, t), NEW rest \in {Rest, ShortRest, QuotaRest}
  PROVE  RestsTill(CoolDown(rec, t + rest), t)
<1>1. t + rest \in 1..t + Longest
  BY LongestRest, LimitsAssumption DEF Longest
<1> QED BY <1>1 DEF RestsTill, CoolDown

LEMMA QuotaIsFine ==
  ASSUME NEW rec, NEW t \in Nat \ {0}, RestsTill(rec, t)
  PROVE  RestsTill(RecordQuotaExhaustion(rec, t), t)
<1>1. t + QuotaRest \in 1..t + Longest
  BY LongestRest, LimitsAssumption DEF Longest
<1>2. RestsTill(OneMoreFailure(rec), t)
  BY OneMoreIsFine
<1> QED BY <1>1, <1>2 DEF RestsTill, RecordQuotaExhaustion

LEMMA FailureIsFine ==
  ASSUME NEW rec, NEW kind, NEW f, NEW t \in Nat \ {0}, RestsTill(rec, t)
  PROVE  RestsTill(RecordFailure(rec, kind, f, t), t)
<1> DEFINE r == OneMoreFailure(rec)
           late == [r EXCEPT !.timeouts = Min({@ + 1, TimeoutThreshold})]
<1>1. RestsTill(r, t)
  BY OneMoreIsFine
<1> HIDE DEF r
<1>2. RestsTill(late, t)
  BY <1>1 DEF RestsTill
<1> HIDE DEF late
<1>3. ASSUME NEW q, RestsTill(q, t)
      PROVE  /\ RestsTill([q EXCEPT !.state = "DISABLED"], t)
             /\ RestsTill(Degrade(q), t)
             /\ RestsTill([q EXCEPT !.quota = "EXHAUSTED"], t)
  BY <1>3 DEF RestsTill, Degrade
<1>4. /\ RestsTill(CoolDown(r, t + Rest), t) /\ RestsTill(CoolDown(late, t + Rest), t)
      /\ RestsTill(CoolDown(r, t + ShortRest), t)
  BY <1>1, <1>2, CoolDownIsFine
<1>5. RestsTill([CoolDown(r, t + Rest) EXCEPT !.quota = "EXHAUSTED"], t)
  BY <1>3, <1>4
<1>6. \/ RecordFailure(rec, kind, f, t) \in
           {[r EXCEPT !.state = "DISABLED"], [CoolDown(r, t + Rest) EXCEPT !.quota = "EXHAUSTED"],
            CoolDown(late, t + Rest), Degrade(late), CoolDown(r, t + Rest), Degrade(r), CoolDown(r, t + ShortRest)}
  BY DEF RecordFailure, r, late
<1> QED BY <1>1, <1>2, <1>3, <1>4, <1>5, <1>6

\* How a step may change the tracker.
HealthStep ==
  \/ UNCHANGED health
  \/ \E m : \E rec : RestsTill(rec, now) /\ health' = Tracked(m, rec)
  \/ \E pool : health' = [m \in DOMAIN health |-> IF m \in pool THEN Observed(health[m], now) ELSE health[m]]

LEMMA HealthStepRests ==
  ASSUME Inv, HealthStep, UNCHANGED now
  PROVE  Resting'
<1>1. \A m \in DOMAIN health : RestsTill(health[m], now)
  BY DEF Inv, Resting, RestsTill, Longest
<1>2. SUFFICES \A m \in DOMAIN health' : RestsTill(health'[m], now)
  BY DEF Resting, RestsTill, Longest
<1>3. CASE UNCHANGED health
  BY <1>1, <1>3
<1>4. ASSUME NEW d, NEW rec, RestsTill(rec, now), health' = Tracked(d, rec)
      PROVE  \A m \in DOMAIN health' : RestsTill(health'[m], now)
  BY <1>1, <1>4 DEF Tracked
<1>5. ASSUME NEW pool,
             health' = [m \in DOMAIN health |-> IF m \in pool THEN Observed(health[m], now) ELSE health[m]]
      PROVE  \A m \in DOMAIN health' : RestsTill(health'[m], now)
  <2>1. now \in Nat
    BY DEF Inv
  <2> QED BY <1>1, <1>5, <2>1, ObservedIsFine
<1> QED BY <1>3, <1>4, <1>5 DEF HealthStep

LEMMA RecordsAreFine ==
  ASSUME Inv, NEW m, NEW rec, rec = (IF m \in DOMAIN health THEN health[m] ELSE NewRecord)
  PROVE  RestsTill(rec, now) /\ now \in Nat \ {0}
BY NewRecordIsFine DEF Inv, Resting, RestsTill, Longest

LEMMA RouterFailureHealth ==
  ASSUME Inv, NEW e \in Execs, NEW f, RouterHttpFails(e, f) \/ RouterThrows(e, f)
  PROVE  HealthStep /\ UNCHANGED now
<1> DEFINE m == Current(ex[e]).model
           rec == IF m \in DOMAIN health THEN health[m] ELSE NewRecord
<1>1. RestsTill(rec, now) /\ now \in Nat \ {0}
  BY RecordsAreFine
<1>2. RestsTill(RecordQuotaExhaustion(rec, now), now) /\ RestsTill(RecordFailure(rec, ClassifyFailure(f), f, now), now)
  BY <1>1, QuotaIsFine, FailureIsFine
<1>3. \/ UNCHANGED health
      \/ health' = Tracked(m, RecordQuotaExhaustion(rec, now))
      \/ health' = Tracked(m, RecordFailure(rec, ClassifyFailure(f), f, now))
  BY DEF RouterHttpFails, RouterThrows
<1>4. UNCHANGED now
  BY DEF RouterHttpFails, RouterThrows
<1> HIDE DEF m, rec
<1> QED BY <1>2, <1>3, <1>4 DEF HealthStep

LEMMA BeginsHealth ==
  ASSUME NEW e, NEW g, RouterBegins(e, g) \/ OpenRouterBegins(e, g)
  PROVE  HealthStep
<1>1. CASE RouterBegins(e, g)
  <2>1. health' = [m \in DOMAIN health |-> IF m \in ResolutionPool(cfg.model) THEN Observed(health[m], now) ELSE health[m]]
    BY <1>1 DEF RouterBegins
  <2> QED BY <2>1 DEF HealthStep
<1>2. CASE OpenRouterBegins(e, g)
  BY <1>2 DEF OpenRouterBegins, HealthStep
<1> QED BY <1>1, <1>2

-----------------------------------------------------------------------------
(* The invariant *)

LEMMA InitIsFine == Init => Inv
<1> SUFFICES ASSUME Init PROVE Inv
  OBVIOUS
<1>1. cfg \in Configs /\ now \in Nat \ {0} /\ cfg.maxCost \in Nat
  BY ConfigAssumption DEF Init
<1>2. ex \in [Execs -> {ex[e] : e \in Execs}]
  BY DEF Init
<1>3. ASSUME NEW e \in Execs
      PROVE  Sound(cfg, ex[e]) /\ (ex[e].pc = "idle" => ex[e].gateway = 0)
  <2>1. PICK t \in Tasks : ex[e] = IdleExec(t)
    BY DEF Init
  <2> DEFINE x == ex[e]
  <2>2. /\ Has(x) /\ x.pc = "idle" /\ x.task \in Tasks /\ x.gateway = 0 /\ x.calls = 0 /\ x.touched = {}
        /\ x.messages = <<>> /\ x.faithful = TRUE
        /\ x.paidAttempts = 0 /\ x.paidRequests = 0 /\ x.cost = 0
    BY <2>1 DEF IdleExec, Has
  <2> HIDE DEF x
  <2>3. Len(cfg.gateways) \in Nat \ {0}
    BY <1>1, ConfigAssumption
  <2>4. Basics(cfg, x) /\ Touch(cfg, x)
    BY <2>2, <2>3 DEF Basics, Touch
  <2>5. <<>> \in Seq(Turns) /\ DOMAIN <<>> = {}
    OBVIOUS
  <2>6. Talk(cfg, x)
    BY <2>2, <2>5 DEF Talk
  <2>7. Budget(cfg, x)
    BY <2>2 DEF Budget, AtOpenRouter
  <2> QED BY <2>2, <2>4, <2>6, <2>7 DEF Sound, x
<1>4. Resting
  BY NewRecordIsFine DEF Init, Resting, RestsTill, Longest
<1> QED BY <1>1, <1>2, <1>3, <1>4 DEF Inv, Executions

LEMMA StepKeeps ==
  ASSUME Inv, NEW e \in Execs, Changes(e), HealthStep, UNCHANGED <<cfg, now>>
  PROVE  Inv'
<1>1. Executions'
  BY OneChanges DEF Inv
<1>2. Resting'
  BY HealthStepRests
<1> QED BY <1>1, <1>2 DEF Inv

LEMMA CancelKeeps == ASSUME Inv, NEW e \in Execs, Cancel(e) PROVE Inv'
<1>1. UNCHANGED <<cfg, now, health>>
  BY DEF Cancel
<1>2. CASE Running(e)
  <2>1. ex' = [ex EXCEPT ![e].aborted = TRUE]
    BY <1>2 DEF Cancel
  <2> QED BY <1>1, <1>2, <2>1, AbortChanges, StepKeeps DEF HealthStep
<1>3. CASE ~Running(e)
  <2>1. ex' = ex
    BY <1>3 DEF Cancel
  <2> QED BY <1>1, <2>1 DEF Inv, Executions, Resting
<1> QED BY <1>2, <1>3

LEMMA TickKeeps == ASSUME Inv, Tick PROVE Inv'
<1>1. now' = now + 1 /\ UNCHANGED <<cfg, health, ex>> /\ now \in Nat \ {0}
  BY DEF Tick, Inv
<1>2. Executions'
  BY <1>1 DEF Inv, Executions
<1>3. Resting'
  BY <1>1, LongestRest DEF Inv, Resting
<1> QED BY <1>1, <1>2, <1>3 DEF Inv

LEMMA NextKeeps == Inv /\ [Next]_vars => Inv'
<1> SUFFICES ASSUME Inv, [Next]_vars PROVE Inv'
  OBVIOUS
<1>1. CASE UNCHANGED vars
  BY <1>1 DEF vars, Inv, Executions, Resting
<1>2. ASSUME NEW e \in Execs, Begin(e) PROVE Inv'
  <2>1. UNCHANGED <<cfg, now>> /\ (RouterBegins(e, 1) \/ OpenRouterBegins(e, 1))
    BY <1>2 DEF Begin
  <2> QED BY <1>2, <2>1, BeginChanges, BeginsHealth, StepKeeps
<1>3. ASSUME NEW e \in Execs, ToolStep(e) PROVE Inv'
  <2>1. UNCHANGED <<cfg, now>> /\ HealthStep
    BY <1>3 DEF ToolStep, HealthStep
  <2> QED BY <1>3, <2>1, ToolStepChanges, StepKeeps
<1>4. ASSUME NEW e \in Execs, GatewayDecides(e) PROVE Inv'
  <2>1. UNCHANGED <<cfg, now>>
    BY <1>4 DEF GatewayDecides
  <2>2. \/ UNCHANGED health
        \/ RouterBegins(e, ex[e].gateway + 1) \/ OpenRouterBegins(e, ex[e].gateway + 1)
    BY <1>4 DEF GatewayDecides, Finish
  <2>3. HealthStep
    BY <2>2, BeginsHealth DEF HealthStep
  <2> QED BY <1>4, <2>1, <2>3, GatewayDecidesChanges, StepKeeps
<1>5. ASSUME NEW e \in Execs, Timeout(e) PROVE Inv'
  <2>1. UNCHANGED <<cfg, now>> /\ HealthStep /\ Running(e) /\ ex' = [ex EXCEPT ![e].aborted = TRUE]
    BY <1>5 DEF Timeout, TimerFires, HealthStep
  <2> QED BY <2>1, AbortChanges, StepKeeps
<1>6. ASSUME NEW e \in Execs, NEW f, RouterHttpFails(e, f) \/ RouterThrows(e, f) PROVE Inv'
  <2>1. UNCHANGED <<cfg, now>>
    BY <1>6 DEF RouterHttpFails, RouterThrows
  <2> QED BY <1>6, <2>1, RouterFailureHealth, RouterFailureChanges, StepKeeps
<1>7. ASSUME NEW e \in Execs,
             \/ OpenRouterThrows(e)
             \/ \E f : OpenRouterHttpFails(e, f) \/ OpenRouterRejects(e, f)
             \/ \E code : OpenRouterUnreadable(e, code)
      PROVE  Inv'
  <2>1. UNCHANGED <<cfg, now, health>>
    BY <1>7 DEF OpenRouterThrows, OpenRouterHttpFails, OpenRouterRejects, OpenRouterUnreadable
  <2> QED BY <1>7, <2>1, OpenRouterFailureChanges, StepKeeps DEF HealthStep
<1>8. ASSUME NEW e \in Execs, NEW sent \in cfg.callLists, RouterAnswers(e, sent) PROVE Inv'
  <2>1. UNCHANGED <<cfg, now>>
    BY <1>8 DEF RouterAnswers
  <2>2. HealthStep
    <3>1. RestsTill(RecordSuccess(NewRecord), now)
      BY NewRecordIsFine DEF RecordSuccess
    <3> QED BY <1>8, <3>1 DEF RouterAnswers, HealthStep
  <2> QED BY <1>8, <2>1, <2>2, RouterAnswerChanges, StepKeeps
<1>9. ASSUME NEW e \in Execs, NEW sent \in cfg.callLists, OpenRouterAnswers(e, sent) PROVE Inv'
  <2>1. UNCHANGED <<cfg, now, health>>
    BY <1>9 DEF OpenRouterAnswers
  <2> QED BY <1>9, <2>1, OpenRouterAnswerChanges, StepKeeps DEF HealthStep
<1>10. CASE Tick
  BY <1>10, TickKeeps
<1>11. ASSUME NEW e \in Execs, Cancel(e) PROVE Inv'
  BY <1>11, CancelKeeps
<1> QED BY <1>1, <1>2, <1>3, <1>4, <1>5, <1>6, <1>7, <1>8, <1>9, <1>10, <1>11 DEF Next

\* What every execution keeps to, at any moment and whatever the others do.
THEOREM Invariance == Spec => []Inv
BY InitIsFine, NextKeeps, PTL DEF Spec

\* Two gateways never work on one workspace: the second begins only where the first has run no tool.
THEOREM OneGateway == Spec => []OneGatewayPerWorkspace
<1>1. Inv => OneGatewayPerWorkspace
  <2> SUFFICES ASSUME Inv, NEW e \in Execs PROVE Cardinality(ex[e].touched) <= 1
    BY DEF OneGatewayPerWorkspace
  <2> DEFINE g == cfg.gateways[ex[e].gateway]
  <2>1. ex[e].touched \subseteq {g}
    BY DEF Inv, Executions, Sound, Touch
  <2> HIDE DEF g
  <2>2. IsFiniteSet({g}) /\ Cardinality({g}) = 1
    BY FS_Singleton
  <2>3. Cardinality(ex[e].touched) <= Cardinality({g})
    BY <2>1, <2>2, FS_Subset
  <2> QED BY <2>2, <2>3
<1> QED BY <1>1, Invariance, PTL

\* Over all rounds, retries and gateways, the paid fallbacks asked are as many as the tier allows at most, and
\* the costs stay within the budget and one answer.
THEOREM PaidIsBounded == Spec => []PaidRequestsBounded
<1>1. Inv => PaidRequestsBounded
  <2> SUFFICES ASSUME Inv, NEW e \in Execs, ex[e].gateway > 0, Gateway(ex[e]) = "openrouter"
               PROVE  /\ (\A i \in DOMAIN ex[e].cands : ex[e].cands[i].free \/ ex[e].cands[i].model # ex[e].queue[1])
                           => ex[e].paidRequests <= cfg.maxPaidAttempts
                      /\ ex[e].cost < cfg.maxCost + Max(Costs)
    BY DEF PaidRequestsBounded
  <2>1. Budget(cfg, ex[e]) /\ AtOpenRouter(cfg, ex[e])
    BY DEF Inv, Executions, Sound, AtOpenRouter, Gateway
  <2> QED BY <2>1 DEF Budget, FallbackOnly
<1> QED BY <1>1, Invariance, PTL

\* Whatever executions record on each other's models, no rest is longer than the longest cooldown.
THEOREM EveryRestEnds == Spec => []CooldownsEnd
<1>1. Inv => CooldownsEnd
  BY DEF Inv, Resting, CooldownsEnd
<1> QED BY <1>1, Invariance, PTL

\* Every request carries a result for each call, streamed or not.
THEOREM CallsAreAnswered == Spec => []EveryCallHasItsResult
<1>1. Inv => EveryCallHasItsResult
  BY DEF Inv, Executions, Sound, Talk, EveryCallHasItsResult
<1> QED BY <1>1, Invariance, PTL

\* Where answers are not streamed, the conversations are those the models sent.
THEOREM UnstreamedIsWellFormed == Spec => [](~cfg.stream => ConversationWellFormed)
<1>1. Inv => (~cfg.stream => ConversationWellFormed)
  BY DEF Inv, Executions, Sound, Talk, ConversationWellFormed, EveryCallHasItsResult
<1> QED BY <1>1, Invariance, PTL
=============================================================================
