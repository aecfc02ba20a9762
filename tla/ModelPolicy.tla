----------------------------- MODULE ModelPolicy -----------------------------
(***************************************************************************)
(* Which models a task may be sent to, and in which order: the registry of *)
(* free models, the health and quota tracker with its circuit breaker, the *)
(* resolution of the 9router queue, the tiers of the OpenRouter policy,    *)
(* the guard of the paid fallback, and the report on past attempts from    *)
(* which the first tier may be reordered.                                  *)
(*                                                                         *)
(* A model is a name.  Prices, scores and windows are what the tables of   *)
(* the instance say; times are in units of thirty seconds.                 *)
(***************************************************************************)
EXTENDS Integers, Sequences, FiniteSets, SequencesExt, FiniteSetsExt, Functions

CONSTANTS Registry,      \* the verified catalogues: model -> entry
          Capabilities,  \* the capability registry of the routing engine: model -> entry
          BestFreeProven,\* BEST_FREE_PROVEN
          FreePool,      \* 'openrouter/free'
          Profiles,      \* routing profiles
          Rest,          \* the cooldown after a failure, 60 s
          QuotaRest      \* the cooldown after an exhausted daily quota, 3600 s

NoModel == "none"
ShortRest == (Rest + 1) \div 2

-----------------------------------------------------------------------------
(* Failures of a request.  A failure is the HTTP status (0 when there is    *)
(* none), what its text mentions, and whether the connection broke.         *)

ClassifyFailure(f) ==
  CASE f.text = "protocol"        -> "TOOL_PROTOCOL_FAILURE"
    [] f.http \in {401, 403}      -> "AUTH_FAILURE"
    [] f.http = 429               -> "RATE_LIMIT"
    [] f.text \in {"timeout", "abort"} -> "TIMEOUT"
    [] f.http \in {404, 503}      -> "MODEL_UNAVAILABLE"
    [] f.http >= 500              -> "HTTP_5XX"
    [] f.text = "context" \/ f.http = 413 -> "CONTEXT_LIMIT"
    [] f.http = 400               -> "INVALID_REQUEST"
    [] f.conn                     -> "TIMEOUT"
    [] OTHER                      -> "UNKNOWN"

\* classifyApiError for a 400: another provider may accept what this one does not understand.
ShouldFallback(f, toolMessages) == f.text = "toolschema" \/ (toolMessages /\ f.text = "nvidia")

-----------------------------------------------------------------------------
(* The health record of a model, shared by every execution of the process. *)

FailureThreshold == 3   \* no decision tells more consecutive failures apart
TimeoutThreshold == 2

NewRecord == [state |-> "HEALTHY", fails |-> 0, timeouts |-> 0, until |-> 0, quota |-> "AVAILABLE"]

HealthRecords(times) ==
  [state : {"HEALTHY", "DEGRADED", "COOLDOWN", "DISABLED"}, fails : 0..FailureThreshold,
   timeouts : 0..TimeoutThreshold, until : times, quota : {"AVAILABLE", "EXHAUSTED"}]

Expired(rec, now) == rec.state = "COOLDOWN" /\ rec.until > 0 /\ now >= rec.until

\* getState writes what it finds: a cooldown that is over ends when somebody looks.
Observed(rec, now) ==
  IF Expired(rec, now) THEN [rec EXCEPT !.state = "HEALTHY", !.until = 0, !.quota = "AVAILABLE"] ELSE rec

IsAvailable(rec, now) == Observed(rec, now).state \in {"HEALTHY", "DEGRADED"}

QuotaExhausted(rec, now) == Observed(rec, now).quota = "EXHAUSTED"

RecordSuccess(rec) == NewRecord

OneMoreFailure(rec) == [rec EXCEPT !.fails = Min({@ + 1, FailureThreshold})]

RecordQuotaExhaustion(rec, now) ==
  [OneMoreFailure(rec) EXCEPT !.state = "COOLDOWN", !.quota = "EXHAUSTED", !.until = now + QuotaRest]

CoolDown(rec, until) == [rec EXCEPT !.state = "COOLDOWN", !.until = until]
Degrade(rec) == [rec EXCEPT !.state = "DEGRADED"]

RecordFailure(rec, kind, f, now) ==
  LET r == OneMoreFailure(rec)
      t == [r EXCEPT !.timeouts = Min({@ + 1, TimeoutThreshold})]
  IN CASE kind = "AUTH_FAILURE" -> [r EXCEPT !.state = "DISABLED"]
       [] kind = "RATE_LIMIT"   -> [CoolDown(r, now + Rest) EXCEPT !.quota = "EXHAUSTED"]
       [] kind = "TIMEOUT"      -> IF t.timeouts >= 2 THEN CoolDown(t, now + Rest) ELSE Degrade(t)
       [] kind = "HTTP_5XX"     -> IF r.fails >= 2 THEN CoolDown(r, now + Rest) ELSE Degrade(r)
       [] kind = "MODEL_UNAVAILABLE" -> IF f.text = "404" THEN [r EXCEPT !.state = "DISABLED"]
                                                          ELSE CoolDown(r, now + Rest)
       [] kind = "TOOL_PROTOCOL_FAILURE" -> Degrade(r)
       [] OTHER -> IF r.fails >= 3 THEN CoolDown(r, now + ShortRest) ELSE Degrade(r)

-----------------------------------------------------------------------------
(* The 9router queue.                                                      *)

IsFreeModel(m) == m \in DOMAIN Registry /\ Registry[m].price = "VERIFIED_FREE"

\* getRegisteredModels
RegisteredModels(provider) == {m \in DOMAIN Registry : Registry[m].provider = provider}

IsCapable(m) ==
  LET r == Registry[m] IN r.enabled /\ r.tools /\ r.coding /\ r.window

\* rankCandidateModels: exhausted quotas last, then tier priority, then the scores.
RanksBefore(a, b, exhausted) ==
  LET x == Registry[a]
      y == Registry[b]
  IN IF (a \in exhausted) # (b \in exhausted) THEN b \in exhausted
     ELSE IF x.priority # y.priority THEN x.priority < y.priority
     ELSE IF x.score # y.score THEN x.score > y.score
     ELSE x.order < y.order

\* The models whose records a resolution reads.
ResolutionPool(override) ==
  IF override = NoModel THEN RegisteredModels("9router") ELSE {override} \cap DOMAIN Registry

\* Stages 2 to 4: free, capable, and not held back by the circuit breaker.
HealthyCandidates(override, health, now) ==
  {m \in ResolutionPool(override) : IsFreeModel(m) /\ IsCapable(m) /\ IsAvailable(health[m], now)}

\* Stages 6 and 7: emergency models only when they are allowed or nothing else is left.
ResolveModelQueue(override, health, now, allowEmergency) ==
  LET healthy == HealthyCandidates(override, health, now)
      ranked == SetToSortSeq(healthy, LAMBDA a, b :
                  RanksBefore(a, b, {m \in healthy : QuotaExhausted(health[m], now)}))
      Emergency(m) == Registry[m].emergency
      active == SelectSeq(ranked, LAMBDA m : ~Emergency(m))
  IN IF allowEmergency \/ active = <<>> THEN active \o SelectSeq(ranked, Emergency) ELSE active

FreeOnly(queue) == SelectSeq(queue, IsFreeModel)

\* loadRouterConfig and the queue RouterProvider.execute makes of it.
RouterQueue(cfg, health, now) ==
  LET resolved == ResolveModelQueue(cfg.model, health, now, cfg.emergency)
      first == IF resolved = <<>> THEN BestFreeProven ELSE Head(resolved)
      primary == IF cfg.model # NoModel /\ IsFreeModel(cfg.model) THEN cfg.model ELSE first
      rest == IF resolved = <<>> THEN <<>> ELSE Tail(resolved)
      fallbacks == FreeOnly(IF cfg.fallbacks # <<>> THEN cfg.fallbacks ELSE rest)
      raw == IF fallbacks # <<>> THEN <<primary>> \o fallbacks
             ELSE IF resolved # <<>> THEN resolved ELSE <<primary>>
  IN FreeOnly(raw)

-----------------------------------------------------------------------------
(* The OpenRouter policy: curated free models, the free pool, paid models. *)

\* filterCapableModels: a model the registry does not know is taken as it is.
CapableFor(m, profile) ==
  \/ m = FreePool
  \/ m \notin DOMAIN Capabilities
  \/ LET c == Capabilities[m] IN
       c.enabled /\ c.tools /\ c.window /\ ({profile, "general"} \cap c.profiles # {})

\* classifyTaskProfile: an explicit profile, or what the words of the task suggest.
ClassifyTaskProfile(task) ==
  CASE task.profile # "none"    -> task.profile
    [] "reasoning" \in task.words -> "reasoning"
    [] "coding" \in task.words    -> "coding"
    [] OTHER                      -> "general"

\* buildRoutingPolicy
BuildRoutingPolicy(cfg, task) ==
  [profile |-> ClassifyTaskProfile(task),
   tier1 |-> cfg.tier1[ClassifyTaskProfile(task)],
   pool |-> cfg.pool,
   tier3 |-> IF cfg.paid = "on" \/ (cfg.key /\ cfg.paid # "off") THEN cfg.paidModels ELSE <<>>,
   maxPaidAttempts |-> cfg.maxPaidAttempts, maxCost |-> cfg.maxCost]

Candidate(m, free) == [model |-> m, free |-> free]

\* An explicit model is honoured with the configured fallbacks and nothing else; its name says whether it is free.
ExplicitCandidates(cfg) ==
  LET named == <<cfg.orModel>> \o cfg.orFallbacks
  IN [i \in 1..Len(named) |-> Candidate(named[i], named[i] \in cfg.freeNames)]

\* resolveCandidateModels, which no caller gives a report: the calibration leaves the first tier as it is.
ResolveCandidateModels(policy, cfg) ==
  LET Capable(m) == CapableFor(m, policy.profile)
      tier1 == SelectSeq(policy.tier1, Capable)
      paid == SelectSeq(policy.tier3, Capable)
      paidCount == Min({Len(paid), policy.maxPaidAttempts})
  IN IF cfg.orModel \notin {NoModel, FreePool} THEN ExplicitCandidates(cfg)
     ELSE [i \in 1..Len(tier1) |-> Candidate(tier1[i], TRUE)]
          \o (IF policy.pool THEN <<Candidate(FreePool, TRUE)>> ELSE <<>>)
          \o [i \in 1..paidCount |-> Candidate(paid[i], FALSE)]

\* OpenRouterProvider.execute keeps verified free models, and paid ones when the policy has a paid tier.
AllowedCandidates(policy, candidates) ==
  SelectSeq(candidates, LAMBDA c : IsFreeModel(c.model) \/ (policy.tier3 # <<>> /\ ~c.free))

\* Mutant: the limit on paid attempts is off by one.
CanUsePaidFallback_OneMore(policy, used, cost) ==
  policy.tier3 # <<>> /\ used <= policy.maxPaidAttempts /\ cost <= policy.maxCost

CanUsePaidFallback(policy, used, cost) ==
  policy.tier3 # <<>> /\ used < policy.maxPaidAttempts /\ cost <= policy.maxCost

-----------------------------------------------------------------------------
(* The report on past attempts, and the calibration of the first tier.     *)

\* classifyRootError, over the error codes the providers give an attempt.
RootError(a) ==
  CASE a.http = 429                        -> "RATE_LIMIT"
    [] a.http \in {401, 403} \/ a.code = "AUTHENTICATION_FAILURE" -> "AUTH_FAILURE"
    [] a.code = "ROUTER_TIMEOUT"           -> "TIMEOUT"
    [] a.code \in {"TOOL_PROTOCOL_FAILURE", "TOOL_LOOP_LIMIT"} -> "TOOL_CALLING_FAILURE"
    [] a.code = "EMPTY_RESPONSE"           -> "EMPTY_RESPONSE"
    [] a.code = "INVALID_RESPONSE"         -> "INVALID_RESPONSE"
    [] a.http >= 500                       -> "SERVER_ERROR"
    [] OTHER                               -> "UNKNOWN"

SumOver(S, f(_)) == FoldSet(LAMBDA i, acc : acc + f(i), 0, S)

\* aggregateObservabilityMetrics for one model over the attempts numbered in A.
ModelMetrics(traces, A, m) ==
  LET own == {i \in A : traces[i].model = m}
      failed == {i \in own : traces[i].status # "COMPLETED"}
  IN [totalAttempts |-> Cardinality(own),
      completedAttempts |-> Cardinality(own \ failed),
      failedAttempts |-> Cardinality(failed),
      winCount |-> Cardinality({i \in own : traces[i].winner}),
      toolCalls |-> SumOver(own, LAMBDA i : traces[i].toolCalls),
      toolFailures |-> Cardinality({i \in failed : RootError(traces[i]) = "TOOL_CALLING_FAILURE"})]

GlobalMetrics(traces, m) == ModelMetrics(traces, DOMAIN traces, m)

\* The profile's own aggregation counts everything but the tool failures.
ProfileMetrics(traces, profile, m) ==
  [ModelMetrics(traces, {i \in DOMAIN traces : traces[i].profile = profile}, m) EXCEPT !.toolFailures = 0]

\* reorderTier1ModelsWithCalibration prefers the profile's metrics to the global ones.
CalibrationMetrics(traces, profile, m) ==
  LET own == ProfileMetrics(traces, profile, m)
  IN IF own.totalAttempts > 0 THEN own ELSE GlobalMetrics(traces, m)

\* calculateModelCalibrationScore in ten-thousandths (priorWeight 5, basePrior 0.5, no latency penalty).
CalibrationScore(k, minSamples) ==
  LET n == k.totalAttempts
      w == k.winCount
      weighted == (10000 * (7 * (2 * w + 5) * n + 6 * w * (n + 5)) * (6 * (n + minSamples) + 4 * n))
                    \div (20 * n * (n + 5) * 10 * (n + minSamples))
      tools == IF k.toolCalls = 0 THEN 0 ELSE (4000 * k.toolFailures) \div k.toolCalls
  IN Max({0, Min({10000, weighted - tools})})

\* A model without enough samples keeps the weight of its place in the static order.
EffectiveScore(traces, profile, tier1, i, minSamples) ==
  LET k == CalibrationMetrics(traces, profile, tier1[i])
  IN IF k.totalAttempts < minSamples THEN 5000 - 50 * (i - 1) ELSE CalibrationScore(k, minSamples)

\* Scores within one ten-thousandth are a tie, which the static order breaks.
ReorderTier1(tier1, traces, profile, minSamples) ==
  LET s(i) == EffectiveScore(traces, profile, tier1, i, minSamples)
      places == SetToSortSeq(1..Len(tier1), LAMBDA i, j : s(i) > s(j) + 1 \/ (s(i) - s(j) \in -1..1 /\ i < j))
  IN [p \in 1..Len(places) |-> tier1[places[p]]]
=============================================================================
