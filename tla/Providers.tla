------------------------------ MODULE Providers ------------------------------
(***************************************************************************)
(* Executions of tasks by the model gateways: RouterProvider with its      *)
(* queue and the process-wide health tracker, OpenRouterProvider with its  *)
(* tiers and paid budget, and DualGatewayProvider, which gives a task to a *)
(* second gateway when the first one has left no trace in the workspace.   *)
(*                                                                         *)
(* A request ends with an HTTP failure, a broken connection, an empty or   *)
(* unreadable body, or the calls the model wants made.  Streamed calls     *)
(* arrive in fragments and are put together by the assembler.  Waiting     *)
(* between retries is part of the request that follows it.                 *)
(***************************************************************************)
EXTENDS ModelPolicy

CONSTANTS Execs,        \* executions of the process
          Configs,      \* environments of the process: its variables, its load and what its servers may answer
          Tasks,        \* what is asked
          EchoNames,    \* names a server may report instead of the requested model
          Costs,        \* costs a paid answer may report, 0 when it reports none
          MaxRetries, MaxToolRounds, MaxToolCalls,
          MinSamples,   \* OPENROUTER_CALIBRATION_MIN_SAMPLES
          MaxTime       \* bound of the clock

ASSUME LimitsAssumption ==
  /\ MaxRetries \in Nat \ {0} /\ MaxToolRounds \in Nat \ {0} /\ MaxToolCalls \in Nat
  /\ Rest \in Nat \ {0} /\ QuotaRest \in Nat \ {0} /\ MaxTime \in Nat /\ MinSamples \in Nat \ {0}

\* There are one or two gateways of different kinds (createProvider), limits are natural numbers, and some
\* answer of a paid model reports what it cost.
ASSUME ConfigAssumption ==
  /\ \A c \in Configs :
       /\ Len(c.gateways) \in Nat \ {0}
       /\ \A i, j \in 1..Len(c.gateways) : c.gateways[i] = "openrouter" /\ c.gateways[j] = "openrouter" => i = j
       /\ c.maxPaidAttempts \in Nat /\ c.maxCost \in Nat /\ c.callLists \subseteq Seq(Seq(Nat))
       \* what it resolves to is a list
       /\ \A task \in Tasks :
            LET policy == BuildRoutingPolicy(c, task)
                allowed == AllowedCandidates(policy, ResolveCandidateModels(policy, c))
            IN  Len(allowed) \in Nat /\ DOMAIN allowed = 1..Len(allowed)
  /\ Costs \subseteq Nat /\ \E most \in Costs : most > 0 /\ \A c \in Costs : c <= most

VARIABLES
  cfg,      \* the environment of the process
  health,   \* ModelHealthTracker: model -> record
  now,      \* the clock
  cancelled,\* the callers' signals
  ex,       \* the executions
  traces    \* attempt traces of the finished ones

vars == <<cfg, health, now, cancelled, ex, traces>>

-----------------------------------------------------------------------------
(* Streams.  A call is sent in two fragments; those of different calls may *)
(* be interleaved, and the connection may break anywhere.                  *)

Fragments(calls) ==
  [i \in 1..Len(calls) |-> <<SubSeq(calls[i], 1, 1), SubSeq(calls[i], 2, Len(calls[i]))>>]

\* The orders in which a server may send the fragments of n calls.
Orders(n) == {o \in [1..2 * n -> 1..n] : \A i \in 1..n : Cardinality({k \in DOMAIN o : o[k] = i}) = 2}

StreamOf(calls, o) ==
  [k \in DOMAIN o |-> [index |-> o[k],
                       args |-> Fragments(calls)[o[k]][IF \E j \in 1..k - 1 : o[j] = o[k] THEN 2 ELSE 1]]]

\* ToolCallStreamAssembler.ingestDelta
IngestDelta(pending, d) ==
  IF d.index \in DOMAIN pending THEN [pending EXCEPT ![d.index] = @ \o d.args]
  ELSE pending @@ (d.index :> d.args)

\* assemble: the calls by index.
Assemble(pending) ==
  LET indices == SetToSortSeq(DOMAIN pending, <) IN [k \in 1..Len(indices) |-> pending[indices[k]]]

NoCalls == [i \in {} |-> <<>>]

\* parseOpenAISSEStream ends when the connection does, with or without [DONE].
ParseStream(deltas) == Assemble(FoldLeft(IngestDelta, NoCalls, deltas))

\* What a stream may yield for an answer with these calls, and whether it broke.
Streamed ==
  [calls \in UNION {c.callLists : c \in Configs} |->
     UNION {{[calls |-> ParseStream(SubSeq(StreamOf(calls, o), 1, k)), broken |-> k < Len(o)] : k \in 0..Len(o)}
              : o \in Orders(Len(calls))}]

\* However a stream ends, what is assembled is a list of calls.
ASSUME StreamAssumption == \A calls \in DOMAIN Streamed : \A r \in Streamed[calls] : r.calls \in Seq(Seq(Nat))

\* What a gateway may make of such an answer.
Received(calls) == IF cfg.stream THEN Streamed[calls] ELSE {[calls |-> calls, broken |-> FALSE]}

\* JSON.parse of the assembled arguments; nothing at all has become "{}".
Parses(args) == args \in {<<>>, <<1, 2>>}

-----------------------------------------------------------------------------
(* Executions.                                                             *)

NoErr == [http |-> 0, text |-> "none", conn |-> FALSE]
ConnectionError == [http |-> 0, text |-> "none", conn |-> TRUE]
AbortError == [http |-> 0, text |-> "abort", conn |-> TRUE]
NoResult == [status |-> "none", code |-> "none", http |-> 0, model |-> NoModel]

IdleExec(task) ==
  [pc |-> "idle", task |-> task, gateway |-> 0, queue |-> <<>>, cands |-> <<>>, at |-> 1, attempt |-> 1,
   round |-> 0, active |-> NoModel, used |-> NoModel, calls |-> 0, batch |-> <<>>, wanted |-> 0, results |-> 0,
   messages |-> <<>>, lastErr |-> NoErr, aborted |-> FALSE, changed |-> FALSE, paidAttempts |-> 0, cost |-> 0,
   result |-> NoResult,
   \* what the properties look at: gateways whose tools ran, paid requests, tools run for a whole stream as sent
   touched |-> {}, paidRequests |-> 0, faithful |-> TRUE]

Gateway(x) == cfg.gateways[x.gateway]
Current(x) == x.cands[x.at]
IsLastModel(x) == Current(x).model = Last(x.cands).model
Policy(x) == BuildRoutingPolicy(cfg, x.task)

Ended(x, status, code, http) ==
  [x EXCEPT !.pc = "ended", !.batch = <<>>,
            !.result = [status |-> status, code |-> code, http |-> http,
                        model |-> IF x.used # NoModel THEN x.used
                                  ELSE IF x.cands # <<>> /\ x.at <= Len(x.cands) THEN Current(x).model ELSE NoModel]]

AsCandidates(queue) == [i \in 1..Len(queue) |-> Candidate(queue[i], TRUE)]

\* The router asks the model that answered last first.
RouterCandidates(x) ==
  IF x.active = NoModel THEN AsCandidates(x.queue)
  ELSE AsCandidates(<<x.active>> \o SelectSeq(x.queue, LAMBDA m : m # x.active))

\* The router's answer when no model of the round has succeeded.
RouterGivesUp(x) ==
  LET f == x.lastErr
      kind == ClassifyFailure(f)
  IN CASE kind = "TOOL_PROTOCOL_FAILURE" -> Ended(x, "FAILED", "TOOL_PROTOCOL_FAILURE", f.http)
       [] kind # "TOOL_PROTOCOL_FAILURE" /\ f.http \in {401, 403} -> Ended(x, "FAILED", "AUTHENTICATION_FAILURE", f.http)
       [] kind # "TOOL_PROTOCOL_FAILURE" /\ f.http \notin {401, 403} /\ Len(x.queue) > 1
            -> Ended(x, "FAILED", "ALL_PROVIDERS_FAILED", f.http)
       [] OTHER -> IF f.conn THEN Ended(x, "ROUTER_CONNECTION_ERROR", "ROUTER_CONNECTION_ERROR", 0)
                             ELSE Ended(x, "ROUTER_HTTP_ERROR", "ROUTER_HTTP_ERROR", f.http)

\* The cost guard before an OpenRouter candidate is asked.
MayAsk(x, c) ==
  \/ c.free
  \/ LET p == Policy(x) IN
       /\ x.cost < p.maxCost
       /\ c.model # x.queue[1] => CanUsePaidFallback(p, x.paidAttempts, x.cost)

AllFailed(x) == Ended([x EXCEPT !.at = Len(x.cands) + 1], "FAILED", "ALL_PROVIDERS_FAILED", 0)

\* Candidates are tried in order from place i; the paid ones only as far as the guard allows.
AskFrom(x, i) ==
  LET allowed == {j \in i..Len(x.cands) : MayAsk(x, x.cands[j])}
  IN IF allowed = {} THEN AllFailed(x)
     ELSE LET j == Min(allowed)
              paid == IF x.cands[j].free THEN 0 ELSE 1
          IN [x EXCEPT !.pc = "asking", !.at = j, !.attempt = 1,
                       !.paidAttempts = @ + paid, !.paidRequests = @ + paid]

NextModel(x) ==
  IF Gateway(x) = "openrouter" THEN AskFrom(x, x.at + 1)
  ELSE IF x.at < Len(x.cands) THEN [x EXCEPT !.pc = "asking", !.at = @ + 1, !.attempt = 1]
  ELSE RouterGivesUp(x)

NextRound(x) ==
  IF x.round >= MaxToolRounds
  THEN IF Gateway(x) = "9router" THEN Ended(x, "TOOL_LOOP_LIMIT", "TOOL_LOOP_LIMIT", 0) ELSE AllFailed(x)
  ELSE IF Gateway(x) = "openrouter" THEN AskFrom(x, 1)
  ELSE [x EXCEPT !.pc = "asking", !.cands = RouterCandidates(x), !.at = 1, !.attempt = 1, !.lastErr = NoErr]

NotAllowed(x) == Ended([x EXCEPT !.cands = <<>>], "FAILED", "MODEL_NOT_ALLOWED_BY_FREE_ONLY_POLICY", 0)

-----------------------------------------------------------------------------
(* A gateway begins, with a controller and a timer of its own.             *)

Fresh(x, e, g) ==
  [IdleExec(x.task) EXCEPT !.gateway = g, !.aborted = cancelled[e], !.changed = x.changed,
                           !.touched = x.touched, !.paidRequests = x.paidRequests, !.faithful = x.faithful]

RouterBegins(e, g) ==
  \E x \in {Fresh(ex[e], e, g)}, queue \in {RouterQueue(cfg, health, now)} :
     /\ cfg.gateways[g] = "9router"
     /\ ex' = [ex EXCEPT ![e] = IF (cfg.model # NoModel /\ ~IsFreeModel(cfg.model)) \/ queue = <<>> THEN NotAllowed(x)
                                ELSE NextRound([x EXCEPT !.queue = queue])]
     /\ health' = [m \in DOMAIN health |-> IF m \in ResolutionPool(cfg.model) THEN Observed(health[m], now) ELSE health[m]]

OpenRouterBegins(e, g) ==
  \E x \in {Fresh(ex[e], e, g)}, resolved \in {ResolveCandidateModels(Policy(ex[e]), cfg)} :
     LET allowed == AllowedCandidates(Policy(x), resolved) IN
     /\ cfg.gateways[g] = "openrouter"
     /\ ex' = [ex EXCEPT ![e] =
          IF (cfg.orModel # NoModel /\ ~IsFreeModel(cfg.orModel)) \/ allowed = <<>> THEN NotAllowed(x)
          ELSE AskFrom([x EXCEPT !.queue = [i \in 1..Len(resolved) |-> resolved[i].model], !.cands = allowed], 1)]
     /\ UNCHANGED health

Begin(e) ==
  /\ ex[e].pc = "idle" /\ e \in cfg.execs
  /\ RouterBegins(e, 1) \/ OpenRouterBegins(e, 1)
  /\ UNCHANGED <<cfg, now, cancelled, traces>>

-----------------------------------------------------------------------------
(* Requests.                                                               *)

Asking(e, gateway) == ex[e].pc = "asking" /\ Gateway(ex[e]) = gateway

Tracked(m, rec) == IF m \in DOMAIN health THEN [health EXCEPT ![m] = rec] ELSE health

RouterHttpFails(e, f) ==
  LET x == ex[e]
      m == Current(x).model
      retries == x.attempt < MaxRetries
      rec == IF m \in DOMAIN health THEN health[m] ELSE NewRecord
      failed == NextModel([x EXCEPT !.lastErr = f])
  IN /\ Asking(e, "9router") /\ ~x.aborted
     /\ \/ /\ f.http = 429 /\ f.text = "daily"
           /\ health' = Tracked(m, RecordQuotaExhaustion(rec, now))
           /\ ex' = [ex EXCEPT ![e] = failed]
        \/ /\ (f.http = 429 /\ f.text # "daily") \/ f.http >= 500
           /\ retries
           /\ ex' = [ex EXCEPT ![e].attempt = @ + 1]
           /\ UNCHANGED health
        \/ /\ ~(f.http = 429 /\ f.text = "daily")
           /\ ~(retries /\ (f.http = 429 \/ f.http >= 500))
           /\ health' = Tracked(m, RecordFailure(rec, ClassifyFailure(f), f, now))
           /\ ex' = [ex EXCEPT ![e] = failed]
     /\ UNCHANGED <<cfg, now, cancelled, traces>>

\* fetch or the stream throws: a broken connection, or the abort.
RouterThrows(e, f) ==
  LET x == ex[e]
      m == Current(x).model
      rec == IF m \in DOMAIN health THEN health[m] ELSE NewRecord
  IN /\ Asking(e, "9router") /\ f = (IF x.aborted THEN AbortError ELSE ConnectionError)
     /\ IF x.attempt < MaxRetries
        THEN ex' = [ex EXCEPT ![e].attempt = @ + 1] /\ UNCHANGED health
        ELSE /\ health' = Tracked(m, RecordFailure(rec, ClassifyFailure(f), f, now))
             /\ ex' = [ex EXCEPT ![e] = IF x.aborted THEN Ended(x, "ROUTER_TIMEOUT", "ROUTER_TIMEOUT", 0)
                                        ELSE NextModel([x EXCEPT !.lastErr = f])]
     /\ UNCHANGED <<cfg, now, cancelled, traces>>

\* An answer ends the execution when it wants no tools.
Answered(x, used, r, sent) ==
  LET y == [x EXCEPT !.used = used, !.active = IF Gateway(x) = "9router" THEN used ELSE @]
  IN IF r.calls = <<>> THEN Ended(y, "COMPLETED", "none", 0)
     ELSE [y EXCEPT !.pc = "tools", !.batch = r.calls, !.wanted = Len(r.calls), !.results = 0,
                    !.faithful = @ /\ (~r.broken => r.calls = sent)]

\* The name of the model that answered: reported by the server, or remembered from the first stream.
ReportedNames(x) ==
  IF cfg.stream THEN {IF x.used = NoModel THEN Current(x).model ELSE x.used}
  ELSE {Current(x).model} \cup EchoNames

RouterAnswers(e, sent) ==
  LET x == ex[e] IN
  /\ Asking(e, "9router") /\ ~x.aborted
  /\ \E r \in Received(sent), used \in ReportedNames(x) :
        ex' = [ex EXCEPT ![e] = Answered(x, used, r, sent)]
  /\ health' = Tracked(Current(x).model, RecordSuccess(NewRecord))
  /\ UNCHANGED <<cfg, now, cancelled, traces>>

RetriesFor(x) == IF Current(x).free THEN MaxRetries ELSE 1

OpenRouterErrorCode(x, f) ==
  CASE f.http \in {401, 403} -> "AUTHENTICATION_FAILURE"
    [] f.http \notin {401, 403} /\ Len(x.queue) > 1 -> "ALL_PROVIDERS_FAILED"
    [] f.http = 429 /\ Len(x.queue) = 1 -> "RATE_LIMITED"
    [] f.http >= 500 /\ Len(x.queue) = 1 -> "PROVIDER_UNAVAILABLE"
    [] OTHER -> "ROUTER_HTTP_ERROR"

\* A bad request goes to the next model only when the model, not the payload, is to blame.
OpenRouterRejects(e, f) ==
  LET x == ex[e]
      fallback == ShouldFallback(f, x.messages # <<>>)
      code == IF fallback /\ Len(x.queue) > 1 THEN "ALL_PROVIDERS_FAILED" ELSE "ROUTER_HTTP_ERROR"
  IN /\ Asking(e, "openrouter") /\ ~x.aborted /\ f.http = 400
     /\ ex' = [ex EXCEPT ![e] = IF fallback /\ ~IsLastModel(x) THEN NextModel(x)
                                ELSE Ended(x, "ROUTER_HTTP_ERROR", code, 400)]
     /\ UNCHANGED <<cfg, health, now, cancelled, traces>>

OpenRouterHttpFails(e, f) ==
  LET x == ex[e] IN
  /\ Asking(e, "openrouter") /\ ~x.aborted /\ f.http # 400
  /\ ex' = [ex EXCEPT ![e] =
       IF x.attempt < RetriesFor(x) /\ (f.http = 429 \/ f.http >= 500) THEN [x EXCEPT !.attempt = @ + 1]
       ELSE IF IsLastModel(x)
            THEN Ended(x, IF f.http \in {401, 403} THEN "FAILED" ELSE "ROUTER_HTTP_ERROR",
                       OpenRouterErrorCode(x, f), f.http)
       ELSE NextModel(x)]
  /\ UNCHANGED <<cfg, health, now, cancelled, traces>>

OpenRouterThrows(e) ==
  LET x == ex[e] IN
  /\ Asking(e, "openrouter")
  /\ ex' = [ex EXCEPT ![e] = IF x.aborted THEN Ended(x, "ROUTER_TIMEOUT", "ROUTER_TIMEOUT", 0)
                             ELSE IF x.attempt < RetriesFor(x) THEN [x EXCEPT !.attempt = @ + 1]
                             ELSE NextModel(x)]
  /\ UNCHANGED <<cfg, health, now, cancelled, traces>>

\* A body that is empty or no JSON.
OpenRouterUnreadable(e, code) ==
  LET x == ex[e] IN
  /\ Asking(e, "openrouter") /\ ~x.aborted /\ ~cfg.stream
  /\ ex' = [ex EXCEPT ![e] = IF x.attempt < RetriesFor(x) THEN [x EXCEPT !.attempt = @ + 1]
                             ELSE IF IsLastModel(x) THEN Ended(x, "FAILED", code, 0)
                             ELSE NextModel(x)]
  /\ UNCHANGED <<cfg, health, now, cancelled, traces>>

OpenRouterAnswers(e, sent) ==
  LET x == ex[e] IN
  /\ Asking(e, "openrouter") /\ ~x.aborted
  /\ \E r \in Received(sent), used \in ReportedNames(x), cost \in (IF Current(x).free THEN {0} ELSE Costs) :
        ex' = [ex EXCEPT ![e] = Answered([x EXCEPT !.cost = @ + cost], used, r, sent)]
  /\ UNCHANGED <<cfg, health, now, cancelled, traces>>

-----------------------------------------------------------------------------
(* Tools.                                                                  *)

\* Mutant: a call whose arguments cannot be parsed gets no result.
WithResult_Skipped(x, args) == IF Parses(args) THEN [x EXCEPT !.results = @ + 1] ELSE x

\* Every call gets a result: the tool's, or the error that its arguments are no JSON.
WithResult(x, args) == [x EXCEPT !.results = @ + 1]

\* The assistant's message and the results of its calls enter the conversation together.
PushResults(x) == [x EXCEPT !.messages = Append(@, [calls |-> x.wanted, results |-> x.results]), !.round = @ + 1]

LimitReached(x) == x.calls >= MaxToolCalls

ToolStep(e) ==
  LET x == ex[e]
      args == Head(x.batch)
      counted == [WithResult(x, args) EXCEPT !.calls = @ + 1, !.batch = Tail(@)]
  IN /\ x.pc = "tools"
     /\ \/ /\ x.batch = <<>>
           /\ ex' = [ex EXCEPT ![e] = NextRound(PushResults(x))]
        \/ /\ x.batch # <<>> /\ x.aborted
           /\ ex' = [ex EXCEPT ![e] = Ended(x, "ROUTER_TIMEOUT", "ROUTER_TIMEOUT", 0)]
        \/ /\ x.batch # <<>> /\ ~x.aborted /\ LimitReached(x)
           /\ ex' = [ex EXCEPT ![e] = Ended(x, "TOOL_LOOP_LIMIT", "TOOL_LOOP_LIMIT", 0)]
        \/ /\ x.batch # <<>> /\ ~x.aborted /\ ~LimitReached(x)
           /\ \E writes \in IF Parses(args) THEN BOOLEAN ELSE {FALSE} :
                ex' = [ex EXCEPT ![e] =
                  IF Parses(args) THEN [counted EXCEPT !.changed = @ \/ writes, !.touched = @ \cup {Gateway(x)}]
                  ELSE counted]
     /\ UNCHANGED <<cfg, health, now, cancelled, traces>>

-----------------------------------------------------------------------------
(* DualGatewayProvider, and the trace the worker keeps of the attempt.      *)

\* Mutant: tools that changed no file leave no trace.
HasMutableEffects_FilesOnly(x) == x.changed

HasMutableEffects(x) == x.changed \/ x.calls > 0 \/ x.round > 0

Done(x) == [x EXCEPT !.pc = "done"]

Trace(x) ==
  [model |-> x.result.model, status |-> x.result.status, code |-> x.result.code, http |-> x.result.http,
   toolCalls |-> x.calls, profile |-> ClassifyTaskProfile(x.task), winner |-> x.result.status = "COMPLETED"]

Finish(e, x) ==
  /\ ex' = [ex EXCEPT ![e] = Done(x)]
  /\ traces' = Append(traces, Trace(x))
  /\ UNCHANGED health

GatewayDecides(e) ==
  LET x == ex[e]
      alone == x.gateway = Len(cfg.gateways)
      completed == x.result.status = "COMPLETED"
      partial == [x EXCEPT !.result.status = "FAILED", !.result.code = "PARTIAL_EXECUTION_REQUIRES_REVIEW"]
  IN /\ x.pc = "ended"
     /\ \/ (alone \/ completed) /\ Finish(e, x)
        \/ ~alone /\ ~completed /\ HasMutableEffects(x) /\ Finish(e, partial)
        \/ /\ ~alone /\ ~completed /\ ~HasMutableEffects(x)
           /\ IF x.result.status = "TOOL_LOOP_LIMIT" THEN Finish(e, x)
              ELSE /\ RouterBegins(e, x.gateway + 1) \/ OpenRouterBegins(e, x.gateway + 1)
                   /\ UNCHANGED traces
     /\ UNCHANGED <<cfg, now, cancelled>>

-----------------------------------------------------------------------------
(* The surroundings.                                                       *)

Running(e) == ex[e].pc \in {"asking", "tools"}

\* Mutant: the timer is cleared as soon as a model has answered.
TimerFires_ClearedEarly(e) == Running(e) /\ ~ex[e].aborted /\ ex[e].used = NoModel

TimerFires(e) == Running(e) /\ ~ex[e].aborted

Timeout(e) ==
  /\ TimerFires(e)
  /\ ex' = [ex EXCEPT ![e].aborted = TRUE]
  /\ UNCHANGED <<cfg, health, now, cancelled, traces>>

\* The caller aborts its signal; a running gateway's controller follows.
Cancel(e) ==
  /\ ~cancelled[e] /\ ex[e].pc \notin {"idle", "done"}
  /\ cancelled' = [cancelled EXCEPT ![e] = TRUE]
  /\ ex' = IF Running(e) THEN [ex EXCEPT ![e].aborted = TRUE] ELSE ex
  /\ UNCHANGED <<cfg, health, now, traces>>

Tick ==
  /\ now < MaxTime
  /\ now' = now + 1
  /\ UNCHANGED <<cfg, health, cancelled, ex, traces>>

Init ==
  /\ cfg \in Configs
  /\ health = [m \in RegisteredModels("9router") |-> NewRecord]
  /\ now = 1
  /\ cancelled = [e \in Execs |-> FALSE]
  /\ ex \in [Execs -> {IdleExec(t) : t \in Tasks}]
  /\ traces = <<>>

\* Steps that wait for nobody: the tools end, an aborted request throws, the gateway decides.
LocalStep(e) ==
  \/ ToolStep(e)
  \/ ex[e].aborted /\ (RouterThrows(e, AbortError) \/ OpenRouterThrows(e))
  \/ GatewayDecides(e)

Next ==
  \/ \E e \in Execs :
       \/ Begin(e) \/ ToolStep(e) \/ GatewayDecides(e) \/ Timeout(e) \/ Cancel(e)
       \/ RouterThrows(e, ConnectionError) \/ RouterThrows(e, AbortError) \/ OpenRouterThrows(e)
       \/ \E f \in cfg.failures : RouterHttpFails(e, f) \/ OpenRouterHttpFails(e, f) \/ OpenRouterRejects(e, f)
       \/ \E sent \in cfg.callLists : RouterAnswers(e, sent) \/ OpenRouterAnswers(e, sent)
       \/ \E code \in {"EMPTY_RESPONSE", "INVALID_RESPONSE"} : OpenRouterUnreadable(e, code)
  \/ Tick

Fairness == \A e \in Execs : WF_vars(LocalStep(e)) /\ WF_vars(Timeout(e))

Spec == Init /\ [][Next]_vars /\ Fairness
-----------------------------------------------------------------------------
(* Properties.                                                             *)

Statuses == {"none", "COMPLETED", "FAILED", "ROUTER_TIMEOUT", "ROUTER_HTTP_ERROR", "ROUTER_CONNECTION_ERROR", "TOOL_LOOP_LIMIT"}

\* Executions, health records and the clock stay in their ranges, and no gateway makes more tool calls or
\* rounds than its limits (router.ts, openrouter.ts, ModelHealthTracker).
TypeOK ==
  /\ health \in [RegisteredModels("9router") -> HealthRecords(0..MaxTime + QuotaRest)]
  /\ now \in 1..MaxTime
  /\ \A e \in Execs :
       LET x == ex[e] IN
       /\ x.pc \in {"idle", "asking", "tools", "ended", "done"}
       /\ x.round \in 0..MaxToolRounds /\ x.calls \in 0..MaxToolCalls /\ x.attempt \in 1..MaxRetries
       /\ x.result.status \in Statuses

\* Two gateways never work on one workspace: when the second one runs a tool, the first had run none
\* (DualGatewayProvider.execute refuses to fall back after tool calls, rounds or changed files).
OneGatewayPerWorkspace == \A e \in Execs : Cardinality(ex[e].touched) <= 1

\* However many rounds, retries and fallbacks a task takes, at most maxPaidAttempts requests go to paid
\* models when these are a fallback; a paid first choice is asked again and again, but never once the reported
\* costs have reached the task's budget, which they exceed by less than one answer.
PaidRequestsBounded ==
  \A e \in Execs : LET x == ex[e] IN
    (x.gateway > 0 /\ Gateway(x) = "openrouter" /\ x.cands # <<>>) =>
      /\ (\A i \in DOMAIN x.cands : x.cands[i].free \/ x.cands[i].model # x.queue[1])
           => x.paidRequests <= cfg.maxPaidAttempts
      /\ x.cost < cfg.maxCost + Max(Costs)

\* Every request carries a result for each tool call of each assistant turn, over rounds, retries, malformed
\* arguments and changes of the model (providers reject anything else).
EveryCallHasItsResult ==
  \A e \in Execs :
    ex[e].pc = "asking" =>
      \A i \in DOMAIN ex[e].messages : ex[e].messages[i].calls = ex[e].messages[i].results

\* Every request is a well-formed conversation: the results are there, and the calls are those the model
\* sent, however their fragments were interleaved (ToolCallStreamAssembler).
ConversationWellFormed == (\A e \in Execs : ex[e].faithful) /\ EveryCallHasItsResult

\* An execution that has begun ends, even if no server ever answers: the timer aborts the request, and an
\* abort runs out of retries.
ExecutionEnds == \A e \in Execs : ex[e].pc # "idle" ~> ex[e].pc = "done"

\* Whatever failures executions record on each other's models, a model that is resting has an end to its
\* rest that is at most the longest cooldown away, so no failure keeps it from being tried for ever.
CooldownsEnd ==
  \A m \in DOMAIN health : health[m].state = "COOLDOWN" => health[m].until \in 1..now + Max({Rest, QuotaRest})

\* A task is sent to verified free models, to the paid ones a paid tier allows, or to the model the router
\* named as the one that answered before; nothing else gets through the tiers and overrides.
OnlyAllowedModels ==
  \A e \in Execs : LET x == ex[e] IN
    (x.pc = "asking") =>
      \/ IsFreeModel(Current(x).model)
      \/ Gateway(x) = "openrouter" /\ Policy(x).tier3 # <<>> /\ ~Current(x).free
      \/ Gateway(x) = "9router" /\ Current(x).model = x.active

\* Calibration only reorders the first tier: no model is lost, added or doubled by it, for any history of
\* attempts, and a model nobody has tried is not overtaken by one that only failed.
CalibrationOnlyReorders ==
  \A p \in Profiles :
    LET tier1 == cfg.tier1[p]
        order == ReorderTier1(tier1, traces, p, MinSamples)
        place(m) == CHOOSE i \in DOMAIN order : order[i] = m
        Untried(m) == GlobalMetrics(traces, m).totalAttempts = 0
        Failing(m) == LET k == CalibrationMetrics(traces, p, m) IN k.totalAttempts >= MinSamples /\ k.winCount = 0
    IN /\ Len(order) = Len(tier1) /\ ToSet(order) = ToSet(tier1)
       /\ \A u, f \in ToSet(tier1) : Untried(u) /\ Failing(f) => place(u) < place(f)

\* Executions share the health of the models and spend one budget, and each resolves its queue before the
\* others fail or succeed: through all of it the policy of the router is kept.
RoutingPolicyKept == OnlyAllowedModels /\ PaidRequestsBounded /\ CooldownsEnd /\ CalibrationOnlyReorders
=============================================================================
