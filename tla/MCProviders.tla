---------------------------- MODULE MCProviders ----------------------------
(* Two executions of one process, three router models of which one is for  *)
(* emergencies, two free OpenRouter models, one of them unverified, and    *)
(* two paid ones.                                                          *)
EXTENDS Providers

Entry(provider, price, priority, emergency) ==
  [provider |-> provider, price |-> price, enabled |-> TRUE, tools |-> TRUE, coding |-> TRUE, window |-> TRUE,
   priority |-> priority, score |-> 1, order |-> priority, emergency |-> emergency]

MCRegistry ==
  [r1 |-> Entry("9router", "VERIFIED_FREE", 1, FALSE), r2 |-> Entry("9router", "VERIFIED_FREE", 2, TRUE),
   o1 |-> Entry("openrouter", "VERIFIED_FREE", 1, FALSE), pool |-> Entry("openrouter", "VERIFIED_FREE", 2, TRUE)]

Capability(profiles) == [enabled |-> TRUE, tools |-> TRUE, window |-> TRUE, profiles |-> profiles]

MCCapabilities ==
  [o1 |-> Capability({"coding"}), p1 |-> Capability({"general"}), p2 |-> Capability({"general"})]

Config(gateways) ==
  [gateways |-> gateways, model |-> "none", fallbacks |-> <<>>, emergency |-> FALSE, stream |-> FALSE,
   orModel |-> "none", orFallbacks |-> <<>>, freeNames |-> {"o1", "u1"},
   tier1 |-> [p \in {"coding", "general"} |-> IF p = "coding" THEN <<"u1", "o1">> ELSE <<"o1">>],
   pool |-> FALSE, key |-> TRUE, paid |-> "default", paidModels |-> <<"p1", "p2">>, maxPaidAttempts |-> 1, maxCost |-> 2]

Failure(http, text) == [http |-> http, text |-> text, conn |-> FALSE]

Good == <<1, 2>>
Malformed == <<3, 4>>

\* The router with OpenRouter behind it.
Dual ==
  Config(<<"9router", "openrouter">>) @@
  [execs |-> {"e1"}, failures |-> {Failure(503, "none"), Failure(401, "none")},
   callLists |-> {<<>>, <<Good>>, <<Malformed, Good>>}]

\* OpenRouter alone, or with the router behind it, under a stream.
Streaming ==
  [Dual EXCEPT !.gateways = <<"openrouter", "9router">>, !.stream = TRUE,
               !.failures = {Failure(429, "none"), Failure(400, "nvidia")}]

\* Two tasks at once on the models of the router.
Shared ==
  [Dual EXCEPT !.gateways = <<"9router">>, !.execs = {"e1", "e2"}, !.emergency = TRUE,
               !.failures = {Failure(429, "daily"), Failure(404, "404")},
               !.callLists = {<<>>}]

\* No free model is left: the paid ones come first.
PaidFirst ==
  [Dual EXCEPT !.gateways = <<"openrouter">>, !.tier1 = [p \in {"coding", "general"} |-> <<>>],
               !.callLists = {<<>>, <<Good>>}]

MCConfigs == {Dual, Streaming, Shared, PaidFirst}

MCTasks == {[profile |-> "none", words |-> {"coding"}]}

=============================================================================
