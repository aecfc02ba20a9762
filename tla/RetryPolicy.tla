---------------------------- MODULE RetryPolicy ----------------------------
(***************************************************************************)
(* PdlRetryClassifier and PdlRetryPolicy: the pure decision a failed task  *)
(* gets.  An error message is abstracted to the set of classifier patterns *)
(* it matches (its features); the empty set is a message that matches no   *)
(* pattern at all.  The real messages are free text, so every set of       *)
(* features is a message the classifier can meet.                          *)
(***************************************************************************)
EXTENDS Naturals, FiniteSets

CONSTANTS
  MaxRetries,   \* tasks.max_retries, 3 by default
  BaseDelay,    \* RetryPolicyConfig.baseDelayMs
  Factor,       \* RetryPolicyConfig.factor
  MaxDelay,     \* RetryPolicyConfig.maxDelayMs
  Jitter        \* RetryPolicyConfig.jitterMs

\* The constructor refuses any other configuration.
ASSUME RetryConfigAssumption ==
  /\ MaxRetries \in Nat
  /\ BaseDelay \in Nat \ {0}
  /\ Factor \in Nat \ {0}
  /\ MaxDelay \in Nat /\ MaxDelay >= BaseDelay
  /\ Jitter \in Nat

-----------------------------------------------------------------------------
(* Classification *)

\* "poison": /poison/, /unrecoverable/, /infinite loop/, /ast corruption/.
\* "validation": /syntax error/, /validation failed/, /lint failed/.
NonRetryableFeatures ==
  {"killSwitch", "paidModel", "repository", "product", "spec",
   "duration", "security", "governance"}

RetryableFeatures ==
  {"timeout", "rateLimit", "serverError", "network", "workspace", "database"}

\* Wordings of the system that no rule matches: the providers' "is not allowed
\* by FREE_ONLY_POLICY".
UnmatchedFeatures == {"freeOnlyPolicy"}

Features == {"poison", "validation"} \cup NonRetryableFeatures
              \cup RetryableFeatures \cup UnmatchedFeatures

\* Mutant: waits for one more repetition.
Poisonous_Late(msg, retryCount) ==
  \/ "poison" \in msg
  \/ "validation" \in msg /\ retryCount > 1

\* A syntax or validation error is poison only once the task has been retried.
Poisonous(msg, retryCount) ==
  \/ "poison" \in msg
  \/ "validation" \in msg /\ retryCount >= 1

\* The rules are tried in this order: a message that names a permanent cause is
\* never transient, whatever else it says.
FailureClass(msg, retryCount) ==
  IF Poisonous(msg, retryCount) THEN "POISON"
  ELSE IF msg \cap NonRetryableFeatures # {} THEN "NON_RETRYABLE"
  ELSE "RETRYABLE"

-----------------------------------------------------------------------------
(* Decision *)

\* Mutant: compares the attempts already made, not the next one.
Evaluate_OffByOne(msg, retryCount) ==
  CASE FailureClass(msg, retryCount) = "POISON" -> "QUARANTINE"
    [] FailureClass(msg, retryCount) = "NON_RETRYABLE" -> "DEAD_LETTER"
    [] OTHER -> IF retryCount > MaxRetries THEN "DEAD_LETTER" ELSE "RETRY"

\* evaluate(): the action for a task that has been retried retryCount times.
Evaluate(msg, retryCount) ==
  CASE FailureClass(msg, retryCount) = "POISON" -> "QUARANTINE"
    [] FailureClass(msg, retryCount) = "NON_RETRYABLE" -> "DEAD_LETTER"
    [] OTHER -> IF retryCount + 1 > MaxRetries THEN "DEAD_LETTER" ELSE "RETRY"

\* Every delay computeBackoff(retryCount) may return: the jitter is drawn at
\* random from 0 .. jitterMs - 1.
JitterRange == IF Jitter = 0 THEN {0} ELSE 0 .. Jitter - 1

Capped(delay) == IF delay > MaxDelay THEN MaxDelay ELSE delay

ComputeBackoff(retryCount) ==
  { Capped(BaseDelay * Factor ^ retryCount + j) : j \in JitterRange }
=============================================================================
