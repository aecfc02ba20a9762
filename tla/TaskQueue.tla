----------------------------- MODULE TaskQueue -----------------------------
(***************************************************************************)
(* What the queue promises of a task nobody has disturbed: it is handed to *)
(* one worker at a time, closed only by that worker, and put back only by  *)
(* it, one retry later.  A task is disturbed for good once its lease has   *)
(* run out or an operator has touched it; then only the retry bound is     *)
(* left.                                                                   *)
(***************************************************************************)
EXTENDS Naturals

CONSTANTS Tasks, Workers, MaxRetries

VARIABLES state,     \* where the task stands
          holders,   \* workers that have the task in hand
          used,      \* retries
          disturbed  \* tasks under no promise

queueVars == <<state, holders, used, disturbed>>

States == {"absent", "waiting", "busy", "closed"}

Init ==
  /\ state = [t \in Tasks |-> "absent"] /\ holders = [t \in Tasks |-> {}]
  /\ used = [t \in Tasks |-> 0] /\ disturbed = {}

Moves(t, from, to) == t \notin disturbed /\ state[t] = from /\ state' = [state EXCEPT ![t] = to]

HeldBy(t, W) == holders' = [holders EXCEPT ![t] = W]

Enqueue(t) == Moves(t, "absent", "waiting") /\ UNCHANGED <<holders, used, disturbed>>

HandOut(t, w) ==
  /\ Moves(t, "waiting", "busy") /\ holders[t] = {} /\ HeldBy(t, {w})
  /\ \A u \in Tasks : w \notin holders[u]
  /\ UNCHANGED <<used, disturbed>>

Close(t, w) == Moves(t, "busy", "closed") /\ holders[t] = {w} /\ UNCHANGED <<holders, used, disturbed>>

PutBack(t, w) ==
  /\ Moves(t, "closed", "waiting") /\ holders[t] = {w} /\ HeldBy(t, {})
  /\ used[t] < MaxRetries /\ used' = [used EXCEPT ![t] = @ + 1]
  /\ UNCHANGED disturbed

\* The worker is done with the task, or dies with it in hand.
Drop(t, w) == t \notin disturbed /\ holders[t] = {w} /\ HeldBy(t, {}) /\ UNCHANGED <<state, used, disturbed>>

Disturb(t) == disturbed' = disturbed \cup {t}

\* Disturbed tasks do as they like, within the bound of retries.
Anything ==
  /\ state' \in [Tasks -> States] /\ holders' \in [Tasks -> SUBSET Workers] /\ used' \in [Tasks -> 0..MaxRetries]
  /\ \A t \in Tasks \ disturbed' : state'[t] = state[t] /\ holders'[t] = holders[t] /\ used'[t] = used[t]

Next ==
  \/ \E t \in Tasks : Enqueue(t) \/ \E w \in Workers : HandOut(t, w) \/ Close(t, w) \/ PutBack(t, w) \/ Drop(t, w)
  \/ \E t \in Tasks : Disturb(t) /\ Anything
  \/ UNCHANGED disturbed /\ Anything

Spec == Init /\ [][Next]_queueVars
=============================================================================
