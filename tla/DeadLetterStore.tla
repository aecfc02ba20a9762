-------------------------- MODULE DeadLetterStore --------------------------
(***************************************************************************)
(* The dead-letter repository: a table, and in every process a map that it  *)
(* writes through to and falls back on when the table does not answer.      *)
(***************************************************************************)
EXTENDS OfficeApi

CONSTANTS Processes,   \* processes with a repository
          Keys,        \* attempts: task id and attempt count
          MaxRecords   \* bound: identifiers of letters

VARIABLES letters,     \* rows of pdl_dead_letters
          sovereign,   \* the map of each process
          issued       \* letters recorded so far: the next identifier

letterVars == <<letters, sovereign, issued>>

NoLetters == [k \in {} |-> {}]

LettersTypeOK ==
  /\ \A l \in letters : l.key \in Keys /\ l.id \in 1..issued /\ l.open \in BOOLEAN
  /\ \A p \in Processes : DOMAIN sovereign[p] \subseteq Keys

LettersInit == Init /\ letters = {} /\ sovereign = [p \in Processes |-> NoLetters] /\ issued = 0

RowsOf(key) == {l \in letters : l.key = key}

\* The map is keyed by task and attempt.
Kept(p, key, letter) == [sovereign EXCEPT ![p] = [k \in DOMAIN @ \cup {key} |-> IF k = key THEN letter ELSE @[k]]]

\* record(): INSERT ... ON CONFLICT returns the row there is and the map follows it;
\* when the table does not answer, the map's own letter stands or a new one is kept.
Record(p, key, ok) ==
  LET new == [key |-> key, id |-> issued + 1, open |-> TRUE]
      row == IF RowsOf(key) = {} THEN new ELSE CHOOSE l \in RowsOf(key) : TRUE
  IN  /\ Request({"letters"}) /\ issued < MaxRecords /\ issued' = issued + 1
      /\ IF ok
         THEN /\ letters' = letters \cup {row} /\ sovereign' = Kept(p, key, row) /\ UNCHANGED faults
         ELSE /\ Fault /\ sovereign' = IF key \in DOMAIN sovereign[p] THEN sovereign ELSE Kept(p, key, new)
              /\ UNCHANGED letters
      /\ UNCHANGED <<workload, mem, bus, work>>

\* A letter somebody has dealt with.
Settled(letter) == [letter EXCEPT !.open = FALSE]

\* resolve(): the row; only when there is none, or no answer, the letter of the map.
Resolve(p, id, ok) ==
  LET rows == IF ok THEN {l \in letters : l.id = id} ELSE {}
  IN  /\ Request({"letters"})
      /\ IF ok THEN UNCHANGED faults ELSE Fault
      /\ letters' = {IF l \in rows THEN Settled(l) ELSE l : l \in letters}
      /\ sovereign' = IF rows # {} THEN sovereign
                      ELSE [sovereign EXCEPT ![p] = [k \in DOMAIN @ |-> IF @[k].id = id THEN Settled(@[k]) ELSE @[k]]]
      /\ UNCHANGED <<workload, mem, bus, work, issued>>

RestartProcess(p) ==
  /\ workload = "letters" /\ Fault /\ sovereign' = [sovereign EXCEPT ![p] = NoLetters]
  /\ UNCHANGED <<workload, mem, bus, work, requests, letters, issued>>

LettersNext ==
  \E p \in Processes : \/ RestartProcess(p)
                       \/ \E key \in Keys, ok \in BOOLEAN : Record(p, key, ok)
                       \/ \E id \in 1..issued, ok \in BOOLEAN : Resolve(p, id, ok)

\* Mutant: the map is only consulted when the table does not answer.
ListLetters_TableFirst(p, ok) == IF ok THEN letters ELSE {sovereign[p][k] : k \in DOMAIN sovereign[p]}

\* list(): the rows, and the letters of the map whose id no row has.
ListLetters(p, ok) ==
  LET rows == IF ok THEN letters ELSE {}
  IN  rows \cup {l \in {sovereign[p][k] : k \in DOMAIN sovereign[p]} : \A r \in rows : r.id # l.id}

-----------------------------------------------------------------------------
(* Properties *)

\* An attempt a living process has recorded is in its list whether the table answers
\* or not, and a letter the table holds is listed as the table has it: an outage
\* hides nothing and a stale copy reopens nothing (record and list of
\* PdlDeadLetterRepository).
LettersAreListed ==
  \A p \in Processes, ok \in BOOLEAN :
    /\ \A k \in DOMAIN sovereign[p] : \E l \in ListLetters(p, ok) : l.key = k
    /\ ok => \A l \in ListLetters(p, ok), row \in letters : l.id = row.id => l = row
=============================================================================
