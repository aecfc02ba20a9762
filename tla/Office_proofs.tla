--------------------------- MODULE Office_proofs ---------------------------
(***************************************************************************)
(* Theorems about the office as a whole (OfficeSystem), for any number of  *)
(* isolates, processes, clients, tasks and faults: its dead letters stay   *)
(* listed, a promotion is taken in once, no step of a pipeline starts      *)
(* before what it waits for, and no stream of events has a silent gap.     *)
(***************************************************************************)
EXTENDS OfficeSystem, FiniteSetTheorems, SequenceTheorems, WellFoundedInduction, TLAPS

systemVars == <<vars, serverVars, letterVars, deskVars>>

-----------------------------------------------------------------------------
(* Dead letters *)

Letter == [key : Keys, id : 1..issued, open : BOOLEAN]

LettersTyped == issued \in Nat /\ letters \subseteq Letter

\* A process has one letter for a key, under its key.
MapsTyped ==
  /\ sovereign = [p \in Processes |-> sovereign[p]]
  /\ \A p \in Processes : DOMAIN sovereign[p] \subseteq Keys
  /\ \A p \in Processes : \A k \in DOMAIN sovereign[p] : sovereign[p][k] \in Letter /\ sovereign[p][k].key = k

\* An identifier is given once, in the table and in every map.
RowsAreUnique == \A l, m \in letters : l.id = m.id => l = m
MapsAgree ==
  \A p \in Processes : \A k \in DOMAIN sovereign[p] : \A row \in letters : row.id = sovereign[p][k].id => row.key = k

LetterInv == LettersTyped /\ MapsTyped /\ RowsAreUnique /\ MapsAgree

LEMMA LettersInitially == SystemInit => LetterInv
  BY DEF SystemInit, LettersInit, NoLetters, LetterInv, LettersTyped, MapsTyped, RowsAreUnique, MapsAgree, Letter

LEMMA LettersUntouched == LetterInv /\ UNCHANGED letterVars => LetterInv'
  BY DEF LetterInv, LettersTyped, MapsTyped, RowsAreUnique, MapsAgree, Letter, letterVars

\* The letter a process keeps from now on: a new one, or the row there is.
LEMMA KeepPreserves ==
  ASSUME LetterInv, NEW p \in Processes, NEW key \in Keys, NEW letter \in Letter', letter.key = key,
         issued' = issued + 1, letters' \subseteq Letter', RowsAreUnique',
         \A row \in letters' : row.id = letter.id => row.key = key,
         \A row \in letters' \ letters : row.id = issued + 1,
         sovereign' = Kept(p, key, letter)
  PROVE  LetterInv'
<1>1. issued' \in Nat /\ Letter \subseteq Letter'
  BY DEF LetterInv, LettersTyped, Letter
<1>2. /\ sovereign' = [q \in Processes |-> sovereign'[q]]
      /\ \A q \in Processes : q # p => sovereign'[q] = sovereign[q]
      /\ DOMAIN sovereign'[p] = DOMAIN sovereign[p] \cup {key}
      /\ \A k \in DOMAIN sovereign'[p] : sovereign'[p][k] = IF k = key THEN letter ELSE sovereign[p][k]
  BY DEF LetterInv, MapsTyped, Kept
<1>3. \A q \in Processes : \A k \in DOMAIN sovereign'[q] :
        (q = p /\ k = key /\ sovereign'[q][k] = letter) \/ (k \in DOMAIN sovereign[q] /\ sovereign'[q][k] = sovereign[q][k])
  BY <1>2
<1>4. MapsTyped'
  <2>1. \A q \in Processes : DOMAIN sovereign'[q] \subseteq Keys
    BY <1>2 DEF LetterInv, MapsTyped
  <2>2. \A q \in Processes : \A k \in DOMAIN sovereign'[q] : sovereign'[q][k] \in Letter' /\ sovereign'[q][k].key = k
    BY <1>1, <1>3 DEF LetterInv, MapsTyped
  <2> QED BY <1>2, <2>1, <2>2 DEF MapsTyped
<1>5. MapsAgree'
  <2> SUFFICES ASSUME NEW q \in Processes, NEW k \in DOMAIN sovereign'[q], NEW row \in letters',
                      row.id = sovereign'[q][k].id
               PROVE  row.key = k
    BY DEF MapsAgree
  <2>1. CASE q = p /\ k = key /\ sovereign'[q][k] = letter
    BY <2>1
  <2>2. CASE k \in DOMAIN sovereign[q] /\ sovereign'[q][k] = sovereign[q][k]
    <3>1. sovereign[q][k].id \in 1..issued
      BY <2>2 DEF LetterInv, MapsTyped, Letter
    <3>2. row \in letters
      BY <3>1, <2>2 DEF LetterInv, LettersTyped
    <3> QED BY <2>2, <3>2 DEF LetterInv, MapsAgree
  <2> QED BY <1>3, <2>1, <2>2
<1> QED BY <1>1, <1>4, <1>5 DEF LetterInv, LettersTyped

LEMMA RecordPreserves ==
  ASSUME LetterInv, NEW p \in Processes, NEW key \in Keys, NEW ok \in BOOLEAN, Record(p, key, ok)
  PROVE  LetterInv'
<1> DEFINE new == [key |-> key, id |-> issued + 1, open |-> TRUE]
           row == IF RowsOf(key) = {} THEN new ELSE CHOOSE l \in RowsOf(key) : TRUE
<1>1. /\ issued' = issued + 1 /\ issued \in Nat
      /\ Letter \subseteq Letter' /\ new \in Letter' /\ new.key = key /\ new.id = issued + 1
  BY DEF Record, LetterInv, LettersTyped, Letter
<1>2. row \in Letter' /\ row.key = key /\ (row \in letters \/ row = new)
  BY <1>1 DEF RowsOf, LetterInv, LettersTyped
<1>3. \A l \in letters : l.id # issued + 1
  BY <1>1 DEF LetterInv, LettersTyped, Letter
<1> HIDE DEF new, row
<1>4. CASE ok
  <2>1. letters' = letters \cup {row} /\ sovereign' = Kept(p, key, row)
    BY <1>4 DEF Record, row, new
  <2>2. letters' \subseteq Letter' /\ \A l \in letters' \ letters : l.id = issued + 1
    BY <2>1, <1>1, <1>2 DEF LetterInv, LettersTyped
  <2>unique. RowsAreUnique'
    BY <2>1, <1>1, <1>2, <1>3 DEF LetterInv, RowsAreUnique
  <2>4. \A l \in letters' : l.id = row.id => l.key = key
    BY <2>1, <2>unique, <1>2 DEF RowsAreUnique
  <2> QED BY <1>1, <1>2, <2>1, <2>2, <2>unique, <2>4, KeepPreserves
<1>5. CASE ~ok
  <2>1. letters' = letters /\ sovereign' = IF key \in DOMAIN sovereign[p] THEN sovereign ELSE Kept(p, key, new)
    BY <1>5 DEF Record, new
  <2>2. letters' \subseteq Letter' /\ RowsAreUnique' /\ \A l \in letters' : l.id # new.id
    BY <2>1, <1>1, <1>3 DEF LetterInv, LettersTyped, RowsAreUnique
  <2>3. CASE key \in DOMAIN sovereign[p]
    <3>1. sovereign' = sovereign
      BY <2>1, <2>3
    <3>2. MapsTyped'
      BY <1>1, <3>1 DEF LetterInv, MapsTyped
    <3>3. MapsAgree'
      BY <2>1, <3>1 DEF LetterInv, MapsAgree
    <3> QED BY <1>1, <2>2, <3>2, <3>3 DEF LetterInv, LettersTyped
  <2>4. CASE key \notin DOMAIN sovereign[p]
    BY <1>1, <2>1, <2>2, <2>4, KeepPreserves
  <2> QED BY <2>3, <2>4
<1> QED BY <1>4, <1>5

LEMMA ResolvePreserves ==
  ASSUME LetterInv, NEW p \in Processes, NEW id, NEW ok \in BOOLEAN, Resolve(p, id, ok)
  PROVE  LetterInv'
<1> DEFINE rows == IF ok THEN {l \in letters : l.id = id} ELSE {}
           After(l) == IF l \in rows THEN Settled(l) ELSE l
<1>1. issued' = issued /\ letters' = {After(l) : l \in letters}
  BY DEF Resolve
<1>2. \A l \in Letter : Settled(l) \in Letter /\ Settled(l).id = l.id /\ Settled(l).key = l.key
  BY DEF Settled, Letter
<1>3. \A l \in letters : l \in Letter /\ After(l) \in Letter /\ After(l).id = l.id /\ After(l).key = l.key
  BY <1>2 DEF LetterInv, LettersTyped
<1>4. LettersTyped'
  BY <1>1, <1>3 DEF LetterInv, LettersTyped, Letter
<1>5. RowsAreUnique'
  <2> SUFFICES ASSUME NEW l \in letters, NEW m \in letters, After(l).id = After(m).id PROVE After(l) = After(m)
    BY <1>1 DEF RowsAreUnique
  <2>1. l = m
    BY <1>3 DEF LetterInv, RowsAreUnique
  <2> QED BY <2>1
<1>6. /\ sovereign' = [q \in Processes |-> sovereign'[q]]
      /\ \A q \in Processes : DOMAIN sovereign'[q] = DOMAIN sovereign[q]
      /\ \A q \in Processes : \A k \in DOMAIN sovereign[q] : sovereign'[q][k] \in {sovereign[q][k], Settled(sovereign[q][k])}
  <2>1. CASE sovereign' = sovereign
    BY <2>1 DEF LetterInv, MapsTyped
  <2>2. CASE sovereign' = [sovereign EXCEPT ![p] = [k \in DOMAIN @ |-> IF @[k].id = id THEN Settled(@[k]) ELSE @[k]]]
    BY <2>2 DEF LetterInv, MapsTyped
  <2> QED BY <2>1, <2>2 DEF Resolve
<1>7. \A q \in Processes : \A k \in DOMAIN sovereign[q] :
        sovereign'[q][k] \in Letter /\ sovereign'[q][k].id = sovereign[q][k].id /\ sovereign'[q][k].key = k
  BY <1>2, <1>6 DEF LetterInv, MapsTyped
<1>8. MapsTyped'
  BY <1>1, <1>6, <1>7 DEF LetterInv, MapsTyped, Letter
<1>9. MapsAgree'
  <2> SUFFICES ASSUME NEW q \in Processes, NEW k \in DOMAIN sovereign[q], NEW l \in letters,
                      After(l).id = sovereign'[q][k].id
               PROVE  After(l).key = k
    BY <1>1, <1>6 DEF MapsAgree
  <2> QED BY <1>3, <1>7 DEF LetterInv, MapsAgree
<1> QED BY <1>4, <1>5, <1>8, <1>9 DEF LetterInv

LEMMA RestartProcessPreserves ==
  ASSUME LetterInv, NEW p \in Processes, RestartProcess(p)
  PROVE  LetterInv'
<1>1. issued' = issued /\ letters' = letters /\ sovereign' = [sovereign EXCEPT ![p] = NoLetters]
  BY DEF RestartProcess
<1>2. /\ sovereign' = [q \in Processes |-> sovereign'[q]]
      /\ \A q \in Processes : sovereign'[q] = sovereign[q] \/ DOMAIN sovereign'[q] = {}
  BY <1>1 DEF LetterInv, MapsTyped, NoLetters
<1> QED BY <1>1, <1>2 DEF LetterInv, LettersTyped, MapsTyped, RowsAreUnique, MapsAgree, Letter

LEMMA LettersStep == LetterInv /\ [SystemNext]_systemVars => LetterInv'
<1> SUFFICES ASSUME LetterInv, LettersNext PROVE LetterInv'
  BY LettersUntouched DEF SystemNext, systemVars
<1> QED BY RecordPreserves, ResolvePreserves, RestartProcessPreserves DEF LettersNext

\* What is kept is listed: the table's own rows first, a process's own after them.
LEMMA LettersListed == LetterInv => LettersAreListed
<1> SUFFICES ASSUME LetterInv, NEW p \in Processes, NEW ok \in BOOLEAN
             PROVE  /\ \A k \in DOMAIN sovereign[p] : \E l \in ListLetters(p, ok) : l.key = k
                    /\ ok => \A l \in ListLetters(p, ok), row \in letters : l.id = row.id => l = row
  BY DEF LettersAreListed
<1>1. ASSUME NEW k \in DOMAIN sovereign[p] PROVE \E l \in ListLetters(p, ok) : l.key = k
  <2>1. sovereign[p][k].key = k
    BY DEF LetterInv, MapsTyped
  <2>2. CASE ok /\ \E row \in letters : row.id = sovereign[p][k].id
    BY <2>2 DEF ListLetters, LetterInv, MapsAgree
  <2>3. CASE ~(ok /\ \E row \in letters : row.id = sovereign[p][k].id)
    <3>1. sovereign[p][k] \in ListLetters(p, ok)
      BY <2>3 DEF ListLetters
    <3> QED BY <2>1, <3>1
  <2> QED BY <2>2, <2>3
<1>2. ASSUME ok, NEW l \in ListLetters(p, ok), NEW row \in letters, l.id = row.id PROVE l = row
  BY <1>2 DEF ListLetters, LetterInv, RowsAreUnique
<1> QED BY <1>1, <1>2

\* An outage of the table hides no letter and reopens none, for any processes, keys and letters (record, resolve
\* and list of PdlDeadLetterRepository).
THEOREM NoLetterIsLost == SystemSpec => []LettersAreListed
<1>1. SystemInit => LetterInv
  BY LettersInitially
<1>2. LetterInv /\ [SystemNext]_systemVars => LetterInv'
  BY LettersStep
<1>3. LetterInv => LettersAreListed
  BY LettersListed
<1> QED BY <1>1, <1>2, <1>3, PTL DEF SystemSpec, systemVars

-----------------------------------------------------------------------------
(* Promotions *)

Row == [status : {"QUEUED", "RUNNING", "COMPLETED", "FAILED", "CANCELLED"}, held : BOOLEAN, fresh : BOOLEAN,
        priority : Nat, result : Results \cup {"none", "clean"}, agent : ToSet(Staff)]

\* What a task's row says of its promotion.
Line == [promo   : {p.id : p \in Promotions} \cup {"none"},
         session : {p.session : p \in Promotions} \cup {"none"},
         branch  : {p.branch : p \in Promotions} \cup {"none"}]

StepCall == [kind : {"step"}, plan : {CreateOrganizationalPlan(given) : given \in Plans},
             step : UNION {DOMAIN CreateOrganizationalPlan(given).deps : given \in Plans},
             pc : {"create", "announce", "announced", "failed", "lost"}, task : Nat]

PromotionCall == [kind : {"promotion"}, promo : Promotions,
                  pc : {"list", "known", "create", "failed", "mark", "marked", "unmarked", "lost"},
                  task : Nat, late : BOOLEAN, blind : BOOLEAN]

\* Only the server's own intakes call and write tasks down, one line for each.
CallsTyped ==
  /\ tasks \in Seq(Row) /\ lineage \in Seq(Line) /\ calls \in Seq(StepCall \cup PromotionCall)
  /\ workload = "intakes" => Len(lineage) = Len(tasks)
  /\ calls # <<>> => workload = "intakes"

\* A call has a task once the intake has given it one.
TaskFits(c) ==
  /\ c.task \in 0..Len(lineage)
  /\ c.pc \in {"list", "create"} => c.task = 0
  /\ c.pc \in {"mark", "marked"} => c.task # 0

\* The line of an answered promotion names its session and branch whatever a worker does to it.
MarkStays(c) ==
  c.pc = "marked" => lineage[c.task].branch = c.promo.branch /\ lineage[c.task].session = c.promo.session

\* A call is late for a promotion some call has been answered for, and such a call, unless its list failed, gets
\* nowhere near the intake.
LateEnds(c) ==
  (c.kind = "promotion" /\ c.late) =>
    Taken(c.promo) /\ (~c.blind => c.pc \in {"list", "known", "lost"} /\ c.task = 0)

\* A task belongs to the one call that took it in.
TasksAreOwned == \A m, n \in DOMAIN calls : calls[m].task = calls[n].task /\ m # n => calls[m].task = 0

PromotionInv ==
  /\ CallsTyped /\ TasksAreOwned
  /\ \A n \in DOMAIN calls : TaskFits(calls[n]) /\ MarkStays(calls[n]) /\ LateEnds(calls[n])

LEMMA PromotionInitially == SystemInit => PromotionInv
<1> SUFFICES ASSUME SystemInit PROVE PromotionInv
  OBVIOUS
<1>1. tasks = <<>> /\ lineage = <<>> /\ calls = <<>>
  BY DEF SystemInit, ServerInit, Init
<1> QED BY <1>1 DEF PromotionInv, CallsTyped, TasksAreOwned

\* What the office does to the rows changes nothing here while it keeps their number.
LEMMA PromotionUntouched ==
  ASSUME PromotionInv, UNCHANGED <<workload, lineage, calls>>, tasks' \in Seq(Row),
         workload = "intakes" => Len(tasks') = Len(tasks)
  PROVE  PromotionInv'
  BY DEF PromotionInv, CallsTyped, TasksAreOwned, TaskFits, MarkStays, LateEnds, Taken

\* A row replaced by a row.
LEMMA RowReplaced ==
  ASSUME tasks \in Seq(Row), NEW t \in DOMAIN tasks, NEW row \in Row, tasks' = [tasks EXCEPT ![t] = row]
  PROVE  tasks' \in Seq(Row) /\ Len(tasks') = Len(tasks)
  OBVIOUS

\* Rows replaced all at once.
LEMMA RowsReplaced ==
  ASSUME tasks \in Seq(Row), NEW F(_), \A t \in DOMAIN tasks : F(t) \in Row, tasks' = [t \in DOMAIN tasks |-> F(t)]
  PROVE  tasks' \in Seq(Row) /\ Len(tasks') = Len(tasks)
  OBVIOUS

LEMMA RowAppended ==
  ASSUME tasks \in Seq(Row), NEW row \in Row, tasks' = Append(tasks, row)
  PROVE  tasks' \in Seq(Row)
  OBVIOUS

LEMMA StaffNames == {"architect", "developer", "reviewer", "qa-engineer"} \subseteq ToSet(Staff)
<1>1. DOMAIN Staff = 1..5
  BY DEF Staff
<1>2. /\ Staff[2] = "architect" /\ Staff[3] = "developer" /\ Staff[4] = "reviewer" /\ Staff[5] = "qa-engineer"
  BY DEF Staff
<1> QED BY <1>1, <1>2 DEF ToSet

LEMMA NewRows ==
  /\ \A priority \in Nat : NewTask(priority) \in Row
  /\ \A m : CommandTask(m) \in Row
  /\ \A m : EngineeringTask(m).priority \in Nat
<1>1. \A priority \in Nat : NewTask(priority) \in Row
  BY StaffNames DEF NewTask, Row
<1>2. ASSUME NEW m PROVE CommandTask(m) \in Row
  <2>1. SelectSpecialistForTask(m) \in ToSet(Staff)
    BY StaffNames DEF SelectSpecialistForTask
  <2>2. NewTask(1) \in Row
    BY <1>1
  <2> QED BY <2>1, <2>2 DEF CommandTask, Row
<1>3. ASSUME NEW m PROVE EngineeringTask(m).priority \in Nat
  BY DEF EngineeringTask
<1> QED BY <1>1, <1>2, <1>3

LEMMA EndedRows ==
  ASSUME NEW row \in Row, NEW result \in Results \cup {"none", "clean"}
  PROVE  Ended(row, result) \in Row
  BY DEF Ended, Row

\* The rest of the office adds no task to the server's intakes.
LEMMA OfficeKeepsRows ==
  ASSUME tasks \in Seq(Row), Next
  PROVE  /\ workload' = workload /\ tasks' \in Seq(Row)
         /\ workload = "intakes" => Len(tasks') = Len(tasks)
<1> DEFINE RowsKept == workload' = workload /\ tasks' \in Seq(Row) /\ (workload = "intakes" => Len(tasks') = Len(tasks))
<1>0. ASSUME UNCHANGED <<workload, tasks>> PROVE RowsKept
  BY <1>0
<1>1. ASSUME NEW t \in DOMAIN tasks, NEW row \in Row, tasks' = [tasks EXCEPT ![t] = row], UNCHANGED workload
      PROVE  RowsKept
  BY <1>1, RowReplaced
<1>2. ASSUME NEW row \in Row, tasks' = Append(tasks, row), UNCHANGED workload, workload # "intakes"
      PROVE  RowsKept
  BY <1>2, RowAppended
<1> HIDE DEF RowsKept
<1>3. \A t \in DOMAIN tasks : tasks[t] \in Row
  OBVIOUS
<1>4. ASSUME NEW k \in DOMAIN log, PersistEvent(k) \/ LoseEvent(k) PROVE RowsKept
  BY <1>0, <1>4 DEF PersistEvent, LoseEvent, work
<1>5. ASSUME NEW s \in Streams,
             (\E i \in Isolates : Connect(s, i)) \/ Replay(s) \/ PollStart(s) \/ PollEnd(s) \/ Disconnect(s)
      PROVE  RowsKept
  BY <1>0, <1>5 DEF Connect, Replay, PollStart, PollEnd, Disconnect, work
<1>6. ASSUME NEW i \in Isolates, Evict(i) \/ WindowPasses(i) PROVE RowsKept
  BY <1>0, <1>6 DEF Evict, WindowPasses, work
<1>7. ASSUME NEW i \in Isolates, NEW given, NEW n, NEW k, NEW d,
             \/ PostPipeline(i, given) \/ PostTick(i, n) \/ StepCompleted(i, n, k)
             \/ PostCheckpointDecision(i, n, k, d)
      PROVE  RowsKept
  BY <1>0, <1>7 DEF PostPipeline, PostTick, StepCompleted, PostCheckpointDecision, work
<1>8. ASSUME NEW i \in Isolates, NEW project, NEW n, NEW role, NEW d, NEW t, NEW evidence,
             \/ RequestApproval(i, project) \/ PostPlan(i, project) \/ DecideApproval(i, n, role, d)
             \/ PostReview(i, t, evidence)
      PROVE  RowsKept
  BY <1>0, <1>8 DEF RequestApproval, PostPlan, DecideApproval, PostReview, work
<1>9. ASSUME NEW i \in Isolates, NEW given, NEW k, ExecuteStep(i, given, k) PROVE RowsKept
  <2>1. tasks' = Append(tasks, NewTask(1)) /\ UNCHANGED workload /\ workload # "intakes"
    BY <1>9 DEF ExecuteStep, Request
  <2> QED BY <1>2, <2>1, NewRows
<1>10. ASSUME NEW i \in Isolates, NEW m, NEW valid, PostTask(i, m, valid) PROVE RowsKept
  <2>1. UNCHANGED workload /\ workload # "intakes"
    BY <1>10 DEF PostTask, Request
  <2>2. CASE valid
    BY <1>2, <1>10, <2>1, <2>2, NewRows DEF PostTask
  <2>3. CASE ~valid
    BY <1>0, <1>10, <2>1, <2>3 DEF PostTask, work
  <2> QED BY <2>2, <2>3
<1>11. ASSUME NEW i \in Isolates, NEW c, NEW m, NEW sync, NEW ok, Command(i, c, m, sync, ok) PROVE RowsKept
  <2>1. UNCHANGED workload /\ workload # "intakes" /\ (tasks' = Append(tasks, CommandTask(m)) \/ tasks' = tasks)
    BY <1>11 DEF Command, Request
  <2> QED BY <1>0, <1>2, <2>1, NewRows
<1>12. ASSUME NEW i \in Isolates, NEW c, NothingToExecute(i, c) \/ SyncReview(i, c) \/ SyncFail(i, c) PROVE RowsKept
  BY <1>0, <1>12 DEF NothingToExecute, SyncReview, SyncFail, work
<1>13. ASSUME NEW i \in Isolates, NEW c, NEW t \in DOMAIN tasks, NEW result \in Results, SyncExecute(i, c, t, result)
       PROVE  RowsKept
  <2>1. UNCHANGED workload /\ tasks' = [tasks EXCEPT ![t] = Ended(tasks[t], result)]
    BY <1>13 DEF SyncExecute
  <2> QED BY <1>1, <1>3, <2>1, EndedRows
<1>14. ASSUME NEW t \in DOMAIN tasks, PostRetry(t) \/ PostCancel(t) \/ WorkerTakes(t) \/ LeaseExpires(t) PROVE RowsKept
  <2>1. PICK row \in Row : tasks' = [tasks EXCEPT ![t] = row] /\ UNCHANGED workload
    <3>1. CASE PostRetry(t)
      <4>1. [tasks[t] EXCEPT !.status = "QUEUED", !.fresh = TRUE] \in Row
        BY <1>3 DEF Row
      <4> QED BY <3>1, <4>1 DEF PostRetry
    <3>2. CASE PostCancel(t)
      <4>1. [tasks[t] EXCEPT !.status = "CANCELLED", !.fresh = TRUE] \in Row
        BY <1>3 DEF Row
      <4> QED BY <3>2, <4>1 DEF PostCancel
    <3>3. CASE WorkerTakes(t)
      <4>1. [tasks[t] EXCEPT !.status = "RUNNING", !.held = TRUE, !.fresh = TRUE] \in Row
        BY <1>3 DEF Row
      <4> QED BY <3>3, <4>1 DEF WorkerTakes
    <3>4. CASE LeaseExpires(t)
      <4>1. [tasks[t] EXCEPT !.fresh = FALSE] \in Row
        BY <1>3 DEF Row
      <4> QED BY <3>4, <4>1 DEF LeaseExpires
    <3> QED BY <1>14, <3>1, <3>2, <3>3, <3>4
  <2> QED BY <1>1, <2>1
<1>15. ASSUME NEW t \in DOMAIN tasks, NEW result \in Results, WorkerEnds(t, result) PROVE RowsKept
  <2>1. UNCHANGED workload /\ tasks' = [tasks EXCEPT ![t] = Ended(tasks[t], result)]
    BY <1>15 DEF WorkerEnds
  <2> QED BY <1>1, <1>3, <2>1, EndedRows
<1>16. ASSUME NEW ok, TriggerContainer(ok) \/ RenewActivity PROVE RowsKept
  BY <1>0, <1>16 DEF TriggerContainer, RenewActivity
<1>17. ASSUME NEW ok, Alarm(ok) PROVE RowsKept
  <2> DEFINE F(t) == IF t \in Stale THEN [tasks[t] EXCEPT !.status = "QUEUED", !.fresh = TRUE] ELSE tasks[t]
  <2>1. \A t \in DOMAIN tasks : F(t) \in Row
    BY <1>3 DEF Row
  <2>2. UNCHANGED workload /\ (tasks' = [t \in DOMAIN tasks |-> F(t)] \/ tasks' = tasks)
    BY <1>17 DEF Alarm
  <2> HIDE DEF F
  <2> QED BY <1>0, <2>1, <2>2, RowsReplaced DEF RowsKept
<1>18. ASSUME OnActivityExpired \/ ContainerCrash PROVE RowsKept
  <2> DEFINE F(t) == [tasks[t] EXCEPT !.held = FALSE]
  <2>1. \A t \in DOMAIN tasks : F(t) \in Row
    BY <1>3 DEF Row
  <2>2. UNCHANGED workload /\ tasks' = [t \in DOMAIN tasks |-> F(t)]
    BY <1>18 DEF OnActivityExpired, ContainerCrash, Down
  <2> HIDE DEF F
  <2> QED BY <2>1, <2>2, RowsReplaced DEF RowsKept
<1> QED BY <1>4, <1>5, <1>6, <1>7, <1>8, <1>9, <1>10, <1>11, <1>12, <1>13, <1>14, <1>15, <1>16, <1>17, <1>18
        DEF Next, RowsKept

\* A line nobody is told about keeps its session and branch.
LineKept(t) == lineage'[t].branch = lineage[t].branch /\ lineage'[t].session = lineage[t].session

\* One call goes on, by itself and for its own promotion.
LEMMA CallMoves ==
  ASSUME PromotionInv, CallsTyped', NEW n \in DOMAIN calls, NEW c \in StepCall \cup PromotionCall,
         calls' = [calls EXCEPT ![n] = c],
         c.kind = calls[n].kind,
         c.kind = "promotion" => c.promo = calls[n].promo /\ c.late = calls[n].late,
         calls[n].pc # "marked",
         Len(lineage) <= Len(lineage'),
         \A m \in DOMAIN calls : m # n /\ calls[m].task # 0 => LineKept(calls[m].task),
         c.task = calls[n].task \/ c.task > Len(lineage),
         c.task \in 0..Len(lineage'),
         c.pc \in {"list", "create"} => c.task = 0,
         c.pc \in {"mark", "marked"} => c.task # 0,
         c.pc = "marked" => lineage'[c.task].branch = c.promo.branch /\ lineage'[c.task].session = c.promo.session,
         (c.kind = "promotion" /\ c.late /\ ~c.blind) => c.pc \in {"list", "known", "lost"} /\ c.task = 0
  PROVE  PromotionInv'
<1>1. /\ DOMAIN calls' = DOMAIN calls /\ calls'[n] = c
      /\ \A m \in DOMAIN calls : m # n => calls'[m] = calls[m]
      /\ \A m \in DOMAIN calls : calls[m] \in StepCall \cup PromotionCall
  BY DEF PromotionInv, CallsTyped
<1>2. lineage \in Seq(Line) /\ lineage' \in Seq(Line)
  BY DEF PromotionInv, CallsTyped
<1>3. \A p : Taken(p) => Taken(p)'
  <2> SUFFICES ASSUME NEW p, NEW m \in DOMAIN calls, calls[m].kind = "promotion", calls[m].promo = p, calls[m].pc = "marked"
               PROVE  Taken(p)'
    BY DEF Taken
  <2>1. m # n
    OBVIOUS
  <2> QED BY <1>1, <2>1 DEF Taken
<1>4. ASSUME NEW m \in DOMAIN calls, m # n
      PROVE  TaskFits(calls[m])' /\ MarkStays(calls[m])' /\ LateEnds(calls[m])'
  <2>1. calls'[m] = calls[m] /\ calls[m].task \in 0..Len(lineage)
    BY <1>1, <1>4 DEF PromotionInv, TaskFits
  <2>2. TaskFits(calls[m])'
    BY <1>2, <2>1 DEF PromotionInv, TaskFits
  <2>3. MarkStays(calls[m])'
    BY <1>4, <2>1 DEF PromotionInv, TaskFits, MarkStays, LineKept
  <2>4. LateEnds(calls[m])'
    BY <1>3, <2>1 DEF PromotionInv, LateEnds
  <2> QED BY <2>2, <2>3, <2>4
<1>5. TaskFits(calls[n])' /\ MarkStays(calls[n])' /\ LateEnds(calls[n])'
  <2>1. TaskFits(calls[n])' /\ MarkStays(calls[n])'
    BY <1>1 DEF TaskFits, MarkStays
  <2>2. LateEnds(calls[n])'
    BY <1>1, <1>3 DEF PromotionInv, LateEnds
  <2> QED BY <2>1, <2>2
<1>6. TasksAreOwned'
  <2>1. \A m \in DOMAIN calls : calls[m].task \in 0..Len(lineage)
    BY DEF PromotionInv, TaskFits
  <2>2. \A m \in DOMAIN calls : m # n /\ calls[m].task = c.task => calls[m].task = 0
    BY <1>2, <2>1 DEF PromotionInv, TasksAreOwned
  <2> QED BY <1>1, <2>2 DEF PromotionInv, TasksAreOwned
<1> QED BY <1>1, <1>4, <1>5, <1>6 DEF PromotionInv

\* A call that only changes its state, to one in which nothing is expected of it.
LEMMA CallGoes ==
  ASSUME PromotionInv, NEW n \in DOMAIN calls, NEW pc, UNCHANGED <<workload, lineage, tasks>>, Goes(n, pc),
         \/ calls[n] \in StepCall /\ pc \in {"announced", "failed"}
         \/ calls[n] \in PromotionCall /\ calls[n].pc \in {"create", "mark"} /\ pc \in {"failed", "unmarked"}
  PROVE  PromotionInv'
<1> DEFINE c == [calls[n] EXCEPT !.pc = pc]
<1>1. /\ c \in StepCall \cup PromotionCall /\ c.pc = pc /\ c.kind = calls[n].kind /\ c.task = calls[n].task
      /\ c.kind = "promotion" => /\ calls[n] \in PromotionCall /\ calls[n].pc \in {"create", "mark"}
                                 /\ c.promo = calls[n].promo /\ c.late = calls[n].late /\ c.blind = calls[n].blind
      /\ calls[n].pc # "marked"
  <2>1. CASE calls[n] \in StepCall /\ pc \in {"announced", "failed"}
    BY <2>1 DEF StepCall
  <2>2. CASE calls[n] \in PromotionCall /\ calls[n].pc \in {"create", "mark"} /\ pc \in {"failed", "unmarked"}
    BY <2>2 DEF PromotionCall
  <2> QED BY <2>1, <2>2
<1>2. calls' = [calls EXCEPT ![n] = c]
  BY DEF Goes
<1> HIDE DEF c
<1>3. CallsTyped'
  BY <1>1, <1>2 DEF PromotionInv, CallsTyped
<1>4. c.task \in 0..Len(lineage')
  BY <1>1 DEF PromotionInv, TaskFits
<1>5. ~(c.kind = "promotion" /\ c.late /\ ~c.blind)
  BY <1>1 DEF PromotionInv, LateEnds
<1>6. Len(lineage) <= Len(lineage') /\ \A m \in DOMAIN calls : LineKept(calls[m].task)
  BY DEF PromotionInv, CallsTyped, LineKept
<1> QED BY <1>1, <1>2, <1>3, <1>4, <1>5, <1>6, CallMoves

LEMMA ListTasksPreserves ==
  ASSUME PromotionInv, NEW n \in DOMAIN calls, NEW ok \in BOOLEAN, ListTasks(n, ok)
  PROVE  PromotionInv'
<1> DEFINE pc == IF ok /\ Existing(calls[n].promo) # {} THEN "known" ELSE "create"
           c == [calls[n] EXCEPT !.pc = pc, !.blind = ~ok]
<1>1. calls[n].pc = "list" /\ calls[n] \in PromotionCall
  <2>1. calls[n].pc = "list"
    BY DEF ListTasks
  <2>2. calls[n] \in StepCall \cup PromotionCall
    BY DEF PromotionInv, CallsTyped
  <2> QED BY <2>1, <2>2 DEF StepCall
<1>2. /\ c \in StepCall \cup PromotionCall /\ c.pc = pc /\ c.kind = calls[n].kind /\ c.task = calls[n].task
      /\ c.promo = calls[n].promo /\ c.late = calls[n].late /\ c.blind = ~ok /\ c.kind = "promotion"
  BY <1>1 DEF PromotionCall
<1>3. calls' = [calls EXCEPT ![n] = c] /\ UNCHANGED <<workload, tasks, lineage>>
  BY DEF ListTasks, work
<1>4. c.task = 0
  BY <1>1, <1>2 DEF PromotionInv, TaskFits
\* A late call finds the line of the call that was answered.
<1>5. ASSUME calls[n].late PROVE Existing(calls[n].promo) # {}
  <2>1. PICK m \in DOMAIN calls : calls[m].kind = "promotion" /\ calls[m].promo = calls[n].promo /\ calls[m].pc = "marked"
    BY <1>1, <1>5 DEF PromotionInv, LateEnds, Taken, PromotionCall
  <2>2. calls[m].task \in DOMAIN lineage
    BY <2>1 DEF PromotionInv, TaskFits, CallsTyped
  <2>3. lineage[calls[m].task].branch = calls[n].promo.branch /\ lineage[calls[m].task].session = calls[n].promo.session
    BY <2>1 DEF PromotionInv, MarkStays
  <2> QED BY <2>2, <2>3 DEF Existing
<1>6. (c.late /\ ~c.blind) => c.pc = "known"
  BY <1>2, <1>5
<1>7. pc \in {"known", "create"}
  OBVIOUS
<1> HIDE DEF c, pc
<1>8. CallsTyped'
  BY <1>2, <1>3 DEF PromotionInv, CallsTyped
<1>9. Len(lineage) <= Len(lineage') /\ 0 \in 0..Len(lineage') /\ \A m \in DOMAIN calls : LineKept(calls[m].task)
  BY <1>3 DEF PromotionInv, CallsTyped, LineKept
<1> QED BY <1>1, <1>2, <1>3, <1>4, <1>6, <1>7, <1>8, <1>9, CallMoves

LEMMA IntakePreserves ==
  ASSUME PromotionInv, NEW n \in DOMAIN calls, NEW ok \in BOOLEAN, IntakeEnds(n, ok)
  PROVE  PromotionInv'
<1>1. calls[n].pc = "create" /\ calls[n] \in StepCall \cup PromotionCall
  BY DEF IntakeEnds, PromotionInv, CallsTyped
<1>2. UNCHANGED workload
  BY DEF IntakeEnds
<1>3. CASE ~ok
  <2>1. Goes(n, "failed") /\ UNCHANGED <<workload, lineage, tasks>>
    BY <1>2, <1>3 DEF IntakeEnds
  <2> QED BY <1>1, <2>1, CallGoes
<1>4. CASE ok
  <2> DEFINE step == calls[n].kind = "step"
             line == IF step THEN Unmarked ELSE [Unmarked EXCEPT !.branch = calls[n].promo.branch]
             c == [calls[n] EXCEPT !.pc = IF step THEN "announce" ELSE "mark", !.task = Len(tasks) + 1]
  <2>1. /\ tasks' = Append(tasks, NewTask(1)) /\ lineage' = Append(lineage, line)
        /\ calls' = [calls EXCEPT ![n] = c]
    BY <1>4 DEF IntakeEnds
  <2>2. Len(tasks) \in Nat /\ Len(lineage) = Len(tasks) /\ lineage \in Seq(Line) /\ tasks \in Seq(Row)
    BY DEF PromotionInv, CallsTyped
  <2>3. line \in Line
    BY <1>1 DEF Line, Unmarked, StepCall, PromotionCall
  <2>4. /\ c \in StepCall \cup PromotionCall /\ c.kind = calls[n].kind /\ c.task = Len(tasks) + 1
        /\ c.kind = "promotion" => c.promo = calls[n].promo /\ c.late = calls[n].late /\ c.blind = calls[n].blind
        /\ c.pc \in {"announce", "mark"}
    <3>0. PICK k \in Nat : k = Len(tasks) + 1
      BY <2>2
    <3>1. CASE calls[n] \in StepCall
      <4>1. c = [calls[n] EXCEPT !.pc = "announce", !.task = k]
        BY <3>0, <3>1 DEF StepCall
      <4> HIDE DEF c
      <4>2. c \in StepCall /\ c.kind = "step" /\ calls[n].kind = "step" /\ c.task = k /\ c.pc = "announce"
        BY <3>1, <4>1 DEF StepCall
      <4> QED BY <3>0, <4>2
    <3>2. CASE calls[n] \in PromotionCall
      <4>1. c = [calls[n] EXCEPT !.pc = "mark", !.task = k]
        BY <3>0, <3>2 DEF PromotionCall
      <4> HIDE DEF c
      <4>2. /\ c \in PromotionCall /\ c.kind = calls[n].kind /\ c.task = k /\ c.pc = "mark"
            /\ c.promo = calls[n].promo /\ c.late = calls[n].late /\ c.blind = calls[n].blind
        BY <3>2, <4>1 DEF PromotionCall
      <4> QED BY <3>0, <4>2
    <3> QED BY <1>1, <3>1, <3>2
  <2>5. ~(c.kind = "promotion" /\ c.late /\ ~c.blind)
    BY <1>1, <2>4 DEF PromotionInv, LateEnds
  <2> HIDE DEF line, c, step
  <2>6. /\ tasks' \in Seq(Row) /\ lineage' \in Seq(Line) /\ Len(lineage') = Len(lineage) + 1 /\ Len(tasks') = Len(tasks) + 1
        /\ \A t \in 1..Len(lineage) : lineage'[t] = lineage[t]
    BY <2>1, <2>2, <2>3, NewRows
  <2>7. CallsTyped'
    BY <1>2, <2>1, <2>2, <2>4, <2>6 DEF PromotionInv, CallsTyped
  <2>8. \A m \in DOMAIN calls : calls[m].task # 0 => LineKept(calls[m].task)
    BY <2>2, <2>6 DEF PromotionInv, TaskFits, LineKept
  <2>9. Len(lineage) <= Len(lineage') /\ c.task > Len(lineage) /\ c.task \in 0..Len(lineage') /\ c.task # 0
    BY <2>2, <2>4, <2>6
  <2> QED BY <1>1, <2>1, <2>4, <2>5, <2>7, <2>8, <2>9, CallMoves
<1> QED BY <1>3, <1>4

LEMMA AnnouncePreserves ==
  ASSUME PromotionInv, NEW n \in DOMAIN calls, AnnounceStep(n)
  PROVE  PromotionInv'
<1>1. calls[n] \in StepCall
  BY DEF AnnounceStep, PromotionInv, CallsTyped, PromotionCall
<1>2. Goes(n, "announced") /\ UNCHANGED <<workload, lineage, tasks>>
  BY DEF AnnounceStep, work
<1> QED BY <1>1, <1>2, CallGoes

LEMMA MarkPreserves ==
  ASSUME PromotionInv, NEW n \in DOMAIN calls, NEW ok \in BOOLEAN, MarkTask(n, ok)
  PROVE  PromotionInv'
<1>1. calls[n].pc = "mark" /\ calls[n] \in PromotionCall
  <2>1. calls[n].pc = "mark"
    BY DEF MarkTask
  <2>2. calls[n] \in StepCall \cup PromotionCall
    BY DEF PromotionInv, CallsTyped
  <2> QED BY <2>1, <2>2 DEF StepCall
<1>2. UNCHANGED <<workload, tasks>>
  BY DEF MarkTask, work
<1>3. CASE ~ok
  <2>1. Goes(n, "unmarked") /\ UNCHANGED <<workload, lineage, tasks>>
    BY <1>2, <1>3 DEF MarkTask
  <2> QED BY <1>1, <2>1, CallGoes
<1>4. CASE ok
  <2> DEFINE promo == calls[n].promo
             line == [promo |-> promo.id, session |-> promo.session, branch |-> promo.branch]
             c == [calls[n] EXCEPT !.pc = "marked"]
  <2>1. calls' = [calls EXCEPT ![n] = c] /\ lineage' = [lineage EXCEPT ![calls[n].task] = line]
    BY <1>4 DEF MarkTask, Goes
  <2>2. /\ c \in StepCall \cup PromotionCall /\ c.kind = calls[n].kind /\ c.task = calls[n].task /\ c.pc = "marked"
        /\ c.promo = calls[n].promo /\ c.late = calls[n].late /\ c.blind = calls[n].blind
    BY <1>1 DEF PromotionCall
  <2>3. lineage \in Seq(Line) /\ line \in Line /\ line.session = promo.session /\ line.branch = promo.branch
    BY <1>1 DEF Line, PromotionCall, PromotionInv, CallsTyped
  <2>4. calls[n].task \in DOMAIN lineage /\ calls[n].task # 0
    BY <1>1, <2>3 DEF PromotionInv, TaskFits
  <2>5. ~(c.kind = "promotion" /\ c.late /\ ~c.blind)
    BY <1>1, <2>2 DEF PromotionInv, LateEnds, PromotionCall
  <2> HIDE DEF line, c
  <2>6. /\ lineage' \in Seq(Line) /\ Len(lineage') = Len(lineage) /\ lineage'[calls[n].task] = line
        /\ \A t : t # calls[n].task /\ t \in DOMAIN lineage => lineage'[t] = lineage[t]
    BY <2>1, <2>3, <2>4
  <2>7. CallsTyped'
    BY <1>2, <2>1, <2>2, <2>6 DEF PromotionInv, CallsTyped
  <2>8. \A m \in DOMAIN calls : m # n /\ calls[m].task # 0 => LineKept(calls[m].task)
    <3> SUFFICES ASSUME NEW m \in DOMAIN calls, m # n, calls[m].task # 0 PROVE LineKept(calls[m].task)
      OBVIOUS
    <3>1. calls[m].task # calls[n].task /\ calls[m].task \in DOMAIN lineage
      BY <2>3 DEF PromotionInv, TasksAreOwned, TaskFits
    <3> QED BY <2>6, <3>1 DEF LineKept
  <2>9. Len(lineage) <= Len(lineage') /\ c.task \in 0..Len(lineage') /\ c.task # 0
    BY <2>2, <2>3, <2>4, <2>6
  <2> QED BY <1>1, <2>1, <2>2, <2>3, <2>5, <2>6, <2>7, <2>8, <2>9, CallMoves, ZenonT(60)
<1> QED BY <1>3, <1>4

\* A restart loses the calls under way and nothing they have done.
LEMMA RestartPreserves ==
  ASSUME PromotionInv, Restart
  PROVE  PromotionInv'
<1> DEFINE Lost(c) == IF c.pc \in {"list", "create", "announce", "mark"} THEN [c EXCEPT !.pc = "lost"] ELSE c
<1>1. calls' = [n \in DOMAIN calls |-> Lost(calls[n])] /\ UNCHANGED <<workload, tasks, lineage>>
  BY DEF Restart, work
<1>2. ASSUME NEW n \in DOMAIN calls
      PROVE  LET c == Lost(calls[n])
             IN  /\ c \in StepCall \cup PromotionCall
                 /\ c.kind = calls[n].kind /\ c.task = calls[n].task /\ (c.pc = calls[n].pc \/ c.pc = "lost")
                 /\ calls[n].pc = "marked" => c = calls[n]
                 /\ c.kind = "promotion" => /\ calls[n] \in PromotionCall
                                            /\ c.promo = calls[n].promo /\ c.late = calls[n].late /\ c.blind = calls[n].blind
  <2>1. CASE calls[n] \in StepCall
    BY <2>1 DEF StepCall
  <2>2. CASE calls[n] \in PromotionCall
    BY <2>2 DEF PromotionCall
  <2> QED BY <2>1, <2>2 DEF PromotionInv, CallsTyped
<1>3. \A p : Taken(p) => Taken(p)'
  BY <1>1, <1>2 DEF Taken
<1> HIDE DEF Lost
<1>4. CallsTyped'
  BY <1>1, <1>2 DEF PromotionInv, CallsTyped
<1>5. TasksAreOwned'
  BY <1>1, <1>2 DEF PromotionInv, TasksAreOwned
<1>6. ASSUME NEW n \in DOMAIN calls
      PROVE  TaskFits(calls[n])' /\ MarkStays(calls[n])' /\ LateEnds(calls[n])'
  <2>1. TaskFits(calls[n]) /\ MarkStays(calls[n]) /\ LateEnds(calls[n])
    BY DEF PromotionInv
  <2>2. calls'[n] = Lost(calls[n])
    BY <1>1
  <2>3. TaskFits(calls[n])' /\ MarkStays(calls[n])'
    BY <1>1, <1>2, <2>1, <2>2 DEF TaskFits, MarkStays
  <2>4. LateEnds(calls[n])'
    BY <1>2, <1>3, <2>1, <2>2 DEF LateEnds
  <2> QED BY <2>3, <2>4
<1> QED BY <1>1, <1>4, <1>5, <1>6 DEF PromotionInv

\* A new call has no task yet, and is late only if it is.
LEMMA WaitingPreserves ==
  ASSUME PromotionInv, NEW c \in StepCall \cup PromotionCall, Waiting(c), c.task = 0, c.pc \in {"list", "create"},
         c.kind = "promotion" => c.pc = "list" /\ (c.late => Taken(c.promo))
  PROVE  PromotionInv'
<1>1. /\ workload = "intakes" /\ calls' = Append(calls, c) /\ UNCHANGED <<workload, tasks, lineage>>
  BY DEF Waiting, Request, work
<1>2. /\ calls \in Seq(StepCall \cup PromotionCall) /\ calls' \in Seq(StepCall \cup PromotionCall)
      /\ DOMAIN calls' = DOMAIN calls \cup {Len(calls) + 1} /\ calls'[Len(calls) + 1] = c
      /\ \A m \in DOMAIN calls : calls'[m] = calls[m]
  BY <1>1 DEF PromotionInv, CallsTyped
<1>3. CallsTyped'
  BY <1>1, <1>2 DEF PromotionInv, CallsTyped
<1>4. TasksAreOwned'
  BY <1>2 DEF PromotionInv, TasksAreOwned
<1>5. \A p : Taken(p) => Taken(p)'
  BY <1>2 DEF Taken
<1>6. ASSUME NEW n \in DOMAIN calls PROVE TaskFits(calls[n])' /\ MarkStays(calls[n])' /\ LateEnds(calls[n])'
  <2>1. TaskFits(calls[n]) /\ MarkStays(calls[n]) /\ LateEnds(calls[n]) /\ calls'[n] = calls[n]
    BY <1>2 DEF PromotionInv
  <2>2. TaskFits(calls[n])' /\ MarkStays(calls[n])'
    BY <1>1, <2>1 DEF TaskFits, MarkStays
  <2>3. LateEnds(calls[n])'
    BY <1>5, <2>1 DEF LateEnds
  <2> QED BY <2>2, <2>3
<1>7. ASSUME NEW n, calls'[n] = c PROVE TaskFits(calls[n])' /\ MarkStays(calls[n])' /\ LateEnds(calls[n])'
  <2>1. 0 \in 0..Len(lineage')
    BY <1>1 DEF PromotionInv, CallsTyped
  <2>2. TaskFits(calls[n])' /\ MarkStays(calls[n])'
    BY <1>7, <2>1 DEF TaskFits, MarkStays
  <2>3. LateEnds(calls[n])'
    BY <1>5, <1>7 DEF LateEnds
  <2> QED BY <2>2, <2>3
<1>8. \A n \in DOMAIN calls' : n \in DOMAIN calls \/ calls'[n] = c
  BY <1>2
<1> QED BY <1>3, <1>4, <1>6, <1>7, <1>8 DEF PromotionInv

\* A worker that ends a task leaves its session and branch.
LEMMA OverwritePreserves ==
  ASSUME PromotionInv, NEW t \in DOMAIN tasks, WorkerOverwrites(t)
  PROVE  PromotionInv'
<1>1. /\ workload = "intakes" /\ UNCHANGED <<workload, calls>> /\ tasks' = [tasks EXCEPT ![t] = Ended(@, "clean")]
      /\ lineage' = [lineage EXCEPT ![t].promo = "none"]
  BY DEF WorkerOverwrites
<1>2. tasks \in Seq(Row) /\ lineage \in Seq(Line) /\ Len(lineage) = Len(tasks)
  BY <1>1 DEF PromotionInv, CallsTyped
<1>3. Ended(tasks[t], "clean") \in Row
  BY <1>2, EndedRows
<1>4. tasks' \in Seq(Row) /\ Len(tasks') = Len(tasks)
  BY <1>1, <1>2, <1>3
<1>5. PICK line \in Line : /\ line.session = lineage[t].session /\ line.branch = lineage[t].branch
                           /\ lineage' = [lineage EXCEPT ![t] = line]
  <2>1. lineage[t] \in Line
    BY <1>2
  <2>2. [lineage[t] EXCEPT !.promo = "none"] \in Line
    BY <2>1 DEF Line
  <2> QED BY <1>1, <2>1, <2>2 DEF Line
<1>6. lineage' \in Seq(Line) /\ Len(lineage') = Len(lineage) /\ \A u \in DOMAIN lineage : LineKept(u)
  BY <1>2, <1>5 DEF LineKept
<1>7. CallsTyped' /\ TasksAreOwned'
  BY <1>1, <1>2, <1>4, <1>6 DEF PromotionInv, CallsTyped, TasksAreOwned
<1>8. ASSUME NEW n \in DOMAIN calls PROVE TaskFits(calls[n])' /\ MarkStays(calls[n])' /\ LateEnds(calls[n])'
  <2>1. TaskFits(calls[n]) /\ MarkStays(calls[n]) /\ LateEnds(calls[n]) /\ calls'[n] = calls[n]
    BY <1>1 DEF PromotionInv
  <2>2. TaskFits(calls[n])' /\ MarkStays(calls[n])'
    BY <1>2, <1>6, <2>1 DEF TaskFits, MarkStays, LineKept
  <2>3. LateEnds(calls[n])'
    BY <1>1, <2>1 DEF LateEnds, Taken
  <2> QED BY <2>2, <2>3
<1> QED BY <1>1, <1>7, <1>8 DEF PromotionInv

LEMMA PostIngestPreserves ==
  ASSUME PromotionInv, NEW p \in Promotions, PostIngest(p)
  PROVE  PromotionInv'
<1>1. PICK late \in BOOLEAN : late = Taken(p)
  BY DEF Taken
<1> DEFINE c == [kind |-> "promotion", promo |-> p, pc |-> "list", task |-> 0, late |-> late, blind |-> FALSE]
<1>2. Waiting(c)
  BY <1>1 DEF PostIngest
<1>3. c \in PromotionCall /\ c.task = 0 /\ c.pc = "list" /\ (c.late => Taken(c.promo))
  BY <1>1 DEF PromotionCall
<1> HIDE DEF c
<1> QED BY <1>2, <1>3, WaitingPreserves

LEMMA PostExecuteStepPreserves ==
  ASSUME PromotionInv, NEW given \in Plans, NEW k \in DOMAIN CreateOrganizationalPlan(given).deps, PostExecuteStep(given, k)
  PROVE  PromotionInv'
<1> DEFINE c == [kind |-> "step", plan |-> CreateOrganizationalPlan(given), step |-> k, pc |-> "create", task |-> 0]
<1>1. Waiting(c)
  BY DEF PostExecuteStep
<1>2. c \in StepCall /\ c.task = 0 /\ c.pc = "create" /\ c.kind = "step"
  BY DEF StepCall
<1> HIDE DEF c
<1> QED BY <1>1, <1>2, WaitingPreserves

LEMMA ServerPreserves == PromotionInv /\ ServerNext => PromotionInv'
<1> SUFFICES ASSUME PromotionInv, ServerNext PROVE PromotionInv'
  OBVIOUS
<1>0. ASSUME UNCHANGED <<workload, tasks, lineage, calls>> PROVE PromotionInv'
  BY <1>0, PromotionUntouched DEF PromotionInv, CallsTyped
<1>1. ASSUME NEW c \in Clients, NEW kept, OpenStream(c) \/ CloseStream(c, kept) PROVE PromotionInv'
  BY <1>0, <1>1 DEF OpenStream, CloseStream, vars, work
<1>2. ASSUME NEW project, NEW t, NEW evidence, NEW n, NEW role, NEW d,
             \/ ServerPlan(project) \/ ServerRequestApproval(project) \/ ServerReview(t, evidence, project)
             \/ ServerDecideApproval(n, role, d)
      PROVE  PromotionInv'
  BY <1>0, <1>2 DEF ServerPlan, ServerRequestApproval, ServerReview, ServerDecideApproval, work
<1>3. ASSUME NEW given, NEW n, NEW k, NEW d,
             ServerPostPipeline(given) \/ ServerPostTick(n) \/ ServerDecideCheckpoint(n, k, d)
      PROVE  PromotionInv'
  BY <1>0, <1>3 DEF ServerPostPipeline, ServerPostTick, ServerDecideCheckpoint, PipelineStep, work
<1> QED BY <1>1, <1>2, <1>3, RestartPreserves, PostExecuteStepPreserves, PostIngestPreserves, ListTasksPreserves,
           IntakePreserves, AnnouncePreserves, MarkPreserves, OverwritePreserves DEF ServerNext

LEMMA PromotionStep == PromotionInv /\ [SystemNext]_systemVars => PromotionInv'
<1> SUFFICES ASSUME PromotionInv, [SystemNext]_systemVars PROVE PromotionInv'
  OBVIOUS
<1>1. ASSUME Next, UNCHANGED serverVars PROVE PromotionInv'
  <2>1. tasks \in Seq(Row)
    BY DEF PromotionInv, CallsTyped
  <2> QED BY <1>1, <2>1, OfficeKeepsRows, PromotionUntouched DEF serverVars
<1>2. ASSUME UNCHANGED <<workload, tasks, lineage, calls>> PROVE PromotionInv'
  BY <1>2, PromotionUntouched DEF PromotionInv, CallsTyped
<1>3. ASSUME LettersNext, UNCHANGED serverVars PROVE PromotionInv'
  BY <1>2, <1>3 DEF LettersNext, RestartProcess, Record, Resolve, serverVars, work
<1>4. ASSUME ContextNext, UNCHANGED serverVars PROVE PromotionInv'
  BY <1>2, <1>4 DEF ContextNext, AssembleContext, BuildDecision, serverVars, vars, work
<1>5. CASE UNCHANGED systemVars
  BY <1>2, <1>5 DEF systemVars, vars, work, serverVars
<1> QED BY <1>1, <1>3, <1>4, <1>5, ServerPreserves DEF SystemNext

\* A promotion that has been answered is not taken in again, for any promotions, requests, restarts and workers
\* that overwrite results, unless the list of the tasks failed (PdlTaskIngestionAdapter.ingest).
THEOREM AnsweredPromotionsStayTaken == SystemSpec => []PromotionIsTakenOnce
<1>1. SystemInit => PromotionInv
  BY PromotionInitially
<1>2. PromotionInv /\ [SystemNext]_systemVars => PromotionInv'
  BY PromotionStep
<1>3. PromotionInv => PromotionIsTakenOnce
  BY DEF PromotionInv, LateEnds, PromotionIsTakenOnce
<1> QED BY <1>1, <1>2, <1>3, PTL DEF SystemSpec, systemVars

-----------------------------------------------------------------------------
(* Pipelines *)

Step == [deps : SUBSET Nat, chk : {"NONE", "PENDING", "GRANTED", "REJECTED"},
         status : {"READY", "WAITING_DEPENDENCY", "WAITING_APPROVAL", "FAILED", "COMPLETED"}]

Pipeline == [status : {"PLANNING", "RUNNING", "WAITING_APPROVAL", "COMPLETED", "FAILED"}, completed : Nat,
             steps : Seq(Step)]

\* Under way, it has released only steps whose dependencies are done and whose checkpoint is not pending.
Cleared(p) ==
  p.status \in {"RUNNING", "WAITING_APPROVAL"} =>
    \A k \in DOMAIN p.steps : p.steps[k].status = "READY" =>
      p.steps[k].deps \subseteq Done(p) /\ p.steps[k].chk # "PENDING"

LEMMA SequenceOf ==
  ASSUME NEW S, NEW n \in Nat, NEW f, f = [i \in 1..n |-> f[i]], \A i \in 1..n : f[i] \in S
  PROVE  f \in Seq(S)
<1>1. f \in [1..n -> S]
  OBVIOUS
<1> QED BY <1>1, Z3

LEMMA MemberOf == ASSUME NEW S, NEW s \in Seq(S), NEW i \in DOMAIN s PROVE s[i] \in S
  OBVIOUS

LEMMA TickedStep ==
  ASSUME NEW step \in Step, NEW done
  PROVE  /\ Ticked(step, done) \in Step
         /\ Ticked(step, done).deps = step.deps /\ Ticked(step, done).chk = step.chk
         /\ step.status = "COMPLETED" => Ticked(step, done).status = "COMPLETED"
         /\ Ticked(step, done).status = "READY" => step.deps \subseteq done /\ step.chk # "PENDING"
<1>1. CASE step.status = "COMPLETED"
  BY <1>1 DEF Ticked, Step
<1>2. CASE step.status # "COMPLETED" /\ ~(step.deps \subseteq done)
  BY <1>2 DEF Ticked, Step
<1>3. CASE step.status # "COMPLETED" /\ step.deps \subseteq done
  <2> DEFINE next == CASE step.chk = "PENDING" -> "WAITING_APPROVAL"
                       [] step.chk = "REJECTED" -> "FAILED"
                       [] OTHER -> IF step.status \in {"WAITING_DEPENDENCY", "PENDING"} THEN "READY" ELSE step.status
  <2>1. Ticked(step, done) = [step EXCEPT !.status = next]
    BY <1>3 DEF Ticked
  <2>2. /\ next \in {"READY", "WAITING_DEPENDENCY", "WAITING_APPROVAL", "FAILED", "COMPLETED"}
        /\ next = "READY" => step.chk # "PENDING"
    BY DEF Step
  <2> HIDE DEF next
  <2> QED BY <1>3, <2>1, <2>2 DEF Step
<1> QED BY <1>1, <1>2, <1>3

LEMMA DoneIsFinite == ASSUME NEW p \in Pipeline PROVE Cardinality(Done(p)) \in Nat
<1>1. DOMAIN p.steps = 1..Len(p.steps) /\ Len(p.steps) \in Nat
  BY DEF Pipeline
<1>2. IsFiniteSet(1..Len(p.steps))
  BY <1>1, FS_Interval
<1>3. IsFiniteSet(Done(p))
  BY <1>1, <1>2, FS_Subset DEF Done
<1> QED BY <1>3, FS_CardinalityType

\* A tick clears whatever it leaves under way.
LEMMA TickClears == ASSUME NEW p \in Pipeline PROVE TickPipeline(p) \in Pipeline /\ Cleared(TickPipeline(p))
<1> DEFINE done == Done(p)
           steps == [i \in DOMAIN p.steps |-> Ticked(p.steps[i], done)]
           rejected == {i \in DOMAIN steps : steps[i].status = "FAILED"}
           cut == {i \in DOMAIN steps : \A r \in rejected : i <= r}
           some == [i \in DOMAIN steps |-> IF i \in cut THEN steps[i] ELSE p.steps[i]]
           status == CASE done = DOMAIN steps -> "COMPLETED"
                       [] done # DOMAIN steps /\ \E i \in DOMAIN steps : steps[i].status = "WAITING_APPROVAL" -> "WAITING_APPROVAL"
                       [] OTHER -> "RUNNING"
<1>1. \A i \in DOMAIN p.steps : p.steps[i] \in Step
  BY DEF Pipeline
<1>2. /\ DOMAIN steps = DOMAIN p.steps
      /\ \A i \in DOMAIN p.steps : steps[i] = Ticked(p.steps[i], done)
      /\ \A i \in DOMAIN p.steps : steps[i] \in Step
  BY <1>1, TickedStep
<1>3. steps \in Seq(Step) /\ some \in Seq(Step)
  <2>1. p.steps \in Seq(Step) /\ DOMAIN p.steps = 1..Len(p.steps) /\ Len(p.steps) \in Nat
    BY DEF Pipeline
  <2>2. DOMAIN some = DOMAIN p.steps /\ \A i \in DOMAIN p.steps : some[i] \in Step
    BY <1>1, <1>2
  <2>3. steps = [i \in 1..Len(p.steps) |-> steps[i]]
    BY <2>1
  <2> HIDE DEF steps
  <2>4. some = [i \in 1..Len(p.steps) |-> some[i]]
    BY <1>2, <2>1
  <2> HIDE DEF some
  <2>5. steps \in Seq(Step)
    BY <1>2, <2>1, <2>3, SequenceOf
  <2>6. some \in Seq(Step)
    BY <2>1, <2>2, <2>4, SequenceOf
  <2> QED BY <2>5, <2>6
<1>4. status \in {"COMPLETED", "WAITING_APPROVAL", "RUNNING"}
  OBVIOUS
<1>5. TickPipeline(p) = IF Final(p) THEN p
                        ELSE IF rejected # {} THEN [p EXCEPT !.steps = some, !.status = "FAILED"]
                        ELSE [p EXCEPT !.steps = steps, !.completed = Cardinality(done), !.status = status]
  BY DEF TickPipeline
<1>6. Cardinality(done) \in Nat
  BY DoneIsFinite
<1> HIDE DEF some, status, rejected
<1>7. CASE Final(p)
  BY <1>5, <1>7 DEF Final, Cleared
<1>8. CASE ~Final(p) /\ rejected # {}
  <2>1. TickPipeline(p) = [p EXCEPT !.steps = some, !.status = "FAILED"]
    BY <1>5, <1>8
  <2> QED BY <1>3, <2>1 DEF Pipeline, Cleared
<1>9. CASE ~Final(p) /\ rejected = {}
  <2> DEFINE q == TickPipeline(p)
  <2>1. q = [p EXCEPT !.steps = steps, !.completed = Cardinality(done), !.status = status]
    BY <1>5, <1>9
  <2> HIDE DEF q, steps, done
  <2>2. q \in Pipeline /\ q.steps = steps
    BY <1>3, <1>4, <1>6, <2>1 DEF Pipeline
  <2>3. done \subseteq Done(q)
    <3> SUFFICES ASSUME NEW i \in done PROVE i \in Done(q)
      OBVIOUS
    <3>1. i \in DOMAIN p.steps /\ p.steps[i] \in Step /\ p.steps[i].status = "COMPLETED"
      BY <1>1 DEF Done, done
    <3>2. Ticked(p.steps[i], done).status = "COMPLETED"
      BY <3>1, TickedStep
    <3> QED BY <1>2, <2>2, <3>1, <3>2 DEF Done
  <2>4. Cleared(q)
    BY <1>1, <1>2, <2>2, <2>3, TickedStep DEF Cleared
  <2> QED BY <2>2, <2>4 DEF q
<1> QED BY <1>7, <1>8, <1>9

LEMMA DecisionClears ==
  ASSUME NEW p \in Pipeline, NEW i \in DOMAIN p.steps, NEW choice
  PROVE  DecideCheckpoint(p, i, choice) \in Pipeline /\ Cleared(DecideCheckpoint(p, i, choice))
<1> DEFINE chk == IF choice = "GRANT" THEN "GRANTED" ELSE "REJECTED"
           fate == IF choice = "GRANT" THEN "READY" ELSE "FAILED"
           step == [p.steps[i] EXCEPT !.chk = chk, !.status = fate]
           decided == [p EXCEPT !.steps = [p.steps EXCEPT ![i] = step],
                                !.status = IF choice = "GRANT" THEN p.status ELSE "FAILED"]
<1>1. DecideCheckpoint(p, i, choice) = TickPipeline(decided)
  BY DEF DecideCheckpoint, Pipeline
<1>2. chk \in {"GRANTED", "REJECTED"} /\ fate \in {"READY", "FAILED"}
  OBVIOUS
<1> HIDE DEF chk, fate
<1>3. step \in Step
  <2>1. p.steps[i] \in Step
    BY DEF Pipeline
  <2> QED BY <1>2, <2>1 DEF Step
<1> HIDE DEF step
<1>4. [p.steps EXCEPT ![i] = step] \in Seq(Step)
  BY <1>3 DEF Pipeline
<1>5. decided \in Pipeline
  BY <1>4 DEF Pipeline
<1> QED BY <1>1, <1>5, TickClears

LEMMA CompletionClears ==
  ASSUME NEW p \in Pipeline, NEW i \in DOMAIN p.steps
  PROVE  CompleteStep(p, i) \in Pipeline /\ Cleared(CompleteStep(p, i))
<1> DEFINE step == [p.steps[i] EXCEPT !.status = "COMPLETED"]
           completed == [p EXCEPT !.steps = [p.steps EXCEPT ![i] = step]]
<1>1. CompleteStep(p, i) = TickPipeline(completed)
  BY DEF CompleteStep, Pipeline
<1>2. step \in Step
  <2>1. p.steps[i] \in Step
    BY DEF Pipeline
  <2> QED BY <2>1 DEF Step
<1> HIDE DEF step
<1>3. [p.steps EXCEPT ![i] = step] \in Seq(Step)
  BY <1>2 DEF Pipeline
<1>4. completed \in Pipeline
  BY <1>3 DEF Pipeline
<1> QED BY <1>1, <1>4, TickClears

LEMMA CreationClears ==
  ASSUME NEW given \in Pipelines
  PROVE  CreatePipeline(given) \in Pipeline /\ Cleared(CreatePipeline(given))
<1> DEFINE first(i) == [deps |-> given[i].deps, chk |-> IF given[i].chk THEN "PENDING" ELSE "NONE",
                        status |-> IF given[i].deps = {} THEN "READY" ELSE "WAITING_DEPENDENCY"]
           steps == [i \in DOMAIN given |-> first(i)]
<1>1. given \in Seq([deps : SUBSET Nat, chk : BOOLEAN])
  BY PipelinesAssumption
<1>2. ASSUME NEW i \in DOMAIN given PROVE first(i) \in Step
  <2> DEFINE chk == IF given[i].chk THEN "PENDING" ELSE "NONE"
             status == IF given[i].deps = {} THEN "READY" ELSE "WAITING_DEPENDENCY"
  <2>1. given[i].deps \in SUBSET Nat
    <3>1. given[i] \in [deps : SUBSET Nat, chk : BOOLEAN]
      BY <1>1, MemberOf
    <3> QED BY <3>1
  <2>2. chk \in {"PENDING", "NONE"} /\ status \in {"READY", "WAITING_DEPENDENCY"}
    OBVIOUS
  <2> HIDE DEF chk, status
  <2>3. [deps |-> given[i].deps, chk |-> chk, status |-> status] \in Step
    BY <2>1, <2>2 DEF Step
  <2> QED BY <2>3 DEF chk, status
<1> HIDE DEF first
<1>3. steps \in Seq(Step)
  BY <1>1, <1>2
<1>4. CreatePipeline(given) = [status |-> "PLANNING", completed |-> 0, steps |-> steps]
  BY DEF CreatePipeline, first
<1> HIDE DEF steps
<1> QED BY <1>3, <1>4 DEF Pipeline, Cleared

ClearedPipeline == {p \in Pipeline : Cleared(p)}

\* A memory, of an isolate or of the server, that holds only such pipelines.
Board(memory) == "pipelines" \in DOMAIN memory /\ memory.pipelines \in Seq(ClearedPipeline)

PipelineInv == mem = [i \in Isolates |-> mem[i]] /\ (\A i \in Isolates : Board(mem[i])) /\ Board(server)

LEMMA BoardsInitially == SystemInit => PipelineInv
<1> SUFFICES ASSUME SystemInit PROVE PipelineInv
  OBVIOUS
<1>1. mem = [i \in Isolates |-> Fresh] /\ server = Listen(0)
  BY DEF SystemInit, ServerInit, Init
<1>2. Board(Fresh)
  BY DEF Board, Fresh
<1>3. Board(Listen(0))
  BY DEF Board, Listen
<1> QED BY <1>1, <1>2, <1>3 DEF PipelineInv

LEMMA BoardReplaced ==
  ASSUME PipelineInv, NEW i \in Isolates, NEW memory, Board(memory), mem' = [mem EXCEPT ![i] = memory],
         UNCHANGED server
  PROVE  PipelineInv'
  BY DEF PipelineInv, Board

\* What isolates do otherwise leaves their pipelines alone.
LEMMA BoardsKept ==
  ASSUME PipelineInv, mem' = [i \in Isolates |-> mem'[i]], UNCHANGED server,
         \A i \in Isolates : DOMAIN mem'[i] = DOMAIN mem[i] /\ mem'[i].pipelines = mem[i].pipelines
  PROVE  PipelineInv'
  BY DEF PipelineInv, Board

LEMMA OfficeClears ==
  ASSUME PipelineInv, Next, UNCHANGED server
  PROVE  PipelineInv'
<1>0. ASSUME UNCHANGED mem PROVE PipelineInv'
  BY <1>0 DEF PipelineInv, Board
<1>1. ASSUME mem' = [i \in Isolates |-> mem'[i]],
             \A i \in Isolates : DOMAIN mem'[i] = DOMAIN mem[i] /\ mem'[i].pipelines = mem[i].pipelines
      PROVE  PipelineInv'
  BY <1>1, BoardsKept
<1>2. ASSUME NEW i \in Isolates
      PROVE  /\ "pipelines" \in DOMAIN mem[i] /\ mem[i].pipelines \in Seq(ClearedPipeline)
             /\ \A n \in DOMAIN mem[i].pipelines : mem[i].pipelines[n] \in Pipeline
             /\ mem = [j \in Isolates |-> mem[j]]
  BY DEF PipelineInv, Board, ClearedPipeline
\* One pipeline of an isolate changes.
<1>3. ASSUME NEW i \in Isolates, NEW n \in DOMAIN mem[i].pipelines, NEW p \in Pipeline, Cleared(p),
             mem' = [mem EXCEPT ![i].pipelines[n] = p]
      PROVE  PipelineInv'
  <2> DEFINE memory == [mem[i] EXCEPT !.pipelines = [mem[i].pipelines EXCEPT ![n] = p]]
  <2>1. mem' = [mem EXCEPT ![i] = memory]
    BY <1>3 DEF PipelineInv
  <2>2. [mem[i].pipelines EXCEPT ![n] = p] \in Seq(ClearedPipeline)
    <3>1. p \in ClearedPipeline
      BY <1>3 DEF ClearedPipeline
    <3> QED BY <1>2, <1>3, <3>1
  <2>3. Board(memory)
    BY <1>2, <2>2 DEF Board
  <2> HIDE DEF memory
  <2> QED BY <2>1, <2>3, BoardReplaced
<1>4. ASSUME NEW k \in DOMAIN log, PersistEvent(k) \/ LoseEvent(k) PROVE PipelineInv'
  BY <1>0, <1>4 DEF PersistEvent, LoseEvent
<1>5. ASSUME NEW s \in Streams, NEW i \in Isolates, Connect(s, i) PROVE PipelineInv'
  BY <1>1, <1>2, <1>5 DEF Connect
<1>6. ASSUME NEW s \in Streams, Replay(s) \/ PollStart(s) \/ PollEnd(s) \/ Disconnect(s) PROVE PipelineInv'
  BY <1>0, <1>6 DEF Replay, PollStart, PollEnd, Disconnect
<1>7. ASSUME NEW i \in Isolates, Evict(i) PROVE PipelineInv'
  <2>1. Board([Fresh EXCEPT !.life = mem[i].life + 1])
    BY DEF Board, Fresh
  <2> QED BY <1>7, <2>1, BoardReplaced DEF Evict
<1>8. ASSUME NEW i \in Isolates, WindowPasses(i) PROVE PipelineInv'
  BY <1>1, <1>2, <1>8 DEF WindowPasses
<1>9. ASSUME NEW i \in Isolates, NEW given \in Pipelines, PostPipeline(i, given) PROVE PipelineInv'
  <2> DEFINE memory == [mem[i] EXCEPT !.pipelines = Append(mem[i].pipelines, CreatePipeline(given))]
  <2>1. mem' = [mem EXCEPT ![i] = memory]
    BY <1>9 DEF PostPipeline, PipelineInv
  <2>2. Append(mem[i].pipelines, CreatePipeline(given)) \in Seq(ClearedPipeline)
    BY <1>2, CreationClears DEF ClearedPipeline
  <2>3. Board(memory)
    BY <1>2, <2>2 DEF Board
  <2> HIDE DEF memory
  <2> QED BY <2>1, <2>3, BoardReplaced
<1>10. ASSUME NEW i \in Isolates, NEW n \in DOMAIN mem[i].pipelines, PostTick(i, n) PROVE PipelineInv'
  BY <1>2, <1>3, <1>10, TickClears DEF PostTick
<1>11. ASSUME NEW i \in Isolates, NEW n \in DOMAIN mem[i].pipelines, NEW k \in DOMAIN mem[i].pipelines[n].steps,
              StepCompleted(i, n, k)
       PROVE  PipelineInv'
  BY <1>2, <1>3, <1>11, CompletionClears DEF StepCompleted
<1>12. ASSUME NEW i \in Isolates, NEW n \in DOMAIN mem[i].pipelines, NEW k \in DOMAIN mem[i].pipelines[n].steps, NEW d,
              PostCheckpointDecision(i, n, k, d)
       PROVE  PipelineInv'
  BY <1>2, <1>3, <1>12, DecisionClears DEF PostCheckpointDecision
<1>13. ASSUME NEW i \in Isolates, NEW project, RequestApproval(i, project) \/ PostPlan(i, project) PROVE PipelineInv'
  <2>1. CASE RequestApproval(i, project)
    BY <1>1, <1>2, <2>1 DEF RequestApproval
  <2>2. CASE PostPlan(i, project)
    BY <1>1, <1>2, <2>2 DEF PostPlan
  <2> QED BY <1>13, <2>1, <2>2
<1>14. ASSUME NEW i \in Isolates, NEW n, NEW role, NEW d, DecideApproval(i, n, role, d) PROVE PipelineInv'
  BY <1>1, <1>2, <1>14 DEF DecideApproval
<1>15. ASSUME NEW i \in Isolates, NEW t, NEW evidence, PostReview(i, t, evidence) PROVE PipelineInv'
  BY <1>1, <1>2, <1>15 DEF PostReview
<1>16. ASSUME NEW i \in Isolates, NEW given, NEW k, ExecuteStep(i, given, k) PROVE PipelineInv'
  <2>1. UNCHANGED mem \/ \E seq : mem' = [mem EXCEPT ![i].seq = seq]
    BY <1>16 DEF ExecuteStep
  <2> QED BY <1>0, <1>1, <1>2, <2>1
<1>17. ASSUME NEW i \in Isolates, NEW m, NEW valid, PostTask(i, m, valid) PROVE PipelineInv'
  BY <1>1, <1>2, <1>17 DEF PostTask
<1>18. ASSUME NEW i \in Isolates, NEW c, NEW m, NEW sync, NEW ok, Command(i, c, m, sync, ok) PROVE PipelineInv'
  BY <1>1, <1>2, <1>18 DEF Command
<1>19. ASSUME NEW i \in Isolates, NEW c, NothingToExecute(i, c) PROVE PipelineInv'
  BY <1>1, <1>2, <1>19 DEF NothingToExecute
<1>20. ASSUME NEW i \in Isolates, NEW c, SyncReview(i, c) PROVE PipelineInv'
  <2>1. PICK pc, seq, n, told : mem' = [mem EXCEPT ![i].sessions[c].pc = pc, ![i].seq = seq,
                                    ![i].iterations[mem[i].sessions[c].task] = n, ![i].sessions[c].events = told]
    BY <1>20 DEF SyncReview
  <2>2. mem' = [j \in Isolates |-> mem'[j]]
    <3>1. \E w, x, y, z : mem' = [mem EXCEPT ![i] = w, ![i] = x, ![i] = y, ![i] = z]
      BY <2>1, Zenon
    <3> QED BY <1>2, <3>1
  <2>3. \A j \in Isolates : j # i => mem'[j] = mem[j]
    BY <1>2, <2>1
  <2>4. DOMAIN mem'[i] = DOMAIN mem[i] /\ mem'[i].pipelines = mem[i].pipelines
    BY <1>2, <2>1
  <2> QED BY <1>1, <2>2, <2>3, <2>4
<1>21. ASSUME NEW i \in Isolates, NEW c, SyncFail(i, c) PROVE PipelineInv'
  <2>1. PICK pc, told : mem' = [mem EXCEPT ![i].sessions[c].pc = pc, ![i].sessions[c].events = told]
    BY <1>21 DEF SyncFail
  <2>2. mem' = [j \in Isolates |-> mem'[j]]
    <3>1. \E a, b : mem' = [mem EXCEPT ![i] = a, ![i] = b]
      BY <2>1, Zenon
    <3> QED BY <1>2, <3>1
  <2>3. \A j \in Isolates : j # i => mem'[j] = mem[j]
    BY <1>2, <2>1
  <2>4. DOMAIN mem'[i] = DOMAIN mem[i] /\ mem'[i].pipelines = mem[i].pipelines
    BY <1>2, <2>1
  <2> QED BY <1>1, <2>2, <2>3, <2>4
<1>22. ASSUME NEW i \in Isolates, NEW c, NEW t, NEW result, SyncExecute(i, c, t, result) PROVE PipelineInv'
  BY <1>1, <1>2, <1>22 DEF SyncExecute
<1>23. ASSUME NEW t, NEW result,
              PostRetry(t) \/ PostCancel(t) \/ WorkerTakes(t) \/ LeaseExpires(t) \/ WorkerEnds(t, result)
       PROVE  PipelineInv'
  BY <1>0, <1>23 DEF PostRetry, PostCancel, WorkerTakes, LeaseExpires, WorkerEnds
<1>24. ASSUME NEW ok, TriggerContainer(ok) \/ Alarm(ok) \/ RenewActivity \/ OnActivityExpired \/ ContainerCrash
       PROVE  PipelineInv'
  BY <1>0, <1>24 DEF TriggerContainer, Alarm, RenewActivity, OnActivityExpired, ContainerCrash
<1> QED BY <1>4, <1>5, <1>6, <1>7, <1>8, <1>9, <1>10, <1>11, <1>12, <1>13, <1>14, <1>15, <1>16, <1>17, <1>18, <1>19,
           <1>20, <1>21, <1>22, <1>23, <1>24 DEF Next

\* What is announced touches no pipeline.
LEMMA AnnouncementKeeps ==
  ASSUME PipelineInv, NEW memory, Board(memory), NEW kinds, NEW project, NEW ref,
         Announce(memory, kinds, project, ref), UNCHANGED mem
  PROVE  PipelineInv'
<1>1. \E seq, history : server' = [memory EXCEPT !.seq = seq, !.history = history]
  BY DEF Announce
<1> QED BY <1>1 DEF PipelineInv, Board

\* One pipeline more, or one that moved.
LEMMA PipelineStepPreserves ==
  ASSUME PipelineInv, NEW kept \in Seq(ClearedPipeline), PipelineStep(kept)
  PROVE  PipelineInv'
  BY DEF PipelineInv, Board, PipelineStep

LEMMA ServerClears == PipelineInv /\ ServerNext => PipelineInv'
<1> SUFFICES ASSUME PipelineInv, ServerNext PROVE PipelineInv'
  OBVIOUS
<1>0. ASSUME UNCHANGED <<mem, server>> PROVE PipelineInv'
  BY <1>0 DEF PipelineInv, Board
<1>1. /\ Board(server) /\ server.pipelines \in Seq(ClearedPipeline)
      /\ \A n \in DOMAIN server.pipelines : server.pipelines[n] \in Pipeline
  BY DEF PipelineInv, Board, ClearedPipeline
<1>2. ASSUME NEW n \in DOMAIN server.pipelines, NEW p \in Pipeline, Cleared(p)
      PROVE  [server.pipelines EXCEPT ![n] = p] \in Seq(ClearedPipeline)
  <2>1. p \in ClearedPipeline
    BY <1>2 DEF ClearedPipeline
  <2> QED BY <1>1, <2>1
<1>3. ASSUME NEW c \in Clients, NEW kept, OpenStream(c) \/ CloseStream(c, kept) PROVE PipelineInv'
  BY <1>0, <1>3 DEF OpenStream, CloseStream, vars
<1>4. CASE Restart
  <2>1. server' = Listen(server.life + 1) /\ UNCHANGED mem
    BY <1>4 DEF Restart
  <2> QED BY <2>1 DEF PipelineInv, Board, Listen
<1>5. ASSUME NEW project, ServerPlan(project) PROVE PipelineInv'
  BY <1>1, <1>5, AnnouncementKeeps DEF ServerPlan
<1>6. ASSUME NEW project, ServerRequestApproval(project) PROVE PipelineInv'
  <2>1. PICK memory : /\ Announce(memory, <<"APPROVAL_REQUESTED">>, project, Len(trail) + 1)
                      /\ \E items : memory = [server EXCEPT !.approvals = items]
    BY <1>6, Zenon DEF ServerRequestApproval
  <2>2. Board(memory) /\ UNCHANGED mem
    BY <1>1, <1>6, <2>1 DEF Board, ServerRequestApproval
  <2> QED BY <2>1, <2>2, AnnouncementKeeps
<1>7. ASSUME NEW t, NEW evidence, NEW project, ServerReview(t, evidence, project) PROVE PipelineInv'
  <2>1. PICK memory, kinds : /\ Announce(memory, kinds, project, t)
                             /\ \E n : memory = [server EXCEPT !.iterations[t] = n]
    BY <1>7, Zenon DEF ServerReview
  <2>2. Board(memory) /\ UNCHANGED mem
    BY <1>1, <1>7, <2>1 DEF Board, ServerReview
  <2> QED BY <2>1, <2>2, AnnouncementKeeps
<1>8. ASSUME NEW n, NEW role, NEW d, ServerDecideApproval(n, role, d) PROVE PipelineInv'
  <2>1. PICK memory, kinds, project, ref : /\ Announce(memory, kinds, project, ref)
                                           /\ \E status : memory = [server EXCEPT !.approvals[n].status = status]
    BY <1>8, Zenon DEF ServerDecideApproval
  <2>2. Board(memory) /\ UNCHANGED mem
    BY <1>1, <1>8, <2>1 DEF Board, ServerDecideApproval
  <2> QED BY <2>1, <2>2, AnnouncementKeeps
<1>9. ASSUME NEW given \in Pipelines, ServerPostPipeline(given) PROVE PipelineInv'
  <2>1. CreatePipeline(given) \in ClearedPipeline
    BY CreationClears DEF ClearedPipeline
  <2>2. Append(server.pipelines, CreatePipeline(given)) \in Seq(ClearedPipeline)
    BY <1>1, <2>1
  <2> QED BY <1>9, <2>2, PipelineStepPreserves DEF ServerPostPipeline
<1>10. ASSUME NEW n \in DOMAIN server.pipelines, ServerPostTick(n) PROVE PipelineInv'
  <2>1. [server.pipelines EXCEPT ![n] = TickPipeline(@)] \in Seq(ClearedPipeline)
    BY <1>1, <1>2, TickClears
  <2> QED BY <1>10, <2>1, PipelineStepPreserves DEF ServerPostTick
<1>11. ASSUME NEW n \in DOMAIN server.pipelines, NEW k \in DOMAIN server.pipelines[n].steps, NEW d,
              ServerDecideCheckpoint(n, k, d)
       PROVE  PipelineInv'
  <2>1. [server.pipelines EXCEPT ![n] = DecideCheckpoint(@, k, d)] \in Seq(ClearedPipeline)
    BY <1>1, <1>2, DecisionClears
  <2> QED BY <1>11, <2>1, PipelineStepPreserves DEF ServerDecideCheckpoint
<1>12. ASSUME NEW given, NEW k, NEW p, NEW n, NEW ok, NEW t,
              \/ PostExecuteStep(given, k) \/ PostIngest(p) \/ ListTasks(n, ok) \/ IntakeEnds(n, ok) \/ MarkTask(n, ok)
              \/ WorkerOverwrites(t)
       PROVE  PipelineInv'
  BY <1>0, <1>12 DEF PostExecuteStep, PostIngest, Waiting, ListTasks, IntakeEnds, MarkTask, WorkerOverwrites
<1>13. ASSUME NEW n, AnnounceStep(n) PROVE PipelineInv'
  <2>1. UNCHANGED mem /\ (UNCHANGED server \/ \E kinds, ref : Announce(server, kinds, OwnProject, ref))
    BY <1>13, Zenon DEF AnnounceStep
  <2> QED BY <1>0, <1>1, <2>1, AnnouncementKeeps
<1> QED BY <1>3, <1>4, <1>5, <1>6, <1>7, <1>8, <1>9, <1>10, <1>11, <1>12, <1>13 DEF ServerNext

LEMMA PipelinesStep == PipelineInv /\ [SystemNext]_systemVars => PipelineInv'
<1> SUFFICES ASSUME PipelineInv, [SystemNext]_systemVars PROVE PipelineInv'
  OBVIOUS
<1>1. ASSUME Next, UNCHANGED serverVars PROVE PipelineInv'
  BY <1>1, OfficeClears DEF serverVars
<1>2. ASSUME UNCHANGED <<mem, server>> PROVE PipelineInv'
  BY <1>2 DEF PipelineInv, Board
<1>3. ASSUME LettersNext, UNCHANGED serverVars PROVE PipelineInv'
  BY <1>2, <1>3 DEF LettersNext, RestartProcess, Record, Resolve, serverVars
<1>4. ASSUME ContextNext, UNCHANGED serverVars PROVE PipelineInv'
  BY <1>2, <1>4 DEF ContextNext, AssembleContext, BuildDecision, serverVars, vars
<1>5. CASE UNCHANGED systemVars
  BY <1>2, <1>5 DEF systemVars, vars, serverVars
<1> QED BY <1>1, <1>3, <1>4, <1>5, ServerClears DEF SystemNext

\* No step of a pipeline under way starts before its dependencies are done and its checkpoint is granted, on any
\* isolate and on the server, for any step lists and in any order of ticks, decisions and completions
\* (tickPipeline, decideCheckpoint).
THEOREM StepsWaitForClearance == SystemSpec => []ReleasedStepsAreCleared
<1>1. SystemInit => PipelineInv
  BY BoardsInitially
<1>2. PipelineInv /\ [SystemNext]_systemVars => PipelineInv'
  BY PipelinesStep
<1>3. PipelineInv => ReleasedStepsAreCleared
  <2> SUFFICES ASSUME PipelineInv,
                      NEW p \in ToSet(server.pipelines) \cup UNION {ToSet(mem[i].pipelines) : i \in Isolates}
               PROVE  Cleared(p)
    BY DEF ReleasedStepsAreCleared, Cleared
  <2>1. \A s \in Seq(ClearedPipeline) : \A q \in ToSet(s) : Cleared(q)
    BY DEF ToSet, ClearedPipeline
  <2>2. CASE p \in ToSet(server.pipelines)
    BY <2>1, <2>2 DEF PipelineInv, Board
  <2>3. CASE \E i \in Isolates : p \in ToSet(mem[i].pipelines)
    BY <2>1, <2>3 DEF PipelineInv, Board
  <2> QED BY <2>2, <2>3
<1> QED BY <1>1, <1>2, <1>3, PTL DEF SystemSpec, systemVars

-----------------------------------------------------------------------------
(* Numbers and positions *)

\* A set of numbers has a least one.
LEMMA LeastNatural ==
  ASSUME NEW S, S \subseteq Nat, S # {}
  PROVE  \E m \in S : \A k \in S : m <= k
<1>1. PICK m \in S : \A k \in S : ~ (<<k, m>> \in OpToRel(<, Nat))
  BY NatLessThanWellFounded, WFMin, Zenon
<1>2. \A k \in S : <<k, m>> \in Nat \X Nat
  OBVIOUS
<1>3. \A k \in S : ~ (k < m)
  BY <1>1, <1>2 DEF OpToRel
<1> QED BY <1>3

\* How many of a finite set of numbers come after a member falls as the member grows.
LEMMA FewerAbove ==
  ASSUME NEW S, S \subseteq Nat, IsFiniteSet(S), NEW m \in S, NEW k \in S, m < k
  PROVE  /\ Cardinality({x \in S : x > k}) \in Nat /\ Cardinality({x \in S : x > m}) \in Nat
         /\ Cardinality({x \in S : x > k}) < Cardinality({x \in S : x > m})
<1> DEFINE A == {x \in S : x > m}
           B == {x \in S : x > k}
<1>0. \A x \in S : x > k => x > m
  <2>1. \A x, y, z \in Nat : x < y /\ z > y => z > x
    OBVIOUS
  <2>2. S \subseteq Nat /\ m \in S /\ k \in S /\ m < k
    OBVIOUS
  <2> QED BY <2>1, <2>2, Zenon
<1>1. A \subseteq S /\ B \subseteq A
  BY <1>0
<1>2. k \in A /\ k \notin B
  <2>1. k \in Nat /\ m \in Nat
    OBVIOUS
  <2>2. k > m /\ ~ (k > k)
    BY <2>1
  <2> QED BY <2>2
<1> HIDE DEF A, B
<1>3. IsFiniteSet(A) /\ IsFiniteSet(B) /\ Cardinality(B) <= Cardinality(A) /\ Cardinality(A) # Cardinality(B)
  BY <1>1, <1>2, FS_Subset
<1>4. Cardinality(A) \in Nat /\ Cardinality(B) \in Nat
  BY <1>3, FS_CardinalityType
<1>5. Cardinality(B) < Cardinality(A)
  BY <1>3, <1>4
<1> QED BY <1>4, <1>5 DEF A, B

\* A finite set of numbers has a largest one.
LEMMA LargestNatural ==
  ASSUME NEW S, S \subseteq Nat, IsFiniteSet(S), S # {}
  PROVE  \E m \in S : \A k \in S : m >= k
<1> DEFINE above(m) == Cardinality({x \in S : x > m})
<1>1. \A m \in S : above(m) \in Nat
  BY FS_Subset, FS_CardinalityType
<1>2. {above(m) : m \in S} \subseteq Nat /\ {above(m) : m \in S} # {}
  BY <1>1
<1>3. PICK m \in S : \A k \in S : above(m) <= above(k)
  <2> HIDE DEF above
  <2>1. \E a \in {above(m) : m \in S} : \A b \in {above(m) : m \in S} : a <= b
    BY <1>2, LeastNatural
  <2> QED BY <2>1
<1>4. ASSUME NEW k \in S, m < k PROVE FALSE
  <2>1. above(k) < above(m) /\ above(k) \in Nat /\ above(m) \in Nat
    BY <1>4, FewerAbove
  <2>2. above(m) <= above(k)
    BY <1>3
  <2> HIDE DEF above
  <2> QED BY <2>1, <2>2
<1> QED BY <1>4

LEMMA MaxOfBounds ==
  ASSUME NEW n \in Nat, NEW S, S \subseteq Nat, IsFiniteSet(S)
  PROVE  MaxOf(n, S) \in S \cup {n} /\ \A x \in S \cup {n} : MaxOf(n, S) >= x
<1>1. IsFiniteSet(S \cup {n})
  BY FS_AddElement
<1>2. \E m \in S \cup {n} : \A x \in S \cup {n} : m >= x
  BY <1>1, LargestNatural
<1> QED BY <1>2 DEF MaxOf

\* Counted in order, every number up to the size of a finite set of positions has its position.
LEMMA InOrderSorts ==
  ASSUME NEW n \in Nat, NEW K, K \subseteq 1..n
  PROVE  /\ Cardinality(K) \in Nat /\ InOrder(K) \in [1..Cardinality(K) -> K]
         /\ \A k \in K : \E j \in 1..Cardinality(K) : InOrder(K)[j] = k
         /\ \A i, j \in 1..Cardinality(K) : i < j => InOrder(K)[i] < InOrder(K)[j]
<1> DEFINE N == Cardinality(K)
           rank == [k \in K |-> Cardinality({i \in K : i <= k})]
<1>0. \A k \in K : k \in Nat
  OBVIOUS
<1>1. IsFiniteSet(K) /\ N \in Nat
  <2>1. IsFiniteSet(1..n) /\ K \in SUBSET (1..n)
    BY FS_Interval
  <2> QED BY <2>1, FS_Subset, FS_CardinalityType
<1>2. \A k \in K : rank[k] \in 1..N
  <2> SUFFICES ASSUME NEW k \in K PROVE rank[k] \in 1..N
    OBVIOUS
  <2> DEFINE upto == {i \in K : i <= k}
  <2>1. upto \in SUBSET K /\ k \in upto
    OBVIOUS
  <2>2. IsFiniteSet(upto) /\ Cardinality(upto) <= N /\ Cardinality(upto) \in Nat /\ Cardinality(upto) # 0
    <3> HIDE DEF upto
    <3> QED BY <1>1, <2>1, FS_Subset, FS_CardinalityType, FS_EmptySet
  <2>3. rank[k] = Cardinality(upto)
    OBVIOUS
  <2> HIDE DEF upto, rank
  <2> QED BY <1>1, <2>2, <2>3
<1>3. \A i, j \in K : i < j => rank[i] < rank[j]
  <2> SUFFICES ASSUME NEW i \in K, NEW j \in K, i < j PROVE rank[i] < rank[j]
    OBVIOUS
  <2> DEFINE I == {k \in K : k <= i}
             J == {k \in K : k <= j}
  <2>1. I \subseteq J /\ J \subseteq K /\ j \in J /\ j \notin I
    <3>1. \A x, y, z \in Nat : x < y => (z <= x => z <= y) /\ y <= y /\ ~ (y <= x)
      OBVIOUS
    <3> QED BY <1>0, <3>1, Zenon
  <2>2. IsFiniteSet(J) /\ IsFiniteSet(I) /\ Cardinality(I) <= Cardinality(J) /\ Cardinality(J) # Cardinality(I)
    <3> HIDE DEF I, J
    <3> QED BY <1>1, <2>1, FS_Subset
  <2>3. Cardinality(I) \in Nat /\ Cardinality(J) \in Nat
    BY <2>2, FS_CardinalityType
  <2>4. Cardinality(I) < Cardinality(J)
    <3> HIDE DEF I, J
    <3> QED BY <2>2, <2>3
  <2> QED BY <2>4
<1> HIDE DEF rank
<1>4. rank \in [K -> 1..N]
  BY <1>2 DEF rank
<1>5. rank \in Injection(K, 1..N)
  <2>1. \A a, b \in K : rank[a] = rank[b] => a = b
    BY <1>2, <1>3
  <2> QED BY <1>4, <2>1 DEF Injection, IsInjective
<1>6. IsFiniteSet(1..N) /\ Cardinality(1..N) = N
  BY <1>1, FS_Interval
<1>7. rank \in Surjection(K, 1..N)
  BY <1>5, <1>6, FS_Injection
<1>8. PICK pos \in [1..N -> K] : \A j \in 1..N : rank[pos[j]] = j
  <2>1. \A j \in 1..N : \E k \in K : rank[k] = j
    BY <1>7 DEF Surjection
  <2>2. [j \in 1..N |-> CHOOSE k \in K : rank[k] = j] \in [1..N -> K]
    BY <2>1
  <2>3. \A j \in 1..N : rank[[l \in 1..N |-> CHOOSE k \in K : rank[k] = l][j]] = j
    BY <2>1
  <2> QED BY <2>2, <2>3
<1>9. \A i, j \in 1..N : i < j => pos[i] < pos[j]
  <2> SUFFICES ASSUME NEW i \in 1..N, NEW j \in 1..N, i < j, ~ (pos[i] < pos[j]) PROVE FALSE
    OBVIOUS
  <2>1. pos[i] \in K /\ pos[j] \in K
    BY <1>8
  <2>2. pos[j] = pos[i] \/ pos[j] < pos[i]
    <3>1. \A x, y \in Nat : x < y \/ y = x \/ y < x
      OBVIOUS
    <3> QED BY <1>0, <2>1, <3>1, Zenon
  <2>3. rank[pos[j]] = rank[pos[i]] \/ rank[pos[j]] < rank[pos[i]]
    BY <1>3, <2>1, <2>2
  <2> QED BY <1>1, <1>8, <2>3
<1>10. ASSUME NEW s, s \in SetToSeqs(K)
       PROVE  s \in [1..N -> K] /\ DOMAIN s = 1..N /\ \A k \in K : \E j \in 1..N : s[j] = k
  <2>1. s \in [1..N -> K] /\ \A i, j \in 1..N : i # j => s[i] # s[j]
    BY <1>10 DEF SetToSeqs
  <2>2. s \in Injection(1..N, K)
    BY <2>1 DEF Injection, IsInjective
  <2>3. s \in Surjection(1..N, K)
    BY <1>1, <1>6, <2>2, FS_Injection
  <2> QED BY <2>1, <2>3 DEF Surjection
<1>11. pos \in SetToSeqs(K)
  <2>1. \A i, j \in 1..N : i # j => pos[i] # pos[j]
    BY <1>8
  <2> QED BY <1>8, <2>1 DEF SetToSeqs
<1>12. \E s \in SetToSeqs(K) : \A j, k \in DOMAIN s : j < k => s[j] < s[k]
  BY <1>8, <1>9, <1>11
<1>13. InOrder(K) \in SetToSeqs(K) /\ \A j, k \in DOMAIN InOrder(K) : j < k => InOrder(K)[j] < InOrder(K)[k]
  BY <1>12 DEF InOrder
<1> QED BY <1>1, <1>10, <1>13

-----------------------------------------------------------------------------
(* The API's stream: one table, and isolates that count on their own *)

\* A memory that counts its events.
Counts(memory) == "seq" \in DOMAIN memory /\ memory.seq \in Nat

Logged == log \in Seq(ToSet(log)) /\ \A k \in DOMAIN log : log[k].seq \in Nat

Follower(n) == [pc : {"off", "replay", "on"}, iso : Isolates \cup {"none"}, cursor : Nat, lastId : Nat, since : Nat,
                got : SUBSET (1..n), rows : SUBSET (1..n), view : SUBSET (1..n), polling : BOOLEAN]

\* A stream comes back with the number of an event it was sent, never with a later one.
Resumes(st) == st.lastId <= st.cursor /\ (st.pc = "off" => st.cursor = st.lastId)

\* Rows on their way leave out no row with a smaller number that the cursor has not passed.
FirstRows(st) ==
  \A k \in st.view, r \in st.rows :
    (log[k].project = OwnProject /\ log[k].seq < log[r].seq) => k \in st.rows \/ log[k].seq <= st.cursor

\* What the cursor has passed was sent, overtaken it, or shares a number with what was sent.
Accounted(s) ==
  \A k \in table :
    (log[k].project = OwnProject /\ log[k].seq <= stream[s].cursor /\ k \notin stream[s].got) =>
      k \in overtaken[s] \/ \E j \in stream[s].got : j # k /\ log[j].seq = log[k].seq

Counted == mem = [i \in Isolates |-> mem[i]] /\ \A i \in Isolates : Counts(mem[i])

FlowInv ==
  /\ Counted /\ Logged
  /\ inflight \subseteq DOMAIN log /\ table \subseteq DOMAIN log
  /\ stream \in [Streams -> Follower(Len(log))]
  /\ overtaken = [s \in Streams |-> overtaken[s]]
  /\ \A s \in Streams : Resumes(stream[s]) /\ FirstRows(stream[s]) /\ Accounted(s)

LEMMA FlowInitially == SystemInit => FlowInv
<1> SUFFICES ASSUME SystemInit PROVE FlowInv
  OBVIOUS
<1>1. /\ mem = [i \in Isolates |-> Fresh] /\ log = <<>> /\ inflight = {} /\ table = {}
      /\ overtaken = [s \in Streams |-> {}] /\ stream = [s \in Streams |-> Closed]
  BY DEF SystemInit, ServerInit, Init
<1>2. Counted
  BY <1>1 DEF Counted, Counts, Fresh
<1>3. Logged /\ DOMAIN log = 1..Len(log) /\ Len(log) = 0
  BY <1>1 DEF Logged
<1>4. Closed \in Follower(Len(log))
  BY <1>3 DEF Closed, Follower
<1>5. Resumes(Closed) /\ FirstRows(Closed)
  BY DEF Resumes, FirstRows, Closed
<1> HIDE DEF Follower
<1> QED BY <1>1, <1>2, <1>3, <1>4, <1>5 DEF FlowInv, Accounted

LEMMA CountersKept ==
  ASSUME FlowInv, UNCHANGED bus, Counted'
  PROVE  FlowInv'
  BY DEF FlowInv, bus, Logged, Resumes, FirstRows, Accounted, Follower

\* A longer log keeps what it held.
LEMMA LogGrows ==
  ASSUME Logged, NEW kinds, NEW S, kinds \in Seq(S), NEW new, new = [k \in DOMAIN kinds |-> new[k]],
         \A k \in DOMAIN kinds : new[k].seq \in Nat, log' = log \o new
  PROVE  /\ Logged' /\ Len(log) \in Nat /\ DOMAIN log = 1..Len(log) /\ Len(kinds) \in Nat
         /\ Len(log') = Len(log) + Len(kinds) /\ DOMAIN log' = 1..Len(log')
         /\ \A k \in DOMAIN log : log'[k] = log[k]
         /\ DOMAIN kinds = 1..Len(kinds)
<1> DEFINE all == ToSet(log) \cup ToSet(new)
<1>1. Len(kinds) \in Nat /\ DOMAIN kinds = 1..Len(kinds)
  OBVIOUS
<1>2. new = [k \in 1..Len(kinds) |-> new[k]] /\ \A k \in 1..Len(kinds) : new[k] \in ToSet(new) /\ new[k].seq \in Nat
  <2>1. DOMAIN new = 1..Len(kinds)
    BY <1>1
  <2> QED BY <1>1, <2>1 DEF ToSet
<1>3. new \in Seq(ToSet(new)) /\ Len(new) = Len(kinds)
  BY <1>1, <1>2, SequenceOf
<1>4. log \in Seq(all) /\ new \in Seq(all)
  <2>1. log \in Seq(ToSet(log)) /\ ToSet(log) \subseteq all /\ ToSet(new) \subseteq all
    BY DEF Logged
  <2> HIDE DEF all
  <2> QED BY <1>3, <2>1, SeqMonotonic
<1>5. log' = log \o new
  OBVIOUS
<1> HIDE DEF all
<1>6. log' \in Seq(all) /\ Len(log') = Len(log) + Len(new)
  BY <1>4, <1>5, ConcatProperties
<1>7. /\ \A k \in 1..Len(log) : log'[k] = log[k]
      /\ \A k \in 1..Len(log') : k > Len(log) => log'[k] = new[k - Len(log)] /\ k - Len(log) \in 1..Len(new)
  <2>1. Len(log) \in Nat /\ Len(new) \in Nat
    BY <1>4
  <2>2. \A k \in 1..Len(log) + Len(new) : (log \o new)[k] = IF k <= Len(log) THEN log[k] ELSE new[k - Len(log)]
    BY <1>4, ConcatProperties
  <2> DEFINE whole == log \o new
  <2> HIDE DEF whole
  <2>3. /\ log' = whole /\ Len(log') = Len(log) + Len(new)
        /\ \A k \in 1..Len(log) + Len(new) : whole[k] = IF k <= Len(log) THEN log[k] ELSE new[k - Len(log)]
    BY <1>5, <1>6, <2>2 DEF whole
  <2>4. \A k \in 1..Len(log) : k \in 1..Len(log) + Len(new) /\ k <= Len(log)
    BY <2>1
  <2>5. \A k \in 1..Len(log) + Len(new) : k > Len(log) => ~ (k <= Len(log)) /\ k - Len(log) \in 1..Len(new)
    BY <2>1
  <2>6. \A k \in 1..Len(log) : log'[k] = log[k]
    BY <2>3, <2>4, Zenon
  <2>7. \A k \in 1..Len(log') : k > Len(log) => log'[k] = new[k - Len(log)] /\ k - Len(log) \in 1..Len(new)
    BY <2>3, <2>5, Zenon
  <2> QED BY <2>6, <2>7
<1>8. DOMAIN log = 1..Len(log) /\ DOMAIN log' = 1..Len(log') /\ Len(log) \in Nat
  BY <1>4, <1>6
<1>9. \A k \in DOMAIN log' : log'[k].seq \in Nat
  BY <1>2, <1>3, <1>7, <1>8 DEF Logged
<1>10. log' \in Seq(ToSet(log'))
  <2>1. \A k \in 1..Len(log') : log'[k] \in ToSet(log')
    BY <1>8 DEF ToSet
  <2>2. log' = [k \in 1..Len(log') |-> log'[k]] /\ Len(log') \in Nat
    BY <1>6
  <2> QED BY <2>1, <2>2, SequenceOf
<1> QED BY <1>1, <1>3, <1>6, <1>7, <1>8, <1>9, <1>10 DEF Logged

\* What an isolate publishes moves the cursors of its streams past rows, which are then overtaken.
LEMMA PublishKeeps ==
  ASSUME FlowInv, NEW i \in Isolates, NEW kinds, NEW S, kinds \in Seq(S),
         NEW project, NEW ref, NEW pool, Publish(i, kinds, project, ref, pool), Counted'
  PROVE  FlowInv'
<1> DEFINE new == {Len(log) + k : k \in DOMAIN kinds}
           last == mem[i].seq + Len(kinds)
           moves(s) == Notified(s, i, project, new) # {}
           cursor == [s \in Streams |-> IF Notified(s, i, project, new) = {} THEN stream[s].cursor
                                        ELSE MaxOf(stream[s].cursor, {last})]
<1>1. mem[i].seq \in Nat /\ Logged
  BY DEF FlowInv, Counted, Counts
<1>2. /\ Logged' /\ Len(log) \in Nat /\ DOMAIN log = 1..Len(log) /\ Len(kinds) \in Nat
      /\ Len(log') = Len(log) + Len(kinds) /\ DOMAIN log' = 1..Len(log')
      /\ \A k \in DOMAIN log : log'[k] = log[k]
      /\ DOMAIN kinds = 1..Len(kinds)
  <2> DEFINE events == [k \in DOMAIN kinds |-> [seq |-> mem[i].seq + k, from |-> <<i, mem[i].life>>,
                                                project |-> project, kind |-> kinds[k], ref |-> ref]]
  <2>1. log' = log \o events
    BY DEF Publish
  <2>2. \A k \in DOMAIN kinds : events[k].seq \in Nat
    <3>1. DOMAIN kinds \subseteq Nat
      OBVIOUS
    <3>2. \A k \in DOMAIN kinds : mem[i].seq + k \in Nat
      BY <1>1, <3>1
    <3> QED BY <3>2
  <2>3. events = [k \in DOMAIN kinds |-> events[k]]
    OBVIOUS
  <2> HIDE DEF events
  <2> QED BY <1>1, <2>1, <2>2, <2>3, LogGrows
<1>3. /\ new \subseteq 1..Len(log')
      /\ table \subseteq 1..Len(log) /\ inflight \subseteq 1..Len(log) /\ 1..Len(log) \subseteq 1..Len(log')
      /\ last \in Nat
  BY <1>1, <1>2 DEF FlowInv
<1>4. /\ stream' = [s \in Streams |->
                      IF Notified(s, i, project, new) = {} THEN stream[s]
                      ELSE [stream[s] EXCEPT !.got = @ \cup Notified(s, i, project, new),
                                             !.cursor = cursor[s], !.lastId = last]]
      /\ overtaken' = [s \in Streams |->
                         overtaken[s] \cup {k \in table : cursor[s] # stream[s].cursor /\ log[k].seq <= cursor[s]}]
      /\ inflight' \subseteq inflight \cup new /\ table' = table
  BY DEF Publish
<1>5. \A s \in Streams : Notified(s, i, project, new) \subseteq new
  BY DEF Notified
<1>6. ASSUME NEW s \in Streams, moves(s)
      PROVE  cursor[s] \in Nat /\ cursor[s] >= stream[s].cursor /\ cursor[s] >= last
  <2>1. stream[s].cursor \in Nat /\ {last} \subseteq Nat /\ IsFiniteSet({last})
    BY <1>3, FS_Singleton DEF FlowInv, Follower
  <2>2. cursor[s] = MaxOf(stream[s].cursor, {last})
    BY <1>6
  <2> HIDE DEF cursor, last
  <2> QED BY <2>1, <2>2, MaxOfBounds
<1>7. \A s \in Streams : stream[s] \in Follower(Len(log)) /\ Resumes(stream[s]) /\ FirstRows(stream[s]) /\ Accounted(s)
  BY DEF FlowInv
<1> HIDE DEF new, last, cursor
<1>8. ASSUME NEW s \in Streams
      PROVE  stream'[s] \in Follower(Len(log')) /\ Resumes(stream'[s]) /\ stream'[s].cursor >= stream[s].cursor
             /\ stream[s].got \subseteq stream'[s].got
             /\ stream'[s].rows = stream[s].rows /\ stream'[s].view = stream[s].view
  <2>1. CASE ~moves(s)
    <3>1. stream'[s] = stream[s]
      BY <1>4, <2>1
    <3>2. stream[s] \in Follower(Len(log'))
      BY <1>3, <1>7 DEF Follower
    <3>3. stream[s].cursor \in Nat
      BY <1>7 DEF Follower
    <3> QED BY <1>7, <3>1, <3>2, <3>3
  <2>2. CASE moves(s)
    <3>1. stream'[s] = [stream[s] EXCEPT !.got = @ \cup Notified(s, i, project, new),
                                         !.cursor = cursor[s], !.lastId = last]
      BY <1>4, <2>2
    <3>2. cursor[s] \in Nat /\ cursor[s] >= stream[s].cursor /\ cursor[s] >= last
      BY <1>6, <2>2
    <3>3. stream[s].got \cup Notified(s, i, project, new) \subseteq 1..Len(log')
      BY <1>3, <1>5, <1>7 DEF Follower
    <3>4. stream[s].pc = "on"
      BY <2>2 DEF Notified
    <3>5. stream'[s] \in Follower(Len(log'))
      BY <1>3, <1>7, <3>1, <3>2, <3>3, ZenonT(40) DEF Follower
    <3> QED BY <1>3, <1>7, <3>1, <3>2, <3>4, <3>5 DEF Follower, Resumes
  <2> QED BY <2>1, <2>2
<1>9. ASSUME NEW s \in Streams
      PROVE  stream'[s].cursor = cursor[s] /\ stream'[s].cursor \in Nat /\ stream[s].cursor \in Nat
  <2>1. stream'[s].cursor = cursor[s]
    BY <1>4, <1>7 DEF Follower, cursor
  <2> QED BY <1>7, <1>8, <2>1 DEF Follower
<1>10. \A k \in 1..Len(log) : log'[k] = log[k] /\ log[k].seq \in Nat
  BY <1>1, <1>2 DEF Logged
<1>11. ASSUME NEW s \in Streams PROVE FirstRows(stream[s])'
  <2> SUFFICES ASSUME NEW k \in stream[s].view, NEW r \in stream[s].rows,
                      log'[k].project = OwnProject, log'[k].seq < log'[r].seq, k \notin stream[s].rows
               PROVE  log'[k].seq <= stream'[s].cursor
    BY <1>8 DEF FirstRows
  <2>1. k \in 1..Len(log) /\ r \in 1..Len(log)
    BY <1>7 DEF Follower
  <2>2. log[k].seq <= stream[s].cursor
    BY <1>7, <1>10, <2>1 DEF FirstRows
  <2> QED BY <1>8, <1>9, <1>10, <2>1, <2>2
<1>12. ASSUME NEW s \in Streams PROVE Accounted(s)'
  <2> SUFFICES ASSUME NEW k \in table, log'[k].project = OwnProject, log'[k].seq <= stream'[s].cursor,
                      k \notin stream'[s].got, k \notin overtaken'[s]
               PROVE  \E j \in stream'[s].got : j # k /\ log'[j].seq = log'[k].seq
    BY <1>4 DEF Accounted
  <2>1. k \in 1..Len(log) /\ log'[k] = log[k]
    BY <1>3, <1>10
  <2>2. overtaken'[s] = overtaken[s] \cup {l \in table : cursor[s] # stream[s].cursor /\ log[l].seq <= cursor[s]}
    BY <1>4
  <2>3. cursor[s] = stream[s].cursor
    BY <1>9, <2>1, <2>2
  <2>4. PICK j \in stream[s].got : j # k /\ log[j].seq = log[k].seq
    BY <1>7, <1>8, <1>9, <2>1, <2>2, <2>3 DEF Accounted
  <2>5. j \in 1..Len(log)
    BY <1>7 DEF Follower
  <2> QED BY <1>8, <1>10, <2>1, <2>4, <2>5
<1>13. stream' = [s \in Streams |-> stream'[s]] /\ overtaken' = [s \in Streams |-> overtaken'[s]]
  BY <1>4
<1>14. stream' \in [Streams -> Follower(Len(log'))]
  BY <1>8, <1>13
<1>15. inflight' \subseteq DOMAIN log' /\ table' \subseteq DOMAIN log'
  BY <1>2, <1>3, <1>4
<1> QED BY <1>2, <1>8, <1>11, <1>12, <1>13, <1>14, <1>15 DEF FlowInv

\* The first rows of a table leave out none that comes before one of them.
LEMMA MissedAreFirst ==
  ASSUME Logged, table \subseteq DOMAIN log, NEW cursor \in Nat, NEW limit \in Nat,
         NEW k \in table, log[k].project = OwnProject, log[k].seq > cursor,
         NEW r \in Missed(cursor, limit), log[k].seq < log[r].seq
  PROVE  k \in Missed(cursor, limit)
<1> DEFINE due == {j \in table : log[j].project = OwnProject /\ log[j].seq > cursor}
           before(n) == {j \in due : log[j].seq < log[n].seq \/ (log[j].seq = log[n].seq /\ j < n)}
<1>1. Missed(cursor, limit) = {n \in due : Cardinality(before(n)) < limit}
  BY DEF Missed
<1>2. r \in due /\ k \in due /\ Cardinality(before(r)) < limit
  BY <1>1
<1>3. \A j \in due : log[j].seq \in Nat
  BY DEF Logged
<1>4. IsFiniteSet(due)
  <2>0. Len(log) \in Nat /\ DOMAIN log = 1..Len(log)
    BY DEF Logged
  <2>1. IsFiniteSet(1..Len(log)) /\ DOMAIN log = 1..Len(log)
    <3> DEFINE n == Len(log)
    <3> HIDE DEF n
    <3>1. n \in Nat => IsFiniteSet(1..n)
      BY FS_Interval
    <3> QED BY <2>0, <3>1 DEF n
  <2>2. due \in SUBSET (1..Len(log))
    BY <2>1
  <2> HIDE DEF due
  <2> QED BY <2>1, <2>2, FS_Subset
<1>5. before(k) \subseteq before(r) /\ before(r) \subseteq due
  <2>1. \A x, y, z \in Nat : x <= y /\ y < z => x < z
    OBVIOUS
  <2>2. \A x, y \in Nat : x < y \/ x = y => x <= y
    OBVIOUS
  <2>3. \A j \in due : log[j].seq < log[k].seq \/ log[j].seq = log[k].seq => log[j].seq < log[r].seq
    BY <1>2, <1>3, <2>1, <2>2
  <2> HIDE DEF due
  <2> QED BY <2>3
<1> HIDE DEF before
<1>6. IsFiniteSet(before(r)) /\ IsFiniteSet(before(k)) /\ Cardinality(before(k)) <= Cardinality(before(r))
  BY <1>4, <1>5, FS_Subset
<1>7. Cardinality(before(r)) \in Nat /\ Cardinality(before(k)) \in Nat
  BY <1>6, FS_CardinalityType
<1>8. Cardinality(before(k)) < limit
  BY <1>2, <1>6, <1>7
<1> QED BY <1>1, <1>2, <1>8

LEMMA MissedAreRows == \A cursor, limit : Missed(cursor, limit) \subseteq table
  BY DEF Missed

\* A stream reads the table.
LEMMA ReadsTable ==
  ASSUME FlowInv, NEW s \in Streams, NEW limit \in Nat, NEW st \in Follower(Len(log)),
         stream' = [stream EXCEPT ![s] = st], st.view = table, st.rows = Missed(st.cursor, limit) \/ st.rows = {},
         st.got = stream[s].got, st.cursor = stream[s].cursor, Resumes(st),
         UNCHANGED <<log, inflight, table, overtaken>>, Counted'
  PROVE  FlowInv'
<1>1. FirstRows(st)
  <2> SUFFICES ASSUME NEW k \in table, NEW r \in st.rows, log[k].project = OwnProject, log[k].seq < log[r].seq,
                      ~ (log[k].seq <= st.cursor)
               PROVE  k \in st.rows
    BY DEF FirstRows
  <2>1. Logged /\ table \subseteq DOMAIN log /\ st.cursor \in Nat /\ log[k].seq \in Nat
    BY DEF FlowInv, Logged, Follower
  <2>2. log[k].seq > st.cursor /\ st.rows = Missed(st.cursor, limit)
    BY <2>1
  <2> QED BY <2>1, <2>2, MissedAreFirst
<1>2. stream'[s] = st /\ \A r \in Streams : r # s => stream'[r] = stream[r]
  BY DEF FlowInv
<1>3. \A r \in Streams : Resumes(stream'[r]) /\ FirstRows(stream[r])'
  BY <1>1, <1>2 DEF FlowInv, FirstRows
<1>4. \A r \in Streams : stream'[r].cursor = stream[r].cursor /\ stream'[r].got = stream[r].got
  BY <1>2
<1>5. \A r \in Streams : Accounted(r)'
  BY <1>4 DEF FlowInv, Accounted
<1>6. stream' \in [Streams -> Follower(Len(log'))]
  BY DEF FlowInv
<1> QED BY <1>3, <1>5, <1>6 DEF FlowInv, Logged

\* What a stream is sent of the rows it read, it has got.
LEMMA DeliverKeeps ==
  ASSUME FlowInv, NEW s \in Streams, NEW st \in Follower(Len(log)), Deliver(s, st),
         \E n \in Nat : st = [stream[s] EXCEPT !.pc = "on", !.since = n],
         UNCHANGED <<mem, log, inflight, table>>
  PROVE  FlowInv'
<1> DEFINE cursor == MaxOf(st.cursor, SeqsOf(st.rows))
           after == [st EXCEPT !.got = @ \cup st.rows, !.rows = {}, !.view = {}, !.polling = FALSE,
                               !.cursor = cursor,
                               !.lastId = IF st.rows = {} THEN @ ELSE MaxOf(0, SeqsOf(st.rows))]
<1>1. stream' = [stream EXCEPT ![s] = after]
      /\ overtaken' = [overtaken EXCEPT ![s] = @ \cup {k \in table \ st.view : log[k].seq <= cursor}]
  BY DEF Deliver
<1>2. /\ st.cursor = stream[s].cursor /\ st.lastId = stream[s].lastId /\ st.got = stream[s].got
      /\ st.rows = stream[s].rows /\ st.view = stream[s].view /\ st.pc = "on"
  BY DEF FlowInv, Follower
<1>3. st.cursor \in Nat /\ st.lastId \in Nat /\ st.rows \subseteq 1..Len(log) /\ st.got \subseteq 1..Len(log)
      /\ st.view \subseteq 1..Len(log)
  BY DEF Follower
<1>4. DOMAIN log = 1..Len(log) /\ (\A k \in 1..Len(log) : log[k].seq \in Nat) /\ Len(log) \in Nat
  BY DEF FlowInv, Logged
<1>5. SeqsOf(st.rows) \subseteq Nat /\ IsFiniteSet(SeqsOf(st.rows))
  <2>1. IsFiniteSet(1..Len(log))
    BY <1>4, FS_Interval
  <2>2. IsFiniteSet(st.rows)
    BY <1>3, <2>1, FS_Subset
  <2>3. [k \in st.rows |-> log[k].seq] \in Surjection(st.rows, SeqsOf(st.rows))
    BY DEF SeqsOf, Surjection
  <2>4. IsFiniteSet(SeqsOf(st.rows))
    BY <2>2, <2>3, FS_Surjection
  <2>5. SeqsOf(st.rows) \subseteq Nat
    BY <1>3, <1>4 DEF SeqsOf
  <2> QED BY <2>4, <2>5
<1>6. /\ cursor \in Nat /\ cursor >= st.cursor /\ cursor \in SeqsOf(st.rows) \cup {st.cursor}
      /\ \A x \in SeqsOf(st.rows) : cursor >= x
  <2>1. cursor \in SeqsOf(st.rows) \cup {st.cursor} /\ \A x \in SeqsOf(st.rows) \cup {st.cursor} : cursor >= x
    BY <1>3, <1>5, MaxOfBounds
  <2> HIDE DEF cursor
  <2> QED BY <1>3, <1>5, <2>1
<1>7. MaxOf(0, SeqsOf(st.rows)) \in Nat /\ MaxOf(0, SeqsOf(st.rows)) <= cursor
  <2>1. MaxOf(0, SeqsOf(st.rows)) \in SeqsOf(st.rows) \cup {0}
    BY <1>5, MaxOfBounds
  <2> HIDE DEF cursor
  <2> QED BY <1>5, <1>6, <2>1
<1>8. /\ after.cursor = cursor /\ after.got = st.got \cup st.rows /\ after.rows = {} /\ after.view = {}
      /\ after.pc = "on" /\ after.lastId = IF st.rows = {} THEN st.lastId ELSE MaxOf(0, SeqsOf(st.rows))
  BY <1>2 DEF Follower
<1>9. after \in Follower(Len(log))
  <2>1. (IF st.rows = {} THEN st.lastId ELSE MaxOf(0, SeqsOf(st.rows))) \in Nat
    BY <1>3, <1>7
  <2>2. st.got \cup st.rows \subseteq 1..Len(log)
    BY <1>3
  <2> HIDE DEF cursor
  <2> QED BY <1>6, <2>1, <2>2 DEF Follower
<1> HIDE DEF after, cursor
<1>10. Resumes(after) /\ FirstRows(after)
  <2>1. Resumes(stream[s])
    BY DEF FlowInv
  <2>2. st.lastId <= cursor
    BY <1>2, <1>3, <1>6, <2>1 DEF Resumes
  <2> QED BY <1>7, <1>8, <2>2 DEF Resumes, FirstRows
<1>11. /\ stream'[s] = after /\ (\A r \in Streams : r # s => stream'[r] = stream[r])
       /\ stream' \in [Streams -> Follower(Len(log'))]
  BY <1>1, <1>9 DEF FlowInv
<1>12. /\ overtaken'[s] = overtaken[s] \cup {k \in table \ st.view : log[k].seq <= cursor}
       /\ (\A r \in Streams : r # s => overtaken'[r] = overtaken[r])
       /\ overtaken' = [r \in Streams |-> overtaken'[r]]
  BY <1>1 DEF FlowInv
<1>13. Accounted(s)'
  <2> SUFFICES ASSUME NEW k \in table, log[k].project = OwnProject, log[k].seq <= cursor, k \notin after.got,
                      k \notin overtaken'[s]
               PROVE  \E j \in after.got : j # k /\ log[j].seq = log[k].seq
    BY <1>8, <1>11 DEF Accounted
  <2>1. k \in 1..Len(log) /\ log[k].seq \in Nat /\ k \in st.view /\ k \notin overtaken[s]
    BY <1>4, <1>12 DEF FlowInv
  <2>2. k \notin st.got /\ k \notin st.rows
    BY <1>8
  <2>3. CASE log[k].seq <= st.cursor
    <3>1. Accounted(s)
      BY DEF FlowInv
    <3> QED BY <1>2, <1>8, <2>1, <2>2, <2>3, <3>1 DEF Accounted
  <2>4. CASE ~ (log[k].seq <= st.cursor)
    <3>1. PICK r \in st.rows : cursor = log[r].seq
      <4>1. cursor # st.cursor
        BY <2>4
      <4> QED BY <1>6, <4>1 DEF SeqsOf
    <3>2. ~ (log[k].seq < log[r].seq)
      <4>1. FirstRows(stream[s])
        BY DEF FlowInv
      <4> QED BY <1>2, <2>1, <2>2, <2>4, <4>1 DEF FirstRows
    <3>3. log[k].seq = log[r].seq
      BY <1>6, <2>1, <3>1, <3>2
    <3> QED BY <1>8, <2>2, <3>3
  <2> QED BY <2>3, <2>4
<1>14. \A r \in Streams : Accounted(r)'
  BY <1>11, <1>12, <1>13 DEF FlowInv, Accounted
<1>15. \A r \in Streams : Resumes(stream'[r]) /\ FirstRows(stream[r])'
  BY <1>10, <1>11 DEF FlowInv, FirstRows
<1> QED BY <1>11, <1>12, <1>14, <1>15 DEF FlowInv, Counted, Logged

\* A stream that breaks falls back to the last number its client was sent.
LEMMA BrokenKeeps ==
  ASSUME FlowInv, NEW S, stream' = [s \in Streams |-> IF s \in S THEN Broken(stream[s]) ELSE stream[s]],
         inflight' \subseteq inflight, UNCHANGED <<log, table, overtaken>>, Counted'
  PROVE  FlowInv'
<1>1. ASSUME NEW s \in Streams
      PROVE  /\ Broken(stream[s]) \in Follower(Len(log)) /\ Resumes(Broken(stream[s])) /\ FirstRows(Broken(stream[s]))
             /\ Broken(stream[s]).cursor <= stream[s].cursor /\ Broken(stream[s]).got = stream[s].got
             /\ Broken(stream[s]).cursor \in Nat /\ stream[s].cursor \in Nat
  <2>1. stream[s] \in Follower(Len(log)) /\ Resumes(stream[s])
    BY DEF FlowInv
  <2>2. /\ Broken(stream[s]).pc = "off" /\ Broken(stream[s]).cursor = stream[s].lastId
        /\ Broken(stream[s]).lastId = stream[s].lastId /\ Broken(stream[s]).rows = {}
        /\ Broken(stream[s]).got = stream[s].got
    BY <2>1 DEF Broken, Follower
  <2>3. Broken(stream[s]) \in Follower(Len(log))
    BY <2>1 DEF Broken, Follower
  <2>4. stream[s].cursor \in Nat /\ stream[s].lastId \in Nat /\ stream[s].lastId <= stream[s].cursor
    BY <2>1 DEF Follower, Resumes
  <2> QED BY <2>2, <2>3, <2>4 DEF Resumes, FirstRows
<1>2. ASSUME NEW s \in Streams
      PROVE  /\ stream'[s] \in Follower(Len(log)) /\ Resumes(stream'[s]) /\ FirstRows(stream'[s])
             /\ stream'[s].cursor <= stream[s].cursor /\ stream'[s].got = stream[s].got
             /\ stream'[s].cursor \in Nat /\ stream[s].cursor \in Nat
  BY <1>1 DEF FlowInv, Follower
<1>3. ASSUME NEW s \in Streams PROVE Accounted(s)'
  <2> SUFFICES ASSUME NEW k \in table, log[k].project = OwnProject, log[k].seq <= stream'[s].cursor,
                      k \notin stream[s].got, k \notin overtaken[s]
               PROVE  \E j \in stream[s].got : j # k /\ log[j].seq = log[k].seq
    BY <1>2 DEF Accounted
  <2>1. log[k].seq \in Nat
    BY DEF FlowInv, Logged
  <2>2. log[k].seq <= stream[s].cursor
    BY <1>2, <2>1
  <2> QED BY <2>2 DEF FlowInv, Accounted
<1>4. \A s \in Streams : FirstRows(stream[s])'
  BY <1>2 DEF FirstRows
<1>5. stream' \in [Streams -> Follower(Len(log'))]
  BY <1>2
<1> QED BY <1>2, <1>3, <1>4, <1>5 DEF FlowInv, Logged

\* What leaves the counters alone.
LEMMA CountersStay ==
  ASSUME FlowInv, mem' = [i \in Isolates |-> mem'[i]],
         \A i \in Isolates : DOMAIN mem'[i] = DOMAIN mem[i] /\ mem'[i].seq = mem[i].seq
  PROVE  Counted'
  BY DEF FlowInv, Counted, Counts

\* What counts further on one isolate.
LEMMA CounterMoves ==
  ASSUME FlowInv, NEW i \in Isolates, mem' = [j \in Isolates |-> mem'[j]], \A j \in Isolates : j # i => mem'[j] = mem[j],
         DOMAIN mem'[i] = DOMAIN mem[i], mem'[i].seq \in Nat
  PROVE  Counted'
  BY DEF FlowInv, Counted, Counts

\* The kinds of events the isolates publish.
Kinds == {"APPROVAL_REQUESTED", "APPROVAL_GRANTED", "APPROVAL_REJECTED", "REVIEW_BLOCKED", "REVIEW_FINDING",
          "REVIEW_APPROVED", "MESSAGE_SENT", "OBJECTIVE_SUBMITTED", "MEETING_STARTED", "PLAN_FORMULATED",
          "MEETING_ENDED", "STEP_DELEGATED", "AGENT_STARTED_WORK", "AGENT_HANDOFF"}

LEMMA Listed ==
  ASSUME NEW S
  PROVE  /\ \A v \in S : <<v>> \in Seq(S)
         /\ \A v, w \in S : <<v, w>> \in Seq(S)
         /\ \A v, w, x \in S : <<v, w, x>> \in Seq(S)
         /\ \A v, w, x, y \in S : <<v, w, x, y>> \in Seq(S)
<1>1. \A v \in S : <<v>> \in Seq(S)
  OBVIOUS
<1>2. \A v, w \in S : <<v, w>> \in Seq(S)
  OBVIOUS
<1>3. \A v, w, x \in S : <<v, w, x>> \in Seq(S)
  OBVIOUS
<1>4. \A v, w, x, y \in S : <<v, w, x, y>> \in Seq(S)
  OBVIOUS
<1> QED BY <1>1, <1>2, <1>3, <1>4

LEMMA ReviewsHaveEvents == \A n, evidence : ReviewEvents(n, evidence) \in Seq(Kinds)
<1> SUFFICES ASSUME NEW n, NEW evidence PROVE ReviewEvents(n, evidence) \in Seq(Kinds)
  OBVIOUS
<1>1. {"REVIEW_BLOCKED", "MESSAGE_SENT", "REVIEW_FINDING", "REVIEW_APPROVED"} \subseteq Kinds
  BY DEF Kinds
<1>2. /\ <<"REVIEW_BLOCKED">> \in Seq(Kinds) /\ <<"REVIEW_BLOCKED", "MESSAGE_SENT">> \in Seq(Kinds)
      /\ <<"REVIEW_FINDING", "MESSAGE_SENT">> \in Seq(Kinds) /\ <<"REVIEW_APPROVED", "MESSAGE_SENT">> \in Seq(Kinds)
  BY <1>1, Listed
<1> QED BY <1>2 DEF ReviewEvents

\* The events of a step that is handed out.
LEMMA DelegationsHaveEvents ==
  \A c \in BOOLEAN : <<"STEP_DELEGATED", "AGENT_STARTED_WORK">> \o (IF c THEN <<"AGENT_HANDOFF">> ELSE <<>>) \in Seq(Kinds)
<1>1. \A c \in BOOLEAN : (IF c THEN <<"AGENT_HANDOFF">> ELSE <<>>) \in Seq(Kinds)
  <2>1. <<"AGENT_HANDOFF">> \in Seq(Kinds) /\ <<>> \in Seq(Kinds)
    BY Listed DEF Kinds
  <2> QED BY <2>1
<1>2. <<"STEP_DELEGATED", "AGENT_STARTED_WORK">> \in Seq(Kinds)
  BY Listed DEF Kinds
<1> QED BY <1>1, <1>2, ConcatProperties

\* No step of the API's office makes a stream skip a row.
LEMMA OfficeFlows ==
  ASSUME FlowInv, Next
  PROVE  FlowInv'
<1>0. ASSUME UNCHANGED <<mem, bus>> PROVE FlowInv'
  BY <1>0, CountersKept DEF FlowInv, Counted
<1>1. ASSUME UNCHANGED bus, mem' = [i \in Isolates |-> mem'[i]],
             \A i \in Isolates : DOMAIN mem'[i] = DOMAIN mem[i] /\ mem'[i].seq = mem[i].seq
      PROVE  FlowInv'
  BY <1>1, CountersStay, CountersKept
<1>2. /\ mem = [i \in Isolates |-> mem[i]] /\ \A i \in Isolates : "seq" \in DOMAIN mem[i] /\ mem[i].seq \in Nat
  BY DEF FlowInv, Counted, Counts
<1>3. \A s \in Streams : stream[s] \in Follower(Len(log)) /\ Resumes(stream[s])
  BY DEF FlowInv
<1>4. ASSUME NEW k \in DOMAIN log, PersistEvent(k) PROVE FlowInv'
  <2>1. /\ table' = table \cup {k} /\ inflight' = inflight \ {k}
        /\ overtaken' = [s \in Streams |-> IF log[k].seq <= stream[s].cursor THEN overtaken[s] \cup {k} ELSE overtaken[s]]
        /\ UNCHANGED <<mem, log, stream>>
    BY <1>4 DEF PersistEvent
  <2>2. ASSUME NEW s \in Streams PROVE Accounted(s)'
    <3>1. Accounted(s) /\ overtaken'[s] = IF log[k].seq <= stream[s].cursor THEN overtaken[s] \cup {k} ELSE overtaken[s]
      BY <2>1 DEF FlowInv
    <3> QED BY <2>1, <3>1 DEF Accounted
  <2> QED BY <2>1, <2>2 DEF FlowInv, Counted, Logged, FirstRows
<1>5. ASSUME NEW k \in DOMAIN log, LoseEvent(k) PROVE FlowInv'
  <2>1. inflight' = inflight \ {k} /\ UNCHANGED <<mem, log, table, stream, overtaken>>
    BY <1>5 DEF LoseEvent
  <2> QED BY <2>1 DEF FlowInv, Counted, Logged, FirstRows, Accounted
<1>6. ASSUME NEW s \in Streams, NEW i \in Isolates, Connect(s, i) PROVE FlowInv'
  <2> DEFINE limit == 2 * PollLimit
             st == [stream[s] EXCEPT !.pc = IF stream[s].lastId > 0 THEN "replay" ELSE "on", !.iso = i,
                                     !.since = Len(log), !.cursor = stream[s].lastId, !.view = table,
                                     !.rows = IF stream[s].lastId > 0 THEN Missed(stream[s].lastId, limit) ELSE {}]
  <2>1. stream' = [stream EXCEPT ![s] = st]
    BY <1>6 DEF Connect, FlowInv
  <2>2. limit \in Nat
    BY LimitAssumption
  <2>closed. stream[s].pc = "off" /\ stream[s].cursor = stream[s].lastId
    BY <1>3, <1>6 DEF Connect, Resumes
  <2>4. table \subseteq 1..Len(log) /\ Len(log) \in Nat
    BY DEF FlowInv, Logged
  <2>5. Missed(stream[s].lastId, limit) \subseteq 1..Len(log)
    BY <2>4, MissedAreRows
  <2> HIDE DEF limit
  <2>6. /\ st.cursor = stream[s].lastId /\ st.lastId = stream[s].lastId /\ st.view = table /\ st.got = stream[s].got
        /\ st.rows = Missed(st.cursor, limit) \/ st.rows = {}
    BY <1>3 DEF Follower
  <2>7. st \in Follower(Len(log))
    BY <1>3, <2>4, <2>5, ZenonT(40) DEF Follower
  <2> HIDE DEF st
  <2>8. Resumes(st)
    BY <2>closed, <2>6, <2>7 DEF Resumes, Follower
  <2>9. Counted'
    BY <1>2, <1>6, CountersStay DEF Connect
  <2>10. UNCHANGED <<log, inflight, table, overtaken>>
    BY <1>6 DEF Connect
  <2> QED BY <2>1, <2>2, <2>closed, <2>6, <2>7, <2>8, <2>9, <2>10, ReadsTable
<1>7. ASSUME NEW s \in Streams, Replay(s) PROVE FlowInv'
  <2>1. Len(log) \in Nat /\ UNCHANGED <<mem, log, inflight, table>>
    BY <1>7 DEF FlowInv, Logged, Replay
  <2>2. [stream[s] EXCEPT !.pc = "on", !.since = Len(log)] \in Follower(Len(log))
    BY <1>3, <2>1 DEF Follower
  <2> QED BY <1>7, <2>1, <2>2, DeliverKeeps DEF Replay
<1>8. ASSUME NEW s \in Streams, PollEnd(s) PROVE FlowInv'
  <2>1. UNCHANGED <<mem, log, inflight, table>> /\ Deliver(s, stream[s]) /\ stream[s].pc = "on"
    BY <1>8 DEF PollEnd
  <2>2. stream[s].since \in Nat /\ stream[s] = [stream[s] EXCEPT !.pc = "on", !.since = stream[s].since]
    BY <1>3, <2>1 DEF Follower
  <2> QED BY <1>3, <2>1, <2>2, DeliverKeeps
<1>9. ASSUME NEW s \in Streams, PollStart(s) PROVE FlowInv'
  <2> DEFINE st == [stream[s] EXCEPT !.polling = TRUE, !.view = table, !.rows = Missed(stream[s].cursor, PollLimit)]
  <2>1. stream' = [stream EXCEPT ![s] = st] /\ stream[s].pc = "on" /\ UNCHANGED <<mem, log, inflight, table, overtaken>>
    BY <1>9 DEF PollStart, FlowInv
  <2>2. PollLimit \in Nat
    BY LimitAssumption
  <2>3. Missed(stream[s].cursor, PollLimit) \subseteq 1..Len(log) /\ table \subseteq 1..Len(log)
    BY MissedAreRows DEF FlowInv, Logged
  <2>4. /\ st.cursor = stream[s].cursor /\ st.lastId = stream[s].lastId /\ st.pc = stream[s].pc
        /\ st.view = table /\ st.got = stream[s].got /\ st.rows = Missed(st.cursor, PollLimit)
    BY <1>3 DEF Follower
  <2>5. st \in Follower(Len(log))
    BY <1>3, <2>3 DEF Follower
  <2> HIDE DEF st
  <2>6. Resumes(st)
    BY <1>3, <2>4 DEF Resumes
  <2>7. Counted'
    BY <1>2, <2>1 DEF Counted, Counts
  <2> QED BY <2>1, <2>2, <2>4, <2>5, <2>6, <2>7, ReadsTable
<1>10. ASSUME NEW s \in Streams, Disconnect(s) PROVE FlowInv'
  <2>1. stream' = [r \in Streams |-> IF r \in {s} THEN Broken(stream[r]) ELSE stream[r]]
    BY <1>10 DEF Disconnect, FlowInv
  <2>2. UNCHANGED <<mem, log, inflight, table, overtaken>>
    BY <1>10 DEF Disconnect
  <2>3. Counted'
    BY <1>2, <2>2 DEF Counted, Counts
  <2> QED BY <2>1, <2>2, <2>3, BrokenKeeps
<1>11. ASSUME NEW i \in Isolates, Evict(i) PROVE FlowInv'
  <2> DEFINE S == {s \in Streams : stream[s].iso = i /\ stream[s].pc # "off"}
  <2>1. stream' = [s \in Streams |-> IF s \in S THEN Broken(stream[s]) ELSE stream[s]]
    BY <1>11 DEF Evict
  <2>2. inflight' \subseteq inflight /\ UNCHANGED <<log, table, overtaken>>
    BY <1>11 DEF Evict
  <2>3. Counts([Fresh EXCEPT !.life = mem[i].life + 1])
    BY DEF Counts, Fresh
  <2>4. Counted'
    BY <1>2, <1>11, <2>3 DEF Evict, Counted, Counts
  <2> HIDE DEF S
  <2> QED BY <2>1, <2>2, <2>4, BrokenKeeps
<1>12. ASSUME NEW i \in Isolates, WindowPasses(i) PROVE FlowInv'
  BY <1>1, <1>2, <1>12 DEF WindowPasses
<1>13. ASSUME NEW i \in Isolates, NEW given, PostPipeline(i, given) PROVE FlowInv'
  BY <1>1, <1>2, <1>13 DEF PostPipeline
<1>14. ASSUME NEW i \in Isolates, NEW n, NEW k, NEW d,
              PostTick(i, n) \/ StepCompleted(i, n, k) \/ PostCheckpointDecision(i, n, k, d)
       PROVE  FlowInv'
  <2>1. UNCHANGED bus /\ \E p : mem' = [mem EXCEPT ![i].pipelines[n] = p]
    BY <1>14 DEF PostTick, StepCompleted, PostCheckpointDecision
  <2> QED BY <1>1, <1>2, <2>1
<1>15. ASSUME NEW i \in Isolates, NEW project, RequestApproval(i, project) PROVE FlowInv'
  <2>1. Publish(i, <<"APPROVAL_REQUESTED">>, project, Len(log) + 1, TRUE) /\ <<"APPROVAL_REQUESTED">> \in Seq(Kinds)
    <3>1. <<"APPROVAL_REQUESTED">> \in Seq(Kinds)
      BY Listed DEF Kinds
    <3> QED BY <1>15, <3>1, Zenon DEF RequestApproval
  <2>2. PICK items : mem' = [mem EXCEPT ![i].approvals = items, ![i].seq = @ + 1, ![i].pool = TRUE]
    BY <1>15, Zenon DEF RequestApproval
  <2>3. mem' = [j \in Isolates |-> mem'[j]]
    <3>1. \E x, y, z : mem' = [mem EXCEPT ![i] = x, ![i] = y, ![i] = z]
      BY <2>2, Zenon
    <3> QED BY <1>2, <3>1
  <2>4. \A j \in Isolates : j # i => mem'[j] = mem[j]
    BY <1>2, <2>2
  <2>5. DOMAIN mem'[i] = DOMAIN mem[i] /\ mem'[i].seq = mem[i].seq + 1
    BY <1>2, <2>2
  <2>6. Counted'
    BY <1>2, <2>3, <2>4, <2>5, CounterMoves
  <2> QED BY <2>1, <2>6, PublishKeeps
<1>16. ASSUME NEW i \in Isolates, NEW project, PostPlan(i, project) PROVE FlowInv'
  <2>1. /\ Publish(i, <<"OBJECTIVE_SUBMITTED", "MEETING_STARTED", "PLAN_FORMULATED", "MEETING_ENDED">>, project,
                   0, mem[i].pool)
        /\ <<"OBJECTIVE_SUBMITTED", "MEETING_STARTED", "PLAN_FORMULATED", "MEETING_ENDED">> \in Seq(Kinds)
    BY <1>16, Listed DEF PostPlan, Kinds
  <2>2. Counted'
    BY <1>2, <1>16, CounterMoves DEF PostPlan
  <2> QED BY <2>1, <2>2, PublishKeeps
<1>17. ASSUME NEW i \in Isolates, NEW n, NEW role, NEW d, DecideApproval(i, n, role, d) PROVE FlowInv'
  <2> DEFINE kinds == <<IF d = "GRANT" THEN "APPROVAL_GRANTED" ELSE "APPROVAL_REJECTED">>
             item == mem[i].approvals[n]
  <2>1. Publish(i, kinds, item.project, item.id, TRUE) /\ kinds \in Seq(Kinds)
    <3>1. <<IF d = "GRANT" THEN "APPROVAL_GRANTED" ELSE "APPROVAL_REJECTED">> \in Seq(Kinds)
      BY Listed DEF Kinds
    <3> QED BY <1>17, <3>1, Zenon DEF DecideApproval
  <2> HIDE DEF kinds, item
  <2>2. PICK status : mem' = [mem EXCEPT ![i].approvals[n].status = status, ![i].seq = @ + 1, ![i].pool = TRUE]
    BY <1>17, Zenon DEF DecideApproval
  <2>3. mem' = [j \in Isolates |-> mem'[j]]
    <3>1. \E x, y, z : mem' = [mem EXCEPT ![i] = x, ![i] = y, ![i] = z]
      BY <2>2, Zenon
    <3> QED BY <1>2, <3>1
  <2>4. \A j \in Isolates : j # i => mem'[j] = mem[j]
    BY <1>2, <2>2
  <2>5. DOMAIN mem'[i] = DOMAIN mem[i] /\ mem'[i].seq = mem[i].seq + 1
    BY <1>2, <2>2
  <2>6. Counted'
    BY <1>2, <2>3, <2>4, <2>5, CounterMoves
  <2> QED BY <2>1, <2>6, PublishKeeps
<1>18. ASSUME NEW i \in Isolates, NEW t, NEW evidence, PostReview(i, t, evidence) PROVE FlowInv'
  <2> DEFINE kinds == ReviewEvents(mem[i].iterations[t] + 1, evidence)
  <2>1. kinds \in Seq(Kinds) /\ Len(kinds) \in Nat
    BY ReviewsHaveEvents
  <2>2. /\ Publish(i, kinds, OwnProject, t, TRUE)
        /\ mem' = [mem EXCEPT ![i].iterations[t] = mem[i].iterations[t] + 1, ![i].seq = @ + Len(kinds), ![i].pool = TRUE]
    BY <1>18 DEF PostReview
  <2> HIDE DEF kinds
  <2>3. PICK n : mem' = [mem EXCEPT ![i].iterations[t] = n, ![i].seq = @ + Len(kinds), ![i].pool = TRUE]
    BY <2>2, Zenon
  <2>4. mem' = [j \in Isolates |-> mem'[j]]
    <3>1. \E x, y, z : mem' = [mem EXCEPT ![i] = x, ![i] = y, ![i] = z]
      BY <2>3, Zenon
    <3> QED BY <1>2, <3>1
  <2>5. \A j \in Isolates : j # i => mem'[j] = mem[j]
    BY <1>2, <2>3
  <2>6. DOMAIN mem'[i] = DOMAIN mem[i] /\ mem'[i].seq = mem[i].seq + Len(kinds)
    BY <1>2, <2>3
  <2>7. Counted'
    BY <1>2, <2>1, <2>4, <2>5, <2>6, CounterMoves
  <2> QED BY <2>1, <2>2, <2>7, PublishKeeps
<1>19. ASSUME NEW i \in Isolates, NEW given, NEW k, ExecuteStep(i, given, k) PROVE FlowInv'
  <2>1. \/ UNCHANGED <<mem, bus>>
        \/ \E kinds \in Seq(Kinds) : Publish(i, kinds, OwnProject, k, mem[i].pool) /\ mem' = [mem EXCEPT ![i].seq = @ + Len(kinds)]
    BY <1>19, DelegationsHaveEvents, Zenon DEF ExecuteStep
  <2>2. ASSUME NEW kinds \in Seq(Kinds), Publish(i, kinds, OwnProject, k, mem[i].pool), mem' = [mem EXCEPT ![i].seq = @ + Len(kinds)]
        PROVE  FlowInv'
    <3>1. Len(kinds) \in Nat
      OBVIOUS
    <3>2. Counted'
      BY <1>2, <2>2, <3>1, CounterMoves
    <3> QED BY <2>2, <3>2, PublishKeeps
  <2> QED BY <1>0, <2>1, <2>2
<1>20. ASSUME NEW i \in Isolates, NEW m, NEW valid, PostTask(i, m, valid) PROVE FlowInv'
  BY <1>1, <1>2, <1>20 DEF PostTask
<1>21. ASSUME NEW i \in Isolates, NEW c, NEW m, NEW sync, NEW ok, Command(i, c, m, sync, ok) PROVE FlowInv'
  BY <1>1, <1>2, <1>21 DEF Command
<1>22. ASSUME NEW i \in Isolates, NEW c, NothingToExecute(i, c) PROVE FlowInv'
  BY <1>1, <1>2, <1>22 DEF NothingToExecute
<1>23. ASSUME NEW i \in Isolates, NEW c, SyncReview(i, c) PROVE FlowInv'
  <2>1. PICK kinds, pc, n, told :
          /\ kinds \in Seq(Kinds)
          /\ Publish(i, kinds, OwnProject, mem[i].sessions[c].task, mem[i].pool)
          /\ mem' = [mem EXCEPT ![i].sessions[c].pc = pc, ![i].seq = @ + Len(kinds),
                                ![i].iterations[mem[i].sessions[c].task] = n, ![i].sessions[c].events = told]
    BY <1>23, ReviewsHaveEvents, Zenon DEF SyncReview
  <2>2. mem' = [j \in Isolates |-> mem'[j]]
    <3>1. \E w, x, y, z : mem' = [mem EXCEPT ![i] = w, ![i] = x, ![i] = y, ![i] = z]
      BY <2>1, Zenon
    <3> QED BY <1>2, <3>1
  <2>others. \A j \in Isolates : j # i => mem'[j] = mem[j]
    BY <1>2, <2>1
  <2>4. DOMAIN mem'[i] = DOMAIN mem[i] /\ mem'[i].seq = mem[i].seq + Len(kinds)
    BY <1>2, <2>1
  <2>5. Len(kinds) \in Nat
    OBVIOUS
  <2>6. Counted'
    BY <1>2, <2>2, <2>others, <2>4, <2>5, CounterMoves
  <2> QED BY <2>1, <2>6, PublishKeeps
<1>24. ASSUME NEW i \in Isolates, NEW c, SyncFail(i, c) PROVE FlowInv'
  <2>1. PICK pc, told : mem' = [mem EXCEPT ![i].sessions[c].pc = pc, ![i].sessions[c].events = told]
    BY <1>24 DEF SyncFail
  <2>2. mem' = [j \in Isolates |-> mem'[j]]
    <3>1. \E a, b : mem' = [mem EXCEPT ![i] = a, ![i] = b]
      BY <2>1, Zenon
    <3> QED BY <1>2, <3>1
  <2>others. \A j \in Isolates : j # i => mem'[j] = mem[j]
    BY <1>2, <2>1
  <2>4. DOMAIN mem'[i] = DOMAIN mem[i] /\ mem'[i].seq = mem[i].seq
    BY <1>2, <2>1
  <2>5. UNCHANGED bus
    BY <1>24 DEF SyncFail
  <2> QED BY <1>1, <2>2, <2>others, <2>4, <2>5
<1>25. ASSUME NEW i \in Isolates, NEW c, NEW t, NEW result, SyncExecute(i, c, t, result) PROVE FlowInv'
  BY <1>1, <1>2, <1>25 DEF SyncExecute
<1>26. ASSUME NEW t, NEW result,
              PostRetry(t) \/ PostCancel(t) \/ WorkerTakes(t) \/ LeaseExpires(t) \/ WorkerEnds(t, result)
       PROVE  FlowInv'
  BY <1>0, <1>26 DEF PostRetry, PostCancel, WorkerTakes, LeaseExpires, WorkerEnds
<1>27. ASSUME NEW ok, TriggerContainer(ok) \/ Alarm(ok) \/ RenewActivity \/ OnActivityExpired \/ ContainerCrash
       PROVE  FlowInv'
  BY <1>0, <1>27 DEF TriggerContainer, Alarm, RenewActivity, OnActivityExpired, ContainerCrash
<1> QED BY <1>4, <1>5, <1>6, <1>7, <1>8, <1>9, <1>10, <1>11, <1>12, <1>13, <1>14, <1>15, <1>16, <1>17, <1>18, <1>19,
           <1>20, <1>21, <1>22, <1>23, <1>24, <1>25, <1>26, <1>27 DEF Next

\* Only the API's office touches its memories and streams.
LEMMA FlowStep == FlowInv /\ [SystemNext]_systemVars => FlowInv'
<1> SUFFICES ASSUME FlowInv, [SystemNext]_systemVars PROVE FlowInv'
  OBVIOUS
<1>1. ASSUME UNCHANGED <<mem, bus>> PROVE FlowInv'
  BY <1>1, CountersKept DEF FlowInv, Counted
<1>2. ASSUME ServerNext PROVE UNCHANGED <<mem, bus>>
  <2>1. ASSUME NEW c, NEW kept, OpenStream(c) \/ CloseStream(c, kept) PROVE UNCHANGED <<mem, bus>>
    BY <2>1 DEF OpenStream, CloseStream, vars
  <2>2. ASSUME Restart PROVE UNCHANGED <<mem, bus>>
    BY <2>2 DEF Restart
  <2>review. ASSUME NEW project, NEW t, NEW evidence, NEW n, NEW role, NEW d,
               \/ ServerPlan(project) \/ ServerRequestApproval(project) \/ ServerReview(t, evidence, OwnProject)
               \/ ServerDecideApproval(n, role, d)
        PROVE  UNCHANGED <<mem, bus>>
    BY <2>review DEF ServerPlan, ServerRequestApproval, ServerReview, ServerDecideApproval
  <2>4. ASSUME NEW given, NEW n, NEW k, NEW d,
               ServerPostPipeline(given) \/ ServerPostTick(n) \/ ServerDecideCheckpoint(n, k, d)
        PROVE  UNCHANGED <<mem, bus>>
    BY <2>4 DEF ServerPostPipeline, ServerPostTick, ServerDecideCheckpoint, PipelineStep
  <2>5. ASSUME NEW given, NEW k, NEW p, NEW n, NEW ok, NEW t,
               \/ PostExecuteStep(given, k) \/ PostIngest(p) \/ AnnounceStep(n) \/ ListTasks(n, ok) \/ IntakeEnds(n, ok)
               \/ MarkTask(n, ok) \/ WorkerOverwrites(t)
        PROVE  UNCHANGED <<mem, bus>>
    BY <2>5 DEF PostExecuteStep, PostIngest, Waiting, AnnounceStep, ListTasks, IntakeEnds, MarkTask, WorkerOverwrites
  <2> QED BY <1>2, <2>1, <2>2, <2>review, <2>4, <2>5 DEF ServerNext
<1>3. ASSUME LettersNext, UNCHANGED serverVars PROVE UNCHANGED <<mem, bus>>
  BY <1>3 DEF LettersNext, RestartProcess, Record, Resolve, vars
<1>4. ASSUME ContextNext, UNCHANGED serverVars PROVE UNCHANGED <<mem, bus>>
  BY <1>4 DEF ContextNext, AssembleContext, BuildDecision, vars
<1>5. CASE UNCHANGED systemVars
  BY <1>1, <1>5 DEF vars, systemVars
<1> QED BY <1>1, <1>2, <1>3, <1>4, <1>5, OfficeFlows DEF SystemNext

-----------------------------------------------------------------------------
(* The stream of the PDL API: a buffer of its own *)

Oldest(memory) == memory.seq - Len(memory.history)

\* The buffer holds the last events of this life, as many as it has room for.
Remembers(memory) ==
  /\ {"life", "seq", "history"} \subseteq DOMAIN memory /\ memory.life \in Nat /\ memory.seq \in Nat
  /\ memory.history \in Seq(ToSet(memory.history))
  /\ Len(memory.history) <= memory.seq
  /\ Len(memory.history) = MaxHistory \/ Len(memory.history) = memory.seq
  /\ \A k \in DOMAIN memory.history :
       memory.history[k].life = memory.life /\ memory.history[k].seq = Oldest(memory) + k

\* What the server published in this life and still remembers is in its place in the buffer.
Placed(memory, e) ==
  /\ e.life \in Nat /\ e.seq \in Nat /\ e.life <= memory.life
  /\ e.life = memory.life =>
       /\ 1 <= e.seq /\ e.seq <= memory.seq
       /\ e.seq > Oldest(memory) => memory.history[e.seq - Oldest(memory)].project = e.project

Browser == [pc : {"off", "on"}, got : Seq(Nat \X Nat), base : Nat, start : Nat, horizon : Nat]

\* A browser holds nothing the server has not said, and it holds the server's lives and events in order.
Ordered(memory, got) ==
  /\ \A k \in DOMAIN got :
       got[k][1] <= memory.life /\ (got[k][1] = memory.life => 1 <= got[k][2] /\ got[k][2] <= memory.seq)
  /\ \A j, k \in DOMAIN got :
       j < k => got[j][1] <= got[k][1] /\ (got[j][1] = memory.life /\ got[k][1] = memory.life => got[j][2] < got[k][2])

\* Nothing is missing: of what was published, or, to a closed stream, up to the last event it holds.
NothingMissing(cl) ==
  \A e \in ToSet(trail) :
    (/\ e.life = server.life /\ MatchesFilter(e.project) /\ e.seq > cl.start /\ e.seq > cl.horizon
     /\ cl.pc = "on" \/ (Follows(cl) /\ e.seq <= Last(cl.got)[2]))
    => \E k \in DOMAIN cl.got : cl.got[k][1] = server.life /\ cl.got[k][2] = e.seq

BusInv ==
  /\ Remembers(server)
  /\ trail \in Seq(ToSet(trail)) /\ \A e \in ToSet(trail) : Placed(server, e)
  /\ client \in [Clients -> Browser]
  /\ \A c \in Clients : Ordered(server, client[c].got) /\ NothingMissing(client[c])

LEMMA BusInitially == SystemInit => BusInv
<1> SUFFICES ASSUME SystemInit PROVE BusInv
  OBVIOUS
<1>1. /\ server = Listen(0) /\ trail = <<>>
      /\ client = [c \in Clients |-> [pc |-> "off", got |-> <<>>, base |-> 0, start |-> 0, horizon |-> 0]]
  BY DEF SystemInit, ServerInit
<1>2. Remembers(server)
  BY <1>1 DEF Listen, Remembers, Oldest
<1>3. ToSet(trail) = {} /\ trail \in Seq(ToSet(trail))
  BY <1>1 DEF ToSet
<1>4. client \in [Clients -> Browser]
  <2>1. [pc |-> "off", got |-> <<>>, base |-> 0, start |-> 0, horizon |-> 0] \in Browser
    BY DEF Browser
  <2> QED BY <1>1, <2>1
<1>5. \A c \in Clients : client[c].got = <<>>
  BY <1>1
<1> QED BY <1>2, <1>3, <1>4, <1>5 DEF BusInv, Ordered, NothingMissing

LEMMA MaxOfTwo ==
  ASSUME NEW n \in Nat, NEW x \in Int
  PROVE  MaxOf(n, {x}) \in Nat /\ MaxOf(n, {x}) >= n /\ MaxOf(n, {x}) >= x
<1>1. \E m \in {x} \cup {n} : \A y \in {x} \cup {n} : m >= y
  <2>1. CASE x <= n
    BY <2>1
  <2>2. CASE ~ (x <= n)
    BY <2>2
  <2> QED BY <2>1, <2>2
<1>2. /\ MaxOf(n, {x}) \in {x} \cup {n} /\ \A y \in {x} \cup {n} : MaxOf(n, {x}) >= y
  BY <1>1 DEF MaxOf
<1> QED BY <1>2

\* What a browser is sent of some events.
Sent(events) == [k \in DOMAIN events |-> <<events[k].life, events[k].seq>>]

\* Events of this life after a last one, in order, that the memory after them knows.
Later(memory, last, n, events, after) ==
  /\ memory.life \in Nat /\ memory.seq \in Nat /\ last \in Nat /\ n \in Nat /\ DOMAIN events = 1..n
  /\ \A k \in 1..n : /\ events[k].life = memory.life
                     /\ events[k].seq \in Nat /\ last < events[k].seq /\ events[k].seq <= after.seq
  /\ \A j, k \in 1..n : j < k => events[j].seq < events[k].seq
  /\ after.life = memory.life /\ after.seq \in Nat /\ memory.seq <= after.seq

\* Of this life, nothing after a last event was heard.
Until(memory, got, last) == \A k \in DOMAIN got : got[k][1] = memory.life => got[k][2] <= last

\* What was heard, with what the events add to it.
HeardMore(memory, got, n, events, after, heard) ==
  /\ heard \in Seq(Nat \X Nat) /\ Len(heard) = Len(got) + n /\ Ordered(after, heard)
  /\ \A k \in DOMAIN got : k \in DOMAIN heard /\ heard[k] = got[k]
  /\ \A k \in 1..n : \E j \in DOMAIN heard : heard[j][1] = memory.life /\ heard[j][2] = events[k].seq

\* Later events of this life are heard after everything heard before.
LEMMA HearsMore ==
  ASSUME NEW memory, NEW got \in Seq(Nat \X Nat), Ordered(memory, got),
         NEW n, NEW events, NEW last, NEW after, Later(memory, last, n, events, after),
         Until(memory, got, last), NEW heard, heard = got \o Sent(events)
  PROVE  HeardMore(memory, got, n, events, after, heard)
<1>0. /\ memory.life \in Nat /\ memory.seq \in Nat /\ last \in Nat /\ n \in Nat /\ DOMAIN events = 1..n
      /\ \A k \in 1..n : events[k].life = memory.life /\ events[k].seq \in Nat /\ last < events[k].seq
      /\ \A j, k \in 1..n : j < k => events[j].seq < events[k].seq
      /\ after.life = memory.life /\ after.seq \in Nat /\ memory.seq <= after.seq
      /\ \A k \in 1..n : events[k].seq <= after.seq
      /\ \A k \in DOMAIN got : got[k][1] = memory.life => got[k][2] <= last
  BY DEF Later, Until
<1> DEFINE new == [k \in DOMAIN events |-> <<events[k].life, events[k].seq>>]
<1>1. new \in Seq(Nat \X Nat) /\ Len(new) = n /\ \A k \in 1..n : new[k][1] = memory.life /\ new[k][2] = events[k].seq
  <2>1. new \in [1..n -> Nat \X Nat]
    BY <1>0
  <2>2. new = [k \in 1..n |-> new[k]] /\ \A k \in 1..n : new[k] \in Nat \X Nat
    BY <1>0, <2>1
  <2>3. new \in Seq(Nat \X Nat)
    <3> HIDE DEF new
    <3> QED BY <1>0, <2>2, SequenceOf
  <2>4. Len(new) = n
    <3> HIDE DEF new
    <3> QED BY <1>0, <2>1, <2>3
  <2>5. \A k \in 1..n : new[k] = <<events[k].life, events[k].seq>>
    BY <1>0
  <2>6. \A k \in 1..n : new[k][1] = memory.life /\ new[k][2] = events[k].seq
    <3> HIDE DEF new
    <3> QED BY <1>0, <2>5
  <2> QED BY <1>0, <2>3, <2>4, <2>6
<1> HIDE DEF new
<1>2. heard \in Seq(Nat \X Nat) /\ Len(heard) = Len(got) + n /\ Len(got) \in Nat /\ DOMAIN got = 1..Len(got)
      /\ DOMAIN heard = 1..(Len(got) + n)
  <2>1. heard = got \o new
    BY DEF new, Sent
  <2>2. heard \in Seq(Nat \X Nat) /\ Len(heard) = Len(got) + n
    BY <1>1, <2>1, ConcatProperties
  <2> QED BY <1>0, <2>2
<1>3. \A k \in 1..(Len(got) + n) : heard[k] = IF k <= Len(got) THEN got[k] ELSE new[k - Len(got)]
  BY <1>0, <1>1, ConcatProperties, Zenon DEF new, Sent
<1>4. \A k \in DOMAIN got : k \in DOMAIN heard /\ heard[k] = got[k]
  <2>1. \A k \in 1..Len(got) : k \in 1..(Len(got) + n) /\ k <= Len(got)
    BY <1>0, <1>2
  <2> QED BY <1>0, <1>2, <1>3, <2>1, Zenon
<1>5. \A k \in DOMAIN heard : k \notin DOMAIN got => k - Len(got) \in 1..n /\ heard[k][1] = memory.life /\ heard[k][2] = events[k - Len(got)].seq
  <2>1. \A k \in 1..(Len(got) + n) : k \notin 1..Len(got) => ~ (k <= Len(got)) /\ k - Len(got) \in 1..n
    BY <1>0, <1>2
  <2>2. \A k \in DOMAIN heard : k \notin DOMAIN got => k - Len(got) \in 1..n /\ heard[k] = new[k - Len(got)]
    BY <1>0, <1>2, <1>3, <2>1, Zenon
  <2> QED BY <1>0, <1>1, <2>2
<1>6. ASSUME NEW k \in 1..n PROVE \E j \in DOMAIN heard : heard[j][1] = memory.life /\ heard[j][2] = events[k].seq
  <2>0. n \in Nat /\ k \in Nat /\ 1 <= k /\ k <= n
    BY <1>0
  <2>1. Len(got) + k \in DOMAIN heard /\ Len(got) + k \notin DOMAIN got /\ (Len(got) + k) - Len(got) = k
    BY <1>2, <2>0
  <2>2. heard[Len(got) + k][1] = memory.life /\ heard[Len(got) + k][2] = events[k].seq
    BY <1>0, <1>5, <2>1
  <2> QED BY <1>0, <2>1, <2>2
<1>7. \A k \in DOMAIN got : got[k][1] \in Nat /\ got[k][2] \in Nat
  OBVIOUS
<1>8. ASSUME NEW k \in DOMAIN heard
      PROVE  heard[k][1] <= after.life /\ (heard[k][1] = after.life => 1 <= heard[k][2] /\ heard[k][2] <= after.seq)
  <2>1. CASE k \in DOMAIN got
    BY <1>0, <1>4, <1>7, <2>1, SMTT(30) DEF Ordered
  <2>2. CASE k \notin DOMAIN got
    <3>1. k - Len(got) \in 1..n /\ heard[k][1] = memory.life /\ heard[k][2] = events[k - Len(got)].seq
      BY <1>0, <1>5, <2>2
    <3>2. events[k - Len(got)].seq \in Nat /\ last < events[k - Len(got)].seq /\ events[k - Len(got)].seq <= after.seq
      BY <1>0, <3>1
    <3> QED BY <1>0, <3>1, <3>2
  <2> QED BY <1>0, <2>1, <2>2
<1>9. ASSUME NEW j \in DOMAIN heard, NEW k \in DOMAIN heard, j < k
      PROVE  /\ heard[j][1] <= heard[k][1]
             /\ heard[j][1] = after.life /\ heard[k][1] = after.life => heard[j][2] < heard[k][2]
  <2>0. j \in Nat /\ k \in Nat
    BY <1>0, <1>2
  <2>1. CASE k \in DOMAIN got
    <3>1. j \in DOMAIN got
      BY <1>0, <1>2, <1>9, <2>1
    <3> QED BY <1>0, <1>4, <1>9, <2>1, <3>1 DEF Ordered
  <2>2. CASE k \notin DOMAIN got /\ j \in DOMAIN got
    <3>1. k - Len(got) \in 1..n /\ heard[k][1] = memory.life /\ heard[k][2] = events[k - Len(got)].seq /\ heard[j] = got[j]
      BY <1>0, <1>4, <1>5, <2>2
    <3>2. got[j][1] <= memory.life
      BY <1>0, <2>2 DEF Ordered
    <3>3. got[j][1] = memory.life => got[j][2] < events[k - Len(got)].seq
      <4>1. events[k - Len(got)].seq \in Nat /\ last < events[k - Len(got)].seq
        BY <1>0, <3>1
      <4>2. got[j][1] = memory.life => got[j][2] <= last /\ got[j][2] \in Nat
        BY <1>0, <1>7, <2>2
      <4>3. last \in Nat
        BY <1>0
      <4> QED BY <4>1, <4>2, <4>3, SMTT(30)
    <3> QED BY <1>0, <3>1, <3>2, <3>3
  <2>3. CASE k \notin DOMAIN got /\ j \notin DOMAIN got
    <3>1. /\ k - Len(got) \in 1..n /\ heard[k][1] = memory.life /\ heard[k][2] = events[k - Len(got)].seq
          /\ j - Len(got) \in 1..n /\ heard[j][1] = memory.life /\ heard[j][2] = events[j - Len(got)].seq
      BY <1>0, <1>5, <2>3
    <3>2. j - Len(got) < k - Len(got)
      BY <1>0, <1>2, <1>9, <2>0
    <3>3. events[j - Len(got)].seq < events[k - Len(got)].seq
      BY <1>0, <3>1, <3>2, Zenon
    <3> QED BY <1>0, <3>1, <3>3
  <2> QED BY <1>0, <2>1, <2>2, <2>3
<1>10. Ordered(after, heard)
  BY <1>0, <1>8, <1>9 DEF Ordered
<1> QED BY <1>2, <1>4, <1>6, <1>10 DEF HeardMore

\* A stream that is cut holds a first part of what it held.
LEMMA CutKeeps ==
  ASSUME BusInv, NEW c \in Clients, NEW kept \in 0..Len(client[c].got)
  PROVE  /\ Cut(client[c], kept) \in Browser /\ Ordered(server, Cut(client[c], kept).got)
         /\ NothingMissing(Cut(client[c], kept))
         /\ Len(Cut(client[c], kept).got) = kept /\ Cut(client[c], kept).pc = "off"
         /\ \A k \in 1..kept : Cut(client[c], kept).got[k] = client[c].got[k]
<1> DEFINE got == client[c].got
           cut == SubSeq(got, 1, kept)
<1>1. client[c] \in Browser /\ Ordered(server, got)
  BY DEF BusInv
<1>2. got \in Seq(Nat \X Nat) /\ Len(got) \in Nat /\ DOMAIN got = 1..Len(got) /\ \A k \in 1..Len(got) : got[k] \in Nat \X Nat
  BY <1>1 DEF Browser
<1> HIDE DEF got
<1>3. kept \in Nat /\ kept <= Len(got) /\ 1..kept \subseteq 1..Len(got)
  BY <1>2 DEF got
<1>4. cut \in Seq(Nat \X Nat) /\ Len(cut) = kept /\ \A k \in 1..kept : cut[k] = got[k]
  <2>1. \A k \in 1..kept : got[k] \in Nat \X Nat
    BY <1>2, <1>3
  <2> QED BY <1>3, <2>1, SubSeqProperties
<1> HIDE DEF cut
<1>5. DOMAIN cut = 1..kept
  BY <1>4
<1>6. /\ Cut(client[c], kept) \in Browser /\ Cut(client[c], kept).got = cut /\ Cut(client[c], kept).pc = "off"
      /\ Cut(client[c], kept).start = client[c].start /\ Cut(client[c], kept).horizon = client[c].horizon
  BY <1>1, <1>4 DEF Cut, Browser, cut, got
<1>7. Ordered(server, cut)
  <2>1. \A k \in DOMAIN cut : k \in DOMAIN got /\ cut[k] = got[k]
    BY <1>2, <1>3, <1>4, <1>5
  <2> HIDE DEF cut
  <2> QED BY <1>1, <2>1 DEF Ordered
<1>8. ASSUME NEW e \in ToSet(trail), e.life = server.life, MatchesFilter(e.project), e.seq > client[c].start,
             e.seq > client[c].horizon, cut # <<>>, Last(cut)[1] = server.life, e.seq <= Last(cut)[2]
      PROVE  \E k \in DOMAIN cut : cut[k][1] = server.life /\ cut[k][2] = e.seq
  <2>1. kept \in 1..Len(got) /\ Last(cut) = got[kept] /\ kept # 0
    <3>1. kept # 0
      BY <1>4, <1>8
    <3> QED BY <1>3, <1>4, <3>1 DEF Last
  <2>2. e.seq \in Nat /\ got[kept][2] \in Nat
    BY <1>2, <2>1 DEF BusInv, Placed
  <2>3. got[Len(got)][1] = server.life /\ got[kept][2] <= got[Len(got)][2] /\ got[Len(got)][2] \in Nat
    <3>1. Len(got) \in DOMAIN got /\ kept \in DOMAIN got /\ got[kept][1] = server.life
      BY <1>2, <1>8, <2>1
    <3>2. got[Len(got)][1] \in Nat /\ server.life \in Nat /\ got[Len(got)][1] <= server.life /\ got[Len(got)][2] \in Nat
      BY <1>1, <1>2, <3>1 DEF Ordered, BusInv, Remembers
    <3>3. CASE kept = Len(got)
      BY <2>2, <3>1, <3>3
    <3>4. CASE kept < Len(got)
      <4>1. got[kept][1] <= got[Len(got)][1]
        BY <1>1, <3>1, <3>4 DEF Ordered
      <4>2. got[Len(got)][1] = server.life
        BY <3>1, <3>2, <4>1
      <4>3. got[kept][2] < got[Len(got)][2]
        BY <1>1, <3>1, <3>4, <4>2 DEF Ordered
      <4> QED BY <2>2, <3>2, <4>2, <4>3
    <3> QED BY <1>3, <3>3, <3>4
  <2>4. client[c].pc = "on" \/ (Follows(client[c]) /\ e.seq <= Last(client[c].got)[2])
    <3>1. Last(got) = got[Len(got)] /\ got # <<>>
      BY <1>2, <2>1 DEF Last
    <3>2. e.seq <= got[Len(got)][2]
      BY <1>8, <2>1, <2>2, <2>3
    <3> QED BY <2>3, <3>1, <3>2 DEF Follows, got
  <2>5. PICK k \in DOMAIN got : got[k][1] = server.life /\ got[k][2] = e.seq
    <3>1. NothingMissing(client[c])
      BY DEF BusInv
    <3> QED BY <1>8, <2>4, <3>1 DEF NothingMissing, got
  <2>6. k <= kept
    <3> SUFFICES ASSUME kept < k PROVE FALSE
      BY <1>2, <1>3
    <3>1. got[kept][2] < got[k][2]
      BY <1>1, <1>2, <1>8, <2>1, <2>5 DEF Ordered
    <3>2. got[k][2] <= got[kept][2]
      BY <1>8, <2>1, <2>5
    <3> QED BY <2>2, <2>5, <3>1, <3>2
  <2>7. k \in 1..kept
    BY <1>2, <1>3, <2>6
  <2> QED BY <1>4, <1>5, <2>5, <2>7
<1>9. NothingMissing(Cut(client[c], kept))
  BY <1>6, <1>8 DEF NothingMissing, Follows
<1> QED BY <1>4, <1>6, <1>7, <1>9 DEF got

\* What is announced goes to the end of the buffer, which drops what it has no room for.
LEMMA AnnouncementIsRemembered ==
  ASSUME BusInv, NEW n \in Nat, NEW new, new = [k \in 1..n |-> new[k]], NEW memory,
         memory.history = server.history, memory.seq = server.seq, memory.life = server.life, DOMAIN memory = DOMAIN server,
         \A k \in 1..n : new[k].life = server.life /\ new[k].seq = server.seq + k,
         server' = [memory EXCEPT !.seq = @ + n, !.history = Remember(@, new)]
  PROVE  /\ Remembers(server)' /\ server'.life = server.life /\ server'.seq = server.seq + n
         /\ \A e : Placed(server, e) => Placed(server', e)
         /\ \A k \in 1..n : new[k].life \in Nat /\ Placed(server', new[k])
<1> DEFINE old == server.history
           all == old \o new
           drop == IF Len(all) <= MaxHistory THEN 0 ELSE Len(all) - MaxHistory
           kept == Remember(old, new)
<1>1. /\ server.life \in Nat /\ server.seq \in Nat /\ {"life", "seq", "history"} \subseteq DOMAIN server
      /\ old \in Seq(ToSet(old)) /\ Len(old) <= server.seq /\ (Len(old) = MaxHistory \/ Len(old) = server.seq)
      /\ \A k \in DOMAIN old : old[k].life = server.life /\ old[k].seq = server.seq - Len(old) + k
  BY DEF BusInv, Remembers, Oldest
<1>2. MaxHistory \in Nat /\ MaxHistory # 0
  BY HistoryAssumption
<1> HIDE DEF old
<1>3. Len(old) \in Nat /\ DOMAIN old = 1..Len(old)
  BY <1>1
<1>4. new \in Seq(ToSet(new)) /\ Len(new) = n
  <2>1. DOMAIN new = 1..n
    OBVIOUS
  <2>2. \A k \in 1..n : new[k] \in ToSet(new)
    BY <2>1 DEF ToSet
  <2>3. new \in Seq(ToSet(new))
    BY <2>2, SequenceOf
  <2> QED BY <2>1, <2>3
<1>5. /\ all \in Seq(ToSet(old) \cup ToSet(new)) /\ Len(all) = Len(old) + n
      /\ \A k \in 1..Len(old) + n : all[k] = IF k <= Len(old) THEN old[k] ELSE new[k - Len(old)]
  <2> DEFINE S == ToSet(old) \cup ToSet(new)
  <2>1. ToSet(old) \subseteq S /\ ToSet(new) \subseteq S
    OBVIOUS
  <2> HIDE DEF S
  <2>2. old \in Seq(S) /\ new \in Seq(S)
    BY <1>1, <1>4, <2>1, SeqMonotonic
  <2>3. all \in Seq(S) /\ Len(all) = Len(old) + n
        /\ \A k \in 1..Len(old) + n : all[k] = IF k <= Len(old) THEN old[k] ELSE new[k - Len(old)]
    BY <1>4, <2>2, ConcatProperties
  <2> QED BY <2>3 DEF S
<1> HIDE DEF all
<1>6. \A k \in 1..Len(old) : all[k] = old[k]
  <2>1. \A k \in 1..Len(old) : k \in 1..Len(old) + n /\ k <= Len(old)
    BY <1>3
  <2> QED BY <1>5, <2>1, Zenon
<1>7. \A k \in 1..n : all[Len(old) + k] = new[k] /\ Len(old) + k \in 1..Len(old) + n
  <2>1. \A k \in 1..n : Len(old) + k \in 1..Len(old) + n /\ ~ (Len(old) + k <= Len(old)) /\ (Len(old) + k) - Len(old) = k
    BY <1>3
  <2> QED BY <1>5, <2>1, Zenon
<1>8. \A k \in 1..Len(old) + n : all[k].life = server.life /\ all[k].seq = server.seq - Len(old) + k
  <2> SUFFICES ASSUME NEW k \in 1..Len(old) + n PROVE all[k].life = server.life /\ all[k].seq = server.seq - Len(old) + k
    OBVIOUS
  <2>1. CASE k <= Len(old)
    <3>1. k \in 1..Len(old)
      BY <1>3, <2>1
    <3> QED BY <1>1, <1>3, <1>6, <3>1
  <2>2. CASE ~ (k <= Len(old))
    <3>1. k - Len(old) \in 1..n /\ Len(old) + (k - Len(old)) = k
      BY <1>3, <2>2
    <3>2. all[k] = new[k - Len(old)]
      BY <1>7, <3>1, Zenon
    <3>3. new[k - Len(old)].life = server.life /\ new[k - Len(old)].seq = server.seq + (k - Len(old))
      BY <3>1
    <3> QED BY <1>1, <1>3, <3>2, <3>3
  <2> QED BY <2>1, <2>2
<1>9. /\ drop \in Nat /\ drop <= Len(old) + n /\ kept \in Seq(ToSet(old) \cup ToSet(new)) /\ Len(kept) = Len(old) + n - drop
      /\ \A k \in 1..(Len(old) + n - drop) : kept[k] = all[k + drop] /\ k + drop \in 1..Len(old) + n
  <2>1. CASE Len(all) <= MaxHistory
    <3>1. kept = all /\ drop = 0
      BY <2>1 DEF Remember, all
    <3> HIDE DEF kept, drop
    <3>2. \A k \in 1..(Len(old) + n - drop) : k + drop = k /\ k \in 1..Len(old) + n
      BY <1>3, <3>1
    <3> QED BY <1>3, <1>5, <3>1, <3>2
  <2>2. CASE ~ (Len(all) <= MaxHistory)
    <3>1. kept = SubSeq(all, Len(all) - MaxHistory + 1, Len(all)) /\ drop = Len(all) - MaxHistory
      BY <2>2 DEF Remember, all
    <3>2. kept = SubSeq(all, drop + 1, Len(all)) /\ drop \in Nat /\ drop <= Len(all)
      BY <1>2, <1>3, <1>5, <2>2, <3>1, SMTT(30)
    <3> HIDE DEF kept, drop
    <3>3. Len(all) = Len(old) + n /\ Len(all) \in Nat
      BY <1>3, <1>5
    <3> DEFINE S == ToSet(old) \cup ToSet(new)
    <3>4. \A k \in (drop + 1)..Len(all) : all[k] \in S
      <4>1. all \in Seq(S)
        BY <1>5
      <4> HIDE DEF S
      <4> QED BY <3>2, <3>3, <4>1
    <3>5. kept \in Seq(S)
      <4>1. all \in Seq(S)
        BY <1>5
      <4> HIDE DEF S
      <4> QED BY <3>2, <3>3, <3>4, <4>1, SubSeqProperties
    <3> HIDE DEF S
    <3>6. Len(kept) = Len(all) - drop
      BY <3>2, <3>3, <3>4, SubSeqProperties
    <3>7. \A k \in 1..(Len(all) - drop) : kept[k] = all[k + drop]
      BY <3>2, <3>3, <3>4, SubSeqProperties
    <3>8. \A k \in 1..(Len(all) - drop) : k + drop \in 1..Len(all)
      BY <3>2, <3>3
    <3> QED BY <3>2, <3>3, <3>5, <3>6, <3>7, <3>8 DEF S
  <2> QED BY <2>1, <2>2
<1>10. Len(kept) = MaxHistory \/ (Len(kept) = server.seq + n /\ drop = 0)
  <2>1. CASE Len(all) <= MaxHistory
    <3>1. drop = 0
      BY <2>1
    <3> HIDE DEF drop, kept
    <3> QED BY <1>1, <1>2, <1>3, <1>5, <1>9, <2>1, <3>1
  <2>2. CASE ~ (Len(all) <= MaxHistory)
    <3>1. drop = Len(all) - MaxHistory
      BY <2>2
    <3> HIDE DEF drop, kept
    <3> QED BY <1>2, <1>3, <1>5, <1>9, <3>1
  <2> QED BY <2>1, <2>2
<1>11. /\ server'.life = server.life /\ server'.seq = server.seq + n /\ server'.history = kept
       /\ DOMAIN server' = DOMAIN server
  <2>1. memory.history = old
    BY DEF old
  <2> HIDE DEF kept
  <2>2. server' = [memory EXCEPT !.seq = server.seq + n, !.history = kept]
    BY <2>1 DEF kept
  <2> QED BY <1>1, <2>2
<1> HIDE DEF kept, drop
<1>12. /\ server.seq \in Nat /\ Len(old) \in Nat /\ drop \in Nat /\ Len(old) <= server.seq /\ drop <= Len(old) + n
       /\ Oldest(server') = server.seq - Len(old) + drop /\ Oldest(server) = server.seq - Len(old)
  BY <1>1, <1>3, <1>9, <1>11 DEF Oldest, old
<1>13. \A k \in 1..(Len(old) + n - drop) : kept[k].life = server.life /\ kept[k].seq = Oldest(server') + k
  <2> SUFFICES ASSUME NEW k \in 1..(Len(old) + n - drop) PROVE kept[k].life = server.life /\ kept[k].seq = Oldest(server') + k
    OBVIOUS
  <2>1. k + drop \in 1..Len(old) + n /\ kept[k] = all[k + drop]
    BY <1>9
  <2>2. all[k + drop].life = server.life /\ all[k + drop].seq = server.seq - Len(old) + (k + drop)
    BY <1>8, <2>1
  <2> QED BY <1>1, <1>3, <1>9, <1>12, <2>1, <2>2
<1>14. DOMAIN kept = 1..(Len(old) + n - drop)
  BY <1>3, <1>9
<1>15. kept \in Seq(ToSet(kept))
  <2>1. \A k \in 1..Len(kept) : kept[k] \in ToSet(kept)
    BY <1>9, <1>14 DEF ToSet
  <2>2. kept = [k \in 1..Len(kept) |-> kept[k]] /\ Len(kept) \in Nat
    BY <1>9
  <2> QED BY <2>1, <2>2, SequenceOf
<1>16. Remembers(server)'
  <2>1. Len(kept) <= server.seq + n
    BY <1>1, <1>3, <1>9
  <2>2. server.seq + n \in Nat
    BY <1>1
  <2> QED BY <1>1, <1>10, <1>11, <1>13, <1>14, <1>15, <2>1, <2>2 DEF Remembers, Oldest
<1>17. ASSUME NEW e, Placed(server, e) PROVE Placed(server', e)
  <2> SUFFICES ASSUME e.life = server.life, e.seq > Oldest(server')
               PROVE  kept[e.seq - Oldest(server')].project = e.project
    BY <1>1, <1>11, <1>17 DEF Placed
  <2>1. e.seq \in Nat /\ 1 <= e.seq /\ e.seq <= server.seq
    BY <1>17 DEF Placed
  <2>2. e.seq > Oldest(server)
    BY <1>1, <1>3, <1>9, <1>12, <2>1
  <2>3. old[e.seq - Oldest(server)].project = e.project
    BY <1>17, <2>2 DEF Placed, old
  <2> DEFINE q == e.seq - Oldest(server)
             r == e.seq - Oldest(server')
  <2>4. q \in 1..Len(old) /\ r \in 1..(Len(old) + n - drop) /\ q = r + drop
    <3>1. q = e.seq - (server.seq - Len(old)) /\ r = e.seq - (server.seq - Len(old) + drop)
      BY <1>12
    <3>2. e.seq > server.seq - Len(old) + drop
      BY <1>12
    <3> HIDE DEF q, r
    <3>3. q \in 1..Len(old) /\ q = r + drop /\ r \in Nat /\ r # 0
      BY <1>12, <2>1, <3>1, <3>2, SMTT(30)
    <3>4. r <= Len(old) + n - drop
      BY <1>12, <3>3
    <3> QED BY <1>12, <3>3, <3>4
  <2>5. old[q].project = e.project
    BY <2>3
  <2> HIDE DEF q
  <2>6. kept[r] = all[q] /\ all[q] = old[q]
    <3> HIDE DEF r
    <3> QED BY <1>6, <1>9, <2>4
  <2> QED BY <2>5, <2>6
<1>18. ASSUME NEW k \in 1..n PROVE new[k].life \in Nat /\ Placed(server', new[k])
  <2>1. new[k].life = server.life /\ new[k].seq = server.seq + k /\ new[k].seq \in Nat
    BY <1>1
  <2> DEFINE r == new[k].seq - Oldest(server')
  <2>2. ASSUME new[k].seq > Oldest(server') PROVE kept[r] = new[k]
    <3>1. r \in 1..(Len(old) + n - drop) /\ r + drop = Len(old) + k
      <4>1. r = server.seq + k - (server.seq - Len(old) + drop) /\ server.seq + k > server.seq - Len(old) + drop
        <5>1. r = new[k].seq - Oldest(server')
          OBVIOUS
        <5> HIDE DEF r
        <5>2. server.seq + k > Oldest(server')
          BY <2>1, <2>2
        <5> QED BY <1>12, <2>1, <5>1, <5>2
      <4> HIDE DEF r
      <4> QED BY <1>12, <4>1
    <3> HIDE DEF r
    <3>2. kept[r] = all[r + drop]
      BY <1>9, <3>1
    <3> QED BY <1>7, <3>1, <3>2
  <2>3. 1 <= new[k].seq /\ new[k].seq <= server.seq + n
    BY <1>1, <2>1
  <2>4. new[k].life \in Nat /\ new[k].life <= server.life
    BY <1>1, <2>1
  <2> QED BY <1>11, <2>1, <2>2, <2>3, <2>4 DEF Placed
<1> QED BY <1>11, <1>16, <1>17, <1>18

\* A sequence with another one after it holds what both held.
LEMMA JoinedMembers ==
  ASSUME NEW s, s \in Seq(ToSet(s)), NEW t, t \in Seq(ToSet(t)), NEW u, u = s \o t
  PROVE  u \in Seq(ToSet(u)) /\ ToSet(u) \subseteq ToSet(s) \cup ToSet(t)
<1> DEFINE S == ToSet(s) \cup ToSet(t)
<1>1. ToSet(s) \subseteq S /\ ToSet(t) \subseteq S
  OBVIOUS
<1>2. u \in Seq(S)
  <2> HIDE DEF S
  <2>1. s \in Seq(S) /\ t \in Seq(S)
    BY <1>1, SeqMonotonic
  <2> QED BY <2>1, ConcatProperties
<1> HIDE DEF S
<1>3. /\ Len(u) \in Nat /\ DOMAIN u = 1..Len(u)
      /\ \A k \in 1..Len(u) : u[k] \in S
      /\ \A k \in 1..Len(u) : u[k] \in ToSet(u)
  <2>1. Len(u) \in Nat /\ DOMAIN u = 1..Len(u)
    BY <1>2
  <2>2. \A k \in 1..Len(u) : u[k] \in S
    BY <1>2
  <2> QED BY <2>1, <2>2 DEF ToSet
<1>4. u = [k \in 1..Len(u) |-> u[k]]
  <2>1. \A w \in Seq(S) : w = [k \in 1..Len(w) |-> w[k]]
    OBVIOUS
  <2> QED BY <1>2, <2>1, Zenon
<1>5. u \in Seq(ToSet(u))
  BY <1>3, <1>4, SequenceOf
<1> QED BY <1>3, <1>5 DEF ToSet, S

\* What the buffer and the browsers do not feel.
LEMMA BusStays ==
  ASSUME BusInv, UNCHANGED <<trail, client>>, server'.life = server.life, server'.seq = server.seq,
         server'.history = server.history, DOMAIN server' = DOMAIN server
  PROVE  BusInv'
  BY DEF BusInv, Remembers, Oldest, Placed, Ordered, NothingMissing, Follows

\* Every open stream hears an announcement of its project.
LEMMA AnnounceKeeps ==
  ASSUME BusInv, NEW memory, memory.history = server.history, memory.seq = server.seq, memory.life = server.life,
         DOMAIN memory = DOMAIN server, NEW kinds, NEW S, kinds \in Seq(S), NEW project, NEW ref,
         Announce(memory, kinds, project, ref)
  PROVE  BusInv'
<1> DEFINE n == Len(kinds)
           new == [k \in DOMAIN kinds |-> [life |-> server.life, seq |-> server.seq + k, project |-> project,
                                           kind |-> kinds[k], ref |-> ref]]
<1>1. n \in Nat /\ DOMAIN kinds = 1..n
  OBVIOUS
<1>2. /\ trail' = trail \o new
      /\ server' = [memory EXCEPT !.seq = @ + n, !.history = Remember(@, new)]
      /\ client' = [c \in Clients |-> IF client[c].pc = "on" /\ MatchesFilter(project) THEN Hears(client[c], new)
                                      ELSE client[c]]
  BY DEF Announce
<1>3. /\ new = [k \in 1..n |-> new[k]] /\ DOMAIN new = 1..n
      /\ \A k \in 1..n : new[k].life = server.life /\ new[k].seq = server.seq + k /\ new[k].project = project
  BY <1>1
<1> HIDE DEF new, n
<1>4. /\ Remembers(server)' /\ server'.life = server.life /\ server'.seq = server.seq + n
      /\ \A e : Placed(server, e) => Placed(server', e)
      /\ \A k \in 1..n : new[k].life \in Nat /\ Placed(server', new[k])
  BY <1>1, <1>2, <1>3, AnnouncementIsRemembered
<1>5. server.life \in Nat /\ server.seq \in Nat
  BY DEF BusInv, Remembers
<1>6. new \in Seq(ToSet(new))
  <2>1. \A k \in 1..n : new[k] \in ToSet(new)
    BY <1>3 DEF ToSet
  <2> QED BY <1>1, <1>3, <2>1, SequenceOf
<1>7. trail' \in Seq(ToSet(trail')) /\ \A e \in ToSet(trail') : e \in ToSet(trail) \/ \E k \in 1..n : e = new[k]
  <2>1. trail' \in Seq(ToSet(trail')) /\ ToSet(trail') \subseteq ToSet(trail) \cup ToSet(new)
    BY <1>2, <1>6, JoinedMembers DEF BusInv
  <2>2. \A e \in ToSet(new) : \E k \in 1..n : e = new[k]
    BY <1>3 DEF ToSet
  <2> QED BY <2>1, <2>2
<1>8. ASSUME NEW e \in ToSet(trail') PROVE Placed(server', e)
  BY <1>4, <1>7 DEF BusInv
<1>9. ASSUME NEW c \in Clients
      PROVE  client'[c] \in Browser /\ Ordered(server', client'[c].got) /\ NothingMissing(client[c])'
  <2> DEFINE got == client[c].got
  <2>1. client[c] \in Browser /\ Ordered(server, got) /\ NothingMissing(client[c])
    BY DEF BusInv
  <2>2. got \in Seq(Nat \X Nat) /\ \A k \in DOMAIN got : got[k] \in Nat \X Nat
    BY <2>1 DEF Browser
  <2>3. CASE client[c].pc = "on" /\ MatchesFilter(project)
    <3> DEFINE heard == got \o Sent(new)
    <3>1. client'[c] = [client[c] EXCEPT !.got = heard]
      BY <1>2, <2>3 DEF Hears, Sent
    <3>2. \A k \in DOMAIN got : got[k][1] = server.life => got[k][2] <= server.seq
      BY <2>1 DEF Ordered
    <3>3. \A k \in 1..n : new[k].life = server.life /\ new[k].seq \in Nat /\ server.seq < new[k].seq /\ new[k].seq <= server'.seq
      BY <1>1, <1>3, <1>4, <1>5
    <3>4. \A j, k \in 1..n : j < k => new[j].seq < new[k].seq
      BY <1>1, <1>3, <1>5
    <3>5. Later(server, server.seq, n, new, server')
      BY <1>1, <1>3, <1>4, <1>5, <3>3, <3>4 DEF Later
    <3>h. heard = got \o Sent(new)
      OBVIOUS
    <3> HIDE DEF got, heard
    <3>6. /\ heard \in Seq(Nat \X Nat) /\ Ordered(server', heard)
          /\ \A k \in DOMAIN got : k \in DOMAIN heard /\ heard[k] = got[k]
          /\ \A k \in 1..n : \E j \in DOMAIN heard : heard[j][1] = server.life /\ heard[j][2] = new[k].seq
      <4>1. got \in Seq(Nat \X Nat) /\ Ordered(server, got)
        BY <2>1, <2>2
      <4>2. Until(server, got, server.seq)
        BY <3>2 DEF Until
      <4>3. HeardMore(server, got, n, new, server', heard)
        BY <3>5, <3>h, <4>1, <4>2, HearsMore
      <4> QED BY <4>3 DEF HeardMore
    <3>7. /\ client'[c] \in Browser /\ client'[c].got = heard /\ client'[c].start = client[c].start
          /\ client'[c].horizon = client[c].horizon /\ Len(got) \in Nat
      <4>1. client'[c].got = heard /\ client'[c].start = client[c].start /\ client'[c].horizon = client[c].horizon
        BY <2>1, <3>1 DEF Browser
      <4>2. client'[c] \in Browser
        BY <2>1, <3>1, <3>6 DEF Browser
      <4> QED BY <2>2, <4>1, <4>2
    <3>8. ASSUME NEW e \in ToSet(trail'), e.life = server'.life, MatchesFilter(e.project), e.seq > client[c].start,
                 e.seq > client[c].horizon
          PROVE  \E k \in DOMAIN heard : heard[k][1] = server'.life /\ heard[k][2] = e.seq
      <4>1. CASE e \in ToSet(trail)
        <5>1. PICK k \in DOMAIN got : got[k][1] = server.life /\ got[k][2] = e.seq
          BY <1>4, <2>1, <2>3, <3>8, <4>1 DEF NothingMissing, got
        <5> QED BY <1>4, <3>6, <5>1
      <4>2. CASE \E k \in 1..n : e = new[k]
        BY <1>4, <3>6, <4>2
      <4> QED BY <1>7, <4>1, <4>2
    <3> QED BY <3>6, <3>7, <3>8 DEF NothingMissing
  <2>4. CASE ~ (client[c].pc = "on" /\ MatchesFilter(project))
    <3>1. client'[c] = client[c]
      BY <1>2, <2>4
    <3>2. Ordered(server', got)
      <4>1. \A k \in DOMAIN got : got[k][1] = server.life => got[k][2] <= server'.seq
        BY <1>1, <1>4, <1>5, <2>1, <2>2 DEF Ordered
      <4> QED BY <1>4, <2>1, <4>1 DEF Ordered
    <3>3. ASSUME NEW e \in ToSet(trail'), e.life = server'.life, MatchesFilter(e.project), e.seq > client[c].start,
                 e.seq > client[c].horizon,
                 client[c].pc = "on" \/ (got # <<>> /\ Last(got)[1] = server'.life /\ e.seq <= Last(got)[2])
          PROVE  \E k \in DOMAIN got : got[k][1] = server'.life /\ got[k][2] = e.seq
      <4>1. CASE e \in ToSet(trail)
        BY <1>4, <2>1, <3>3, <4>1 DEF NothingMissing, Follows
      <4>2. CASE \E k \in 1..n : e = new[k]
        <5>1. PICK k \in 1..n : e = new[k]
          BY <4>2
        <5>2. client[c].pc # "on"
          BY <1>3, <2>4, <3>3, <5>1
        <5>3. got # <<>> /\ Last(got)[1] = server.life /\ e.seq <= Last(got)[2]
          BY <1>4, <3>3, <5>2
        <5>4. Len(got) \in DOMAIN got /\ Last(got) = got[Len(got)]
          BY <2>2, <5>3 DEF Last
        <5>5. Last(got)[2] <= server.seq /\ Last(got)[2] \in Nat
          BY <2>1, <2>2, <5>3, <5>4 DEF Ordered
        <5>6. e.seq = server.seq + k
          BY <1>3, <5>1
        <5> QED BY <1>1, <1>5, <5>3, <5>5, <5>6
      <4> QED BY <1>7, <4>1, <4>2
    <3> QED BY <2>1, <3>1, <3>2, <3>3 DEF NothingMissing, Follows
  <2> QED BY <2>3, <2>4
<1>10. client' \in [Clients -> Browser]
  <2>1. client' = [c \in Clients |-> client'[c]]
    BY <1>2
  <2> QED BY <1>9, <2>1
<1> QED BY <1>4, <1>7, <1>8, <1>9, <1>10 DEF BusInv

\* What a browser that comes back is sent: of the events the buffer holds, the later ones of its project, in order.
LEMMA ReplayIsSorted ==
  ASSUME BusInv, NEW last \in Nat
  PROVE  \E n \in Nat :
           /\ Later(server, last, n, GetEventsSince(last), server)
           /\ \A e \in ToSet(trail) :
                (/\ e.life = server.life /\ MatchesFilter(e.project) /\ e.seq > last /\ e.seq > Oldest(server))
                => \E k \in 1..n : GetEventsSince(last)[k].seq = e.seq
<1> DEFINE H == server.history
           K == {k \in DOMAIN H : H[k].seq > last /\ MatchesFilter(H[k].project)}
           due == InOrder(K)
           n == Cardinality(K)
           missed == GetEventsSince(last)
<1>1. /\ server.life \in Nat /\ server.seq \in Nat /\ H \in Seq(ToSet(H)) /\ Len(H) <= server.seq
      /\ \A k \in DOMAIN H : H[k].life = server.life /\ H[k].seq = Oldest(server) + k
  BY DEF BusInv, Remembers
<1>2. Oldest(server) = server.seq - Len(H)
  BY DEF Oldest
<1>3. Len(H) \in Nat /\ DOMAIN H = 1..Len(H)
  BY <1>1
<1>4. missed = [k \in DOMAIN due |-> H[due[k]]]
  BY DEF GetEventsSince
<1>5. K \subseteq 1..Len(H)
  BY <1>3
<1>6. \A k \in DOMAIN H : k \in K <=> H[k].seq > last /\ MatchesFilter(H[k].project)
  OBVIOUS
<1> HIDE DEF H, K, missed
<1>7. /\ n \in Nat /\ due \in [1..n -> K] /\ \A k \in K : \E j \in 1..n : due[j] = k
      /\ \A i, j \in 1..n : i < j => due[i] < due[j]
  BY <1>3, <1>5, InOrderSorts
<1> HIDE DEF due, n
<1>8. DOMAIN missed = 1..n /\ \A k \in 1..n : missed[k] = H[due[k]] /\ due[k] \in K /\ due[k] \in 1..Len(H)
  BY <1>4, <1>5, <1>7
<1>9. \A k \in 1..n : missed[k].life = server.life /\ missed[k].seq = Oldest(server) + due[k] /\ missed[k].seq > last
  BY <1>1, <1>3, <1>6, <1>8
<1>10. Oldest(server) \in Nat /\ Oldest(server) + Len(H) = server.seq
  BY <1>1, <1>2, <1>3
<1>11. \A k \in 1..n : missed[k].seq \in Nat /\ last < missed[k].seq /\ missed[k].seq <= server.seq
  <2> TAKE k \in 1..n
  <2>1. missed[k].seq = Oldest(server) + due[k] /\ missed[k].seq > last /\ due[k] \in 1..Len(H)
    BY <1>8, <1>9
  <2>2. due[k] \in Nat /\ due[k] <= Len(H)
    BY <1>3, <2>1
  <2> QED BY <1>3, <1>10, <2>1, <2>2
<1>12. ASSUME NEW i \in 1..n, NEW j \in 1..n, i < j PROVE missed[i].seq < missed[j].seq
  <2>1. due[i] < due[j] /\ due[i] \in Nat /\ due[j] \in Nat
    BY <1>7, <1>8, <1>12
  <2> QED BY <1>9, <1>10, <2>1
<1>13. Later(server, last, n, missed, server)
  BY <1>1, <1>7, <1>8, <1>9, <1>11, <1>12 DEF Later
<1>14. ASSUME NEW e \in ToSet(trail), e.life = server.life, MatchesFilter(e.project), e.seq > last, e.seq > Oldest(server)
       PROVE  \E k \in 1..n : missed[k].seq = e.seq
  <2> DEFINE p == e.seq - Oldest(server)
  <2>1. e.seq \in Nat /\ e.seq <= server.seq /\ H[p].project = e.project
    BY <1>14 DEF BusInv, Placed, H
  <2>2. p = e.seq - Oldest(server)
    OBVIOUS
  <2> HIDE DEF p
  <2>3. p \in 1..Len(H) /\ Oldest(server) + p = e.seq
    BY <1>3, <1>10, <1>14, <2>1, <2>2
  <2>4. H[p].seq = e.seq /\ p \in DOMAIN H
    BY <1>1, <1>3, <2>3
  <2>5. p \in K
    BY <1>6, <1>14, <2>1, <2>4
  <2>6. PICK k \in 1..n : due[k] = p
    BY <1>7, <2>5
  <2> QED BY <1>8, <2>4, <2>6
<1> QED BY <1>7, <1>13, <1>14 DEF missed

\* A browser that comes back is sent what it missed, as long as the buffer holds it.
LEMMA OpenKeeps ==
  ASSUME BusInv, NEW c \in Clients, OpenStream(c)
  PROVE  BusInv'
<1> DEFINE got == client[c].got
           last == LastEventId(client[c])
           missed == IF last > 0 THEN GetEventsSince(last) ELSE <<>>
           heard == got \o Sent(missed)
           start == IF Follows(client[c]) THEN client[c].start ELSE server.seq
           horizon == IF Follows(client[c]) THEN MaxOf(client[c].horizon, {server.seq - MaxHistory}) ELSE 0
<1>1. client[c] \in Browser /\ Ordered(server, got) /\ NothingMissing(client[c]) /\ client[c].pc = "off"
  BY DEF BusInv, OpenStream
<1>2. got \in Seq(Nat \X Nat) /\ client[c].start \in Nat /\ client[c].horizon \in Nat
  BY <1>1 DEF Browser
<1>3. server.life \in Nat /\ server.seq \in Nat
  BY DEF BusInv, Remembers
<1>4. client' = [client EXCEPT ![c] = [Hears(client[c], missed) EXCEPT !.pc = "on", !.base = Len(got), !.start = start,
                                                                     !.horizon = horizon]]
      /\ UNCHANGED <<server, trail>>
  BY <1>1 DEF OpenStream, Hears, Browser
<1> HIDE DEF missed
<1>5. client'[c] = [client[c] EXCEPT !.got = heard, !.pc = "on", !.base = Len(got), !.start = start, !.horizon = horizon]
  BY <1>1, <1>4 DEF BusInv, Hears, Sent, Browser
<1>6. /\ last \in Nat
      /\ got # <<>> => Len(got) \in DOMAIN got /\ Last(got) = got[Len(got)] /\ got[Len(got)] \in Nat \X Nat
                       /\ last = got[Len(got)][2]
      /\ got = <<>> => last = 0
  BY <1>2 DEF LastEventId, Last
<1>7. Follows(client[c]) <=> got # <<>> /\ got[Len(got)][1] = server.life
  BY <1>6 DEF Follows
<1>8. Follows(client[c]) => last > 0
  BY <1>1, <1>6, <1>7 DEF Ordered
<1>9. Until(server, got, last)
  <2> SUFFICES ASSUME NEW k \in DOMAIN got, got[k][1] = server.life PROVE got[k][2] <= last
    BY DEF Until
  <2>0. k \in 1..Len(got) /\ got[k] \in Nat \X Nat /\ Len(got) \in Nat /\ got # <<>>
    BY <1>2
  <2>1. CASE k = Len(got)
    BY <1>6, <2>0, <2>1
  <2>2. CASE k < Len(got)
    <3>1. server.life <= got[Len(got)][1] /\ got[Len(got)][1] <= server.life /\ got[Len(got)][1] \in Nat
      BY <1>1, <1>6, <2>0, <2>2 DEF Ordered
    <3>2. got[Len(got)][1] = server.life
      BY <1>3, <3>1
    <3>3. got[k][2] < got[Len(got)][2]
      BY <1>1, <1>6, <2>0, <2>2, <3>2 DEF Ordered
    <3> QED BY <1>6, <2>0, <3>3
  <2> QED BY <2>0, <2>1, <2>2
<1>10. PICK n \in Nat : /\ Later(server, last, n, missed, server)
                        /\ \A e \in ToSet(trail) :
                             (/\ e.life = server.life /\ MatchesFilter(e.project) /\ e.seq > last /\ e.seq > Oldest(server)
                              /\ last > 0)
                             => \E k \in 1..n : missed[k].seq = e.seq
  <2>1. CASE last > 0
    <3>1. missed = GetEventsSince(last)
      BY <2>1 DEF missed
    <3> HIDE DEF last
    <3> QED BY <1>6, <3>1, ReplayIsSorted
  <2>2. CASE ~ (last > 0)
    <3>1. missed = <<>>
      BY <2>2 DEF missed
    <3>2. Later(server, last, 0, missed, server)
      BY <1>3, <1>6, <3>1 DEF Later
    <3> QED BY <2>2, <3>2
  <2> QED BY <2>1, <2>2
<1>11. HeardMore(server, got, n, missed, server, heard)
  <2>1. heard = got \o Sent(missed)
    OBVIOUS
  <2> HIDE DEF got, heard, last
  <2> QED BY <1>1, <1>2, <1>9, <1>10, <2>1, HearsMore
<1>12. start = IF Follows(client[c]) THEN client[c].start ELSE server.seq
  OBVIOUS
<1>13. horizon \in Nat /\ (Follows(client[c]) => horizon >= client[c].horizon /\ horizon >= server.seq - MaxHistory)
  <2>1. server.seq - MaxHistory \in Int
    BY <1>3, HistoryAssumption
  <2> QED BY <1>2, <2>1, MaxOfTwo
<1>14. start \in Nat
  BY <1>2, <1>3
<1> HIDE DEF start, horizon, heard
<1>15. Len(got) \in Nat /\ heard \in Seq(Nat \X Nat)
  BY <1>2, <1>11 DEF HeardMore
<1>16. client'[c] \in Browser /\ client'[c].got = heard /\ client'[c].start = start /\ client'[c].horizon = horizon
  <2> HIDE DEF got
  <2> QED BY <1>1, <1>5, <1>13, <1>14, <1>15 DEF Browser
<1>17. ASSUME NEW e \in ToSet(trail), e.life = server.life, MatchesFilter(e.project), e.seq > start, e.seq > horizon
       PROVE  \E k \in DOMAIN heard : heard[k][1] = server.life /\ heard[k][2] = e.seq
  <2>1. e.seq \in Nat /\ 1 <= e.seq /\ e.seq <= server.seq
    BY <1>17 DEF BusInv, Placed
  <2>2. Follows(client[c]) /\ last > 0
    BY <1>3, <1>8, <1>12, <1>17, <2>1
  <2>3. e.seq > client[c].start /\ e.seq > client[c].horizon /\ e.seq > server.seq - MaxHistory
    <3>1. e.seq > client[c].start
      BY <1>12, <1>17, <2>2
    <3>2. e.seq > client[c].horizon
      BY <1>2, <1>13, <1>17, <2>1, <2>2
    <3>3. e.seq > server.seq - MaxHistory
      BY <1>3, <1>13, <1>17, <2>1, <2>2, HistoryAssumption
    <3> QED BY <3>1, <3>2, <3>3
  <2>4. CASE e.seq <= last
    <3>1. e.seq <= Last(got)[2]
      BY <1>6, <1>7, <2>2, <2>4
    <3>2. PICK k \in DOMAIN got : got[k][1] = server.life /\ got[k][2] = e.seq
      BY <1>1, <1>17, <2>2, <2>3, <3>1 DEF NothingMissing
    <3> HIDE DEF got
    <3> QED BY <1>11, <3>2 DEF HeardMore
  <2>5. CASE ~ (e.seq <= last)
    <3>1. e.seq > last
      BY <1>6, <2>1, <2>5
    <3>2. e.seq > Oldest(server)
      <4>1. /\ Len(server.history) = MaxHistory \/ Len(server.history) = server.seq
            /\ Oldest(server) = server.seq - Len(server.history)
        BY DEF BusInv, Remembers, Oldest
      <4> QED BY <1>3, <2>1, <2>3, <4>1
    <3>3. PICK k \in 1..n : missed[k].seq = e.seq
      BY <1>10, <1>17, <2>2, <3>1, <3>2
    <3> HIDE DEF got
    <3> QED BY <1>11, <3>3 DEF HeardMore
  <2> QED BY <2>4, <2>5
<1>18. Ordered(server, heard)
  BY <1>11 DEF HeardMore
<1>19. client' = [client EXCEPT ![c] = client'[c]] /\ \A d \in Clients : d # c => client'[d] = client[d]
  BY <1>4 DEF BusInv
<1>20. \A d \in Clients : client'[d] \in Browser /\ Ordered(server', client'[d].got) /\ NothingMissing(client[d])'
  <2> SUFFICES ASSUME NEW d \in Clients
               PROVE  client'[d] \in Browser /\ Ordered(server', client'[d].got) /\ NothingMissing(client[d])'
    OBVIOUS
  <2>1. CASE d = c
    <3>1. NothingMissing(client[c])'
      BY <1>4, <1>16, <1>17 DEF NothingMissing
    <3> QED BY <1>4, <1>16, <1>18, <2>1, <3>1
  <2>2. CASE d # c
    <3>1. client'[d] = client[d] /\ UNCHANGED <<server, trail>>
      BY <1>4, <1>19, <2>2
    <3> QED BY <3>1 DEF BusInv, NothingMissing, Follows
  <2> QED BY <2>1, <2>2
<1>21. client' \in [Clients -> Browser]
  BY <1>16, <1>19 DEF BusInv
<1> QED BY <1>4, <1>20, <1>21 DEF BusInv, Remembers, Oldest, Placed

\* A broken connection takes the last events away.
LEMMA CloseKeeps ==
  ASSUME BusInv, NEW c \in Clients, NEW kept, CloseStream(c, kept)
  PROVE  BusInv'
<1>1. client[c] \in Browser /\ kept \in client[c].base..Len(client[c].got) /\ client \in [Clients -> Browser]
  BY DEF BusInv, CloseStream
<1>2. kept \in 0..Len(client[c].got)
  BY <1>1 DEF Browser
<1>3. Cut(client[c], kept) \in Browser /\ Ordered(server, Cut(client[c], kept).got) /\ NothingMissing(Cut(client[c], kept))
  BY <1>2, CutKeeps
<1>4. client' = [client EXCEPT ![c] = Cut(client[c], kept)] /\ UNCHANGED <<server, trail>>
  BY DEF CloseStream
<1>5. client' \in [Clients -> Browser]
  BY <1>1, <1>3, <1>4
<1>6. \A d \in Clients : client'[d] = IF d = c THEN Cut(client[c], kept) ELSE client[d]
  BY <1>1, <1>4
<1>7. \A d \in Clients : Ordered(server, client'[d].got) /\ NothingMissing(client'[d])
  BY <1>3, <1>6 DEF BusInv
<1>8. \A d \in Clients : Ordered(server', client'[d].got) /\ NothingMissing(client[d])'
  BY <1>4, <1>7 DEF NothingMissing, Follows
<1> QED BY <1>4, <1>5, <1>8 DEF BusInv, Remembers, Oldest, Placed

\* Of the new life nothing was published yet.
LEMMA RestartKeeps ==
  ASSUME BusInv, Restart
  PROVE  BusInv'
<1>1. /\ server' = Listen(server.life + 1) /\ UNCHANGED trail
      /\ client' = [c \in Clients |-> Cut(client[c], Len(client[c].got))]
  BY DEF Restart
<1>2. server.life \in Nat /\ \A e \in ToSet(trail) : e.life \in Nat /\ e.seq \in Nat /\ e.life <= server.life
  BY DEF BusInv, Remembers, Placed
<1>3. Remembers(server)' /\ server'.life = server.life + 1
  BY <1>1, <1>2 DEF Listen, Remembers, Oldest
<1>4. \A e \in ToSet(trail) : e.life # server'.life /\ Placed(server', e)
  BY <1>2, <1>3 DEF Placed
<1>5. ASSUME NEW c \in Clients PROVE client'[c] \in Browser /\ Ordered(server', client'[c].got)
  <2> DEFINE got == client[c].got
             cut == client'[c].got
  <2>1. client[c] \in Browser /\ Ordered(server, got) /\ Len(got) \in 0..Len(got)
    BY DEF BusInv, Browser
  <2>2. client'[c] = Cut(client[c], Len(got))
    BY <1>1
  <2>3. client'[c] \in Browser /\ Len(cut) = Len(got) /\ \A k \in 1..Len(got) : cut[k] = got[k]
    BY <2>1, <2>2, CutKeeps
  <2>4. got \in Seq(Nat \X Nat) /\ cut \in Seq(Nat \X Nat)
    BY <2>1, <2>3 DEF Browser
  <2> HIDE DEF got, cut
  <2>5. DOMAIN cut = DOMAIN got /\ \A k \in DOMAIN got : cut[k] = got[k] /\ got[k][1] \in Nat
    BY <2>3, <2>4
  <2>6. \A k \in DOMAIN got : got[k][1] < server'.life
    BY <1>2, <1>3, <2>1, <2>5 DEF Ordered
  <2>7. Ordered(server', cut)
    BY <1>2, <1>3, <2>1, <2>5, <2>6 DEF Ordered
  <2> QED BY <2>3, <2>7 DEF cut
<1>6. client' \in [Clients -> Browser]
  BY <1>1, <1>5
<1>7. \A c \in Clients : NothingMissing(client[c])'
  BY <1>1, <1>4 DEF NothingMissing
<1> QED BY <1>1, <1>3, <1>4, <1>5, <1>6, <1>7 DEF BusInv

\* Every other step leaves the buffer, what was published and the browsers alone.
LEMMA BusStep == BusInv /\ [SystemNext]_systemVars => BusInv'
<1> SUFFICES ASSUME BusInv, [SystemNext]_systemVars PROVE BusInv'
  OBVIOUS
<1>1. ASSUME UNCHANGED <<server, trail, client>> PROVE BusInv'
  BY <1>1, BusStays
<1>2. ASSUME NEW c \in Clients, OpenStream(c) PROVE BusInv'
  BY <1>2, OpenKeeps
<1>3. ASSUME NEW c \in Clients, NEW kept, CloseStream(c, kept) PROVE BusInv'
  BY <1>3, CloseKeeps
<1>4. ASSUME Restart PROVE BusInv'
  BY <1>4, RestartKeeps
<1>5. ASSUME NEW project, ServerPlan(project) PROVE BusInv'
  <2>1. <<"OBJECTIVE_SUBMITTED", "MEETING_STARTED", "PLAN_FORMULATED", "MEETING_ENDED">> \in Seq(Kinds)
    BY Listed DEF Kinds
  <2> QED BY <1>5, <2>1, AnnounceKeeps DEF ServerPlan
<1>6. ASSUME NEW project, ServerRequestApproval(project) PROVE BusInv'
  <2>1. <<"APPROVAL_REQUESTED">> \in Seq(Kinds)
    BY Listed DEF Kinds
  <2>2. PICK items : Announce([server EXCEPT !.approvals = items], <<"APPROVAL_REQUESTED">>, project, Len(trail) + 1)
    BY <1>6 DEF ServerRequestApproval
  <2>3. PICK memory : /\ memory = [server EXCEPT !.approvals = items]
                      /\ Announce(memory, <<"APPROVAL_REQUESTED">>, project, Len(trail) + 1)
    BY <2>2
  <2>4. memory.history = server.history /\ memory.seq = server.seq /\ memory.life = server.life /\ DOMAIN memory = DOMAIN server
    BY <2>3 DEF BusInv, Remembers
  <2> QED BY <2>1, <2>3, <2>4, AnnounceKeeps
<1>7. ASSUME NEW t, NEW evidence, ServerReview(t, evidence, OwnProject) PROVE BusInv'
  <2> DEFINE n == server.iterations[t] + 1
             kinds == ReviewEvents(n, evidence)
  <2>0. Announce([server EXCEPT !.iterations[t] = n], kinds, OwnProject, t) /\ kinds \in Seq(Kinds)
    BY <1>7, ReviewsHaveEvents, Zenon DEF ServerReview
  <2> HIDE DEF n, kinds
  <2>1. PICK memory : memory = [server EXCEPT !.iterations[t] = n] /\ Announce(memory, kinds, OwnProject, t)
    BY <2>0, Zenon
  <2>2. memory.history = server.history /\ memory.seq = server.seq /\ memory.life = server.life /\ DOMAIN memory = DOMAIN server
    BY <2>1 DEF BusInv, Remembers
  <2> QED BY <2>0, <2>1, <2>2, AnnounceKeeps
<1>8. ASSUME NEW n, NEW role, NEW d, ServerDecideApproval(n, role, d) PROVE BusInv'
  <2>0. <<IF d = "GRANT" THEN "APPROVAL_GRANTED" ELSE "APPROVAL_REJECTED">> \in Seq(Kinds)
    BY Listed DEF Kinds
  <2> DEFINE item == server.approvals[n]
             status == IF d = "GRANT" THEN "GRANTED" ELSE "REJECTED"
             kinds == <<IF d = "GRANT" THEN "APPROVAL_GRANTED" ELSE "APPROVAL_REJECTED">>
  <2>1. Announce([server EXCEPT !.approvals[n].status = status], kinds, item.project, item.id) /\ kinds \in Seq(Kinds)
    BY <1>8, <2>0, Zenon DEF ServerDecideApproval
  <2> HIDE DEF item, status, kinds
  <2>2. PICK memory : memory = [server EXCEPT !.approvals[n].status = status] /\ Announce(memory, kinds, item.project, item.id)
    BY <2>1, Zenon
  <2>3. memory.history = server.history /\ memory.seq = server.seq /\ memory.life = server.life /\ DOMAIN memory = DOMAIN server
    BY <2>2 DEF BusInv, Remembers
  <2> QED BY <2>1, <2>2, <2>3, AnnounceKeeps
<1>9. ASSUME NEW given, NEW n, NEW k, NEW d,
             ServerPostPipeline(given) \/ ServerPostTick(n) \/ ServerDecideCheckpoint(n, k, d)
      PROVE  BusInv'
  <2>1. \E kept : PipelineStep(kept)
    BY <1>9 DEF ServerPostPipeline, ServerPostTick, ServerDecideCheckpoint
  <2>2. PICK kept : server' = [server EXCEPT !.pipelines = kept] /\ UNCHANGED <<trail, client>>
    BY <2>1 DEF PipelineStep
  <2> QED BY <2>2, BusStays DEF BusInv, Remembers
<1>10. ASSUME NEW n, AnnounceStep(n) PROVE BusInv'
  <2>1. \/ UNCHANGED <<server, trail, client>>
        \/ \E kinds \in Seq(Kinds) : Announce(server, kinds, OwnProject, calls[n].task)
    BY <1>10, DelegationsHaveEvents, Zenon DEF AnnounceStep
  <2> QED BY <1>1, <2>1, AnnounceKeeps
<1>11. ASSUME NEW given, NEW k, NEW p, NEW n, NEW ok, NEW t,
              \/ PostExecuteStep(given, k) \/ PostIngest(p) \/ ListTasks(n, ok) \/ IntakeEnds(n, ok)
              \/ MarkTask(n, ok) \/ WorkerOverwrites(t)
       PROVE  BusInv'
  BY <1>1, <1>11 DEF PostExecuteStep, PostIngest, Waiting, ListTasks, IntakeEnds, MarkTask, WorkerOverwrites
<1>12. CASE ServerNext
  BY <1>2, <1>3, <1>4, <1>5, <1>6, <1>7, <1>8, <1>9, <1>10, <1>11, <1>12 DEF ServerNext
<1>13. CASE UNCHANGED serverVars
  BY <1>1, <1>13 DEF serverVars
<1> QED BY <1>12, <1>13 DEF SystemNext, systemVars

\* Neither stream loses an event on the way: replay and polling of the API's stream skip nothing the table held but
\* what the cursor had passed before, and a browser of the PDL API gets every event of its project once and in order.
THEOREM StreamsStayComplete == SystemSpec => []StreamsAreComplete
<1>1. FlowInv => NoSilentGap
  BY DEF FlowInv, Accounted, NoSilentGap
<1>2. BusInv => StreamIsExact
  <2> SUFFICES ASSUME BusInv, NEW c \in Clients, client[c].pc = "on"
               PROVE  LET got == client[c].got
                          mine == {k \in DOMAIN got : got[k][1] = server.life}
                      IN  /\ \A j, k \in mine : j < k => got[j][2] < got[k][2]
                          /\ \A e \in ToSet(trail) :
                               (/\ e.life = server.life /\ MatchesFilter(e.project)
                                /\ e.seq > client[c].start /\ e.seq > client[c].horizon)
                                 => \E k \in mine : got[k][2] = e.seq
    BY DEF StreamIsExact
  <2>1. Ordered(server, client[c].got) /\ NothingMissing(client[c])
    BY DEF BusInv
  <2> QED BY <2>1 DEF Ordered, NothingMissing
<1>3. FlowInv /\ BusInv => StreamsAreComplete
  BY <1>1, <1>2 DEF StreamsAreComplete
<1> QED BY <1>3, FlowInitially, FlowStep, BusInitially, BusStep, PTL DEF SystemSpec, systemVars
=============================================================================
