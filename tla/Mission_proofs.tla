--------------------------- MODULE Mission_proofs ---------------------------
(***************************************************************************)
(* What the autonomy loop guarantees, for any number of callers, processes,*)
(* cycles, calls and faults: whatever anybody takes for verified has       *)
(* evidence, as long as no cycle has rows in two places.  And what the     *)
(* learning that the missions feed guarantees, for any events, feedback,   *)
(* tenants, decisions and restarts.                                        *)
(***************************************************************************)
EXTENDS Mission, Learning, FiniteSetTheorems, TLAPS

Places == Processes \cup {db}

-----------------------------------------------------------------------------
(* Shapes *)

RowFields == {"status", "target", "task", "stop"}
CallerFields == {"pc", "cycle", "last", "state", "mission", "seen", "target", "task", "outcome"}

\* A place has a row of every cycle, and a row without a status is no row.
RowShape(row) ==
  /\ DOMAIN row = RowFields
  /\ row.status = "NONE" => row = NoRow

StoreShape(st) ==
  /\ DOMAIN st = Places
  /\ \A s \in Places : /\ DOMAIN st[s] = {"mission", "state", "cycles"}
                       /\ DOMAIN st[s].cycles = CycleNumbers
                       /\ \A n \in CycleNumbers : RowShape(st[s].cycles[n])

CallerShape(r) ==
  /\ DOMAIN r = CallerFields
  /\ r.cycle \in CycleNumbers /\ r.last \in CycleNumbers /\ r.cycle <= r.last

QueueShape(ts) ==
  /\ \E S : ts \in Seq(S)
  /\ \A k \in DOMAIN ts : DOMAIN ts[k] = {"target", "status"}

Shapes ==
  /\ ProcessOf \in [Threads -> Processes]
  /\ DOMAIN th = Threads /\ \A t \in Threads : CallerShape(th[t])
  /\ StoreShape(store)
  /\ QueueShape(tasks)

\* A home is the database or the process itself.
LEMMA HomeIsPlace ==
  ASSUME NEW p \in Processes, NEW ok, NEW present
  PROVE  Home(p, ok, present) \in {p, db} /\ Home(p, ok, present) \in Places
BY DEF Home, Places

LEMMA UpdateShape ==
  ASSUME NEW row, RowShape(row), row # NoRow, NEW fields, DOMAIN fields \subseteq {"status", "task", "stop"},
         "status" \in DOMAIN fields => fields.status # "NONE"
  PROVE  LET new == [f \in DOMAIN row |-> IF f \in DOMAIN fields THEN fields[f] ELSE row[f]]
         IN /\ RowShape(new) /\ new # NoRow
            /\ new.target = row.target
            /\ new.status = (IF "status" \in DOMAIN fields THEN fields.status ELSE row.status)
            /\ new.task = (IF "task" \in DOMAIN fields THEN fields.task ELSE row.task)
<1> DEFINE new == [f \in DOMAIN row |-> IF f \in DOMAIN fields THEN fields[f] ELSE row[f]]
<1>1. DOMAIN row = RowFields /\ DOMAIN new = RowFields
  BY DEF RowShape
<1>2. /\ new.target = row.target
      /\ new.status = (IF "status" \in DOMAIN fields THEN fields.status ELSE row.status)
      /\ new.task = (IF "task" \in DOMAIN fields THEN fields.task ELSE row.task)
  BY <1>1 DEF RowFields
<1>3. new.status # "NONE"
  BY <1>2 DEF RowShape
<1>4. new # NoRow
  BY <1>3 DEF NoRow
<1> QED BY <1>1, <1>2, <1>3, <1>4 DEF RowShape

-----------------------------------------------------------------------------
(* Evidence.  ts is the queue the evidence is looked for in. *)

Backed(c, ts) == Initially(c) \/ \E k \in DOMAIN ts : ts[k].target = c /\ ts[k].status = "verified"
Supported(state, ts) == \A c \in DOMAIN state : state[c] = "VERIFIED" => Backed(c, ts)
AllBacked(ts) == \A i \in DOMAIN targets : Backed(targets[i], ts)

\* The task of a running row was made for the row's target.
RowOK(row, ts) ==
  row.status = "RUNNING" /\ row.task # 0 => row.task \in DOMAIN ts /\ ts[row.task].target = row.target

StoreOK(st, ts) ==
  \A s \in Places : /\ \A n \in CycleNumbers : RowOK(st[s].cycles[n], ts)
                    /\ Supported(st[s].state, ts)
                    /\ st[s].mission = "COMPLETED" => AllBacked(ts)

\* The same of what a caller has read, planned and queued.
CallerOK(r, ts) ==
  /\ RowOK(r.seen, ts)
  /\ r.pc = "recoverTask" => r.seen.status = "RUNNING" /\ r.seen.task # 0
  /\ r.pc \in {"link", "execute", "outcome"} => r.task \in DOMAIN ts /\ ts[r.task].target = r.target
  /\ Supported(r.state, ts)
  /\ r.mission = "COMPLETED" => AllBacked(ts)

\* Between its acquire and its link a caller of process p has a row to link to, and a
\* row it may still find running was acquired for the caller's own target.
HoldsRow(r, p, st) ==
  r.pc \in {"intake", "link"} =>
    /\ \E h \in {db, p} : st[h].cycles[r.cycle] # NoRow
    /\ \A h \in {db, p} : st[h].cycles[r.cycle].status = "RUNNING" => st[h].cycles[r.cycle].target = r.target

Honest ==
  /\ StoreOK(store, tasks)
  /\ \A t \in Threads : CallerOK(th[t], tasks) /\ HoldsRow(th[t], ProcessOf[t], store)

Inv == Shapes /\ (doubled = {} => Honest)

\* Tasks are added and finished, but they keep their target and their evidence.
Grown(ts, us) ==
  \A k \in DOMAIN ts : /\ k \in DOMAIN us /\ us[k].target = ts[k].target
                       /\ ts[k].status = "verified" => us[k].status = "verified"

LEMMA GrownKeeps ==
  ASSUME NEW ts, NEW us, Grown(ts, us)
  PROVE  /\ \A c : Backed(c, ts) => Backed(c, us)
         /\ AllBacked(ts) => AllBacked(us)
         /\ \A x : Supported(x, ts) => Supported(x, us)
         /\ \A row : RowOK(row, ts) => RowOK(row, us)
         /\ \A r : CallerOK(r, ts) => CallerOK(r, us)
         /\ \A st : StoreOK(st, ts) => StoreOK(st, us)
<1>1. \A c : Backed(c, ts) => Backed(c, us)
  BY DEF Grown, Backed
<1>2. AllBacked(ts) => AllBacked(us)
  BY <1>1 DEF AllBacked
<1>3. \A x : Supported(x, ts) => Supported(x, us)
  BY <1>1 DEF Supported
<1>4. \A row : RowOK(row, ts) => RowOK(row, us)
  BY DEF Grown, RowOK
<1>5. \A r : CallerOK(r, ts) => CallerOK(r, us)
  BY <1>2, <1>3, <1>4 DEF CallerOK, Grown
<1>6. \A st : StoreOK(st, ts) => StoreOK(st, us)
  BY <1>2, <1>3, <1>4 DEF StoreOK
<1> QED BY <1>1, <1>2, <1>3, <1>4, <1>5, <1>6

LEMMA GrownSame == \A ts : Grown(ts, ts)
BY DEF Grown

\* What every step but an acquire does to the rows: none appears, none disappears,
\* and what still runs did so before, for the same target.
Follows(st, st2) ==
  \A s \in Places, n \in CycleNumbers :
    /\ st[s].cycles[n] # NoRow <=> st2[s].cycles[n] # NoRow
    /\ st2[s].cycles[n].status = "RUNNING" =>
         st[s].cycles[n].status = "RUNNING" /\ st2[s].cycles[n].target = st[s].cycles[n].target

LEMMA FollowsKeeps ==
  ASSUME NEW st, NEW st2, Follows(st, st2), NEW r, r.cycle \in CycleNumbers, NEW p \in Processes,
         HoldsRow(r, p, st)
  PROVE  HoldsRow(r, p, st2)
BY DEF Follows, HoldsRow, Places

\* A step of one caller keeps the invariant if the caller's new state, the store and
\* the tasks are as they should be and no other caller loses its row.
LEMMA StepKeeps ==
  ASSUME Inv, NEW t \in Threads, UNCHANGED mission,
         DOMAIN th' = Threads, \A u \in Threads \ {t} : th'[u] = th[u],
         CallerShape(th'[t]), StoreShape(store'), QueueShape(tasks'), Grown(tasks, tasks'),
         doubled \subseteq doubled',
         doubled' = {} /\ Honest =>
           /\ StoreOK(store', tasks') /\ CallerOK(th'[t], tasks')
           /\ HoldsRow(th'[t], ProcessOf[t], store')
           /\ \A u \in Threads \ {t} : HoldsRow(th[u], ProcessOf[u], store')
  PROVE  Inv'
<1>1. Shapes'
  BY DEF Inv, Shapes, mission
<1>2. ASSUME doubled' = {}
      PROVE  Honest'
  <2>1. Honest
    BY <1>2 DEF Inv
  <2>2. \A u \in Threads \ {t} : CallerOK(th[u], tasks')
    BY <2>1, GrownKeeps DEF Honest
  <2>3. \A x : AllBacked(x)' = AllBacked(x)
    BY DEF AllBacked, Backed, Initially, mission
  <2> QED BY <1>2, <2>1, <2>2, <2>3 DEF Honest, StoreOK, CallerOK, mission
<1> QED BY <1>1, <1>2 DEF Inv

-----------------------------------------------------------------------------
(* The writes of the repository *)

LEMMA SameStore == \A st : Follows(st, st)
BY DEF Follows

LEMMA SavedState ==
  ASSUME StoreShape(store), NEW p \in Processes, NEW x, NEW ok, SaveCurrentState(p, x, ok)
  PROVE  /\ StoreShape(store') /\ Follows(store, store')
         /\ \A ts : StoreOK(store, ts) /\ Supported(x, ts) => StoreOK(store', ts)
<1> DEFINE h == Home(p, ok, TRUE)
<1>1. h \in Places
  BY HomeIsPlace
<1>2. store' = [store EXCEPT ![h].state = x]
  BY DEF SaveCurrentState
<1> HIDE DEF h
<1>3. /\ StoreShape(store')
      /\ \A s \in Places : /\ store'[s].state = (IF s = h THEN x ELSE store[s].state)
                           /\ store'[s].mission = store[s].mission /\ store'[s].cycles = store[s].cycles
  BY <1>1, <1>2 DEF StoreShape
<1>4. Follows(store, store')
  BY <1>3 DEF Follows
<1>5. \A ts : StoreOK(store, ts) /\ Supported(x, ts) => StoreOK(store', ts)
  BY <1>3 DEF StoreOK
<1> QED BY <1>3, <1>4, <1>5

LEMMA WrittenMission ==
  ASSUME StoreShape(store), NEW h \in Places, NEW x, store' = [store EXCEPT ![h].mission = x]
  PROVE  /\ StoreShape(store') /\ Follows(store, store')
         /\ \A ts : StoreOK(store, ts) /\ (x = "COMPLETED" => AllBacked(ts)) => StoreOK(store', ts)
<1>3. /\ StoreShape(store')
      /\ \A s \in Places : /\ store'[s].mission = (IF s = h THEN x ELSE store[s].mission)
                           /\ store'[s].state = store[s].state /\ store'[s].cycles = store[s].cycles
  BY DEF StoreShape
<1>4. Follows(store, store')
  BY <1>3 DEF Follows
<1>5. \A ts : StoreOK(store, ts) /\ (x = "COMPLETED" => AllBacked(ts)) => StoreOK(store', ts)
  BY <1>3 DEF StoreOK
<1> QED BY <1>3, <1>4, <1>5

LEMMA UpdatedMission ==
  ASSUME StoreShape(store), NEW p \in Processes, NEW x, NEW ok, UpdateMission(p, x, ok)
  PROVE  /\ StoreShape(store') /\ Follows(store, store')
         /\ \A ts : StoreOK(store, ts) /\ (x = "COMPLETED" => AllBacked(ts)) => StoreOK(store', ts)
<1> DEFINE h == Home(p, ok, store[db].mission # "NONE")
<1>1. h \in Places
  BY HomeIsPlace
<1>2. store' = store \/ store' = [store EXCEPT ![h].mission = x]
  BY DEF UpdateMission
<1> HIDE DEF h
<1>3. CASE store' = store
  BY <1>3, SameStore
<1>4. CASE store' = [store EXCEPT ![h].mission = x]
  BY <1>1, <1>4, WrittenMission
<1> QED BY <1>2, <1>3, <1>4

\* An update of a row that exists: of the fields given, neither its target nor, but
\* for a link, its task is one.
LEMMA UpdatedRow ==
  ASSUME StoreShape(store), NEW p \in Processes, NEW n \in CycleNumbers, NEW fields, NEW ok,
         UpdateCycle(p, n, fields, ok), DOMAIN fields \subseteq {"status", "task", "stop"},
         "status" \in DOMAIN fields => fields.status \notin {"NONE", "RUNNING"}
  PROVE  /\ StoreShape(store') /\ Follows(store, store')
         /\ \E h \in {p, db} :
              /\ \A s \in Places : store'[s].state = store[s].state /\ store'[s].mission = store[s].mission
              /\ \A s \in Places, m \in CycleNumbers :
                   ~(s = h /\ m = n) => store'[s].cycles[m] = store[s].cycles[m]
              /\ store'[h].cycles[n].status = "RUNNING" =>
                   /\ store[h].cycles[n].status = "RUNNING" /\ "status" \notin DOMAIN fields
                   /\ store[h].cycles[n] # NoRow
                   /\ store'[h].cycles[n].target = store[h].cycles[n].target
                   /\ store'[h].cycles[n].task =
                        (IF "task" \in DOMAIN fields THEN fields.task ELSE store[h].cycles[n].task)
<1> DEFINE h == Home(p, ok, store[db].cycles[n] # NoRow)
           row == store[h].cycles[n]
           new == [f \in DOMAIN row |-> IF f \in DOMAIN fields THEN fields[f] ELSE row[f]]
<1>1. h \in {p, db} /\ h \in Places
  BY HomeIsPlace
<1>2. store' = IF row = NoRow THEN store ELSE [store EXCEPT ![h].cycles[n] = new]
  BY DEF UpdateCycle
<1>3. RowShape(row)
  BY <1>1 DEF StoreShape
<1> HIDE DEF h
<1>4. CASE row = NoRow
  <2>1. store' = store /\ row.status # "RUNNING"
    BY <1>2, <1>4 DEF NoRow
  <2> QED BY <1>1, <2>1, SameStore
<1>5. CASE row # NoRow
  <2>1. store' = [store EXCEPT ![h].cycles[n] = new]
    BY <1>2, <1>5
  <2>2. /\ RowShape(new) /\ new # NoRow
        /\ new.target = row.target
        /\ new.status = (IF "status" \in DOMAIN fields THEN fields.status ELSE row.status)
        /\ new.task = (IF "task" \in DOMAIN fields THEN fields.task ELSE row.task)
    <3> HIDE DEF row
    <3> QED BY <1>3, <1>5, UpdateShape
  <2> DEFINE x == new
  <2> HIDE DEF x
  <2>3. RowShape(x) /\ store' = [store EXCEPT ![h].cycles[n] = x]
    BY <2>1, <2>2 DEF x
  <2>4. /\ StoreShape(store')
        /\ \A s \in Places : store'[s].state = store[s].state /\ store'[s].mission = store[s].mission
        /\ \A s \in Places, m \in CycleNumbers :
             store'[s].cycles[m] = IF s = h /\ m = n THEN x ELSE store[s].cycles[m]
    BY <1>1, <2>3 DEF StoreShape
  <2>5. /\ x # NoRow /\ x.target = row.target
        /\ x.status = (IF "status" \in DOMAIN fields THEN fields.status ELSE row.status)
        /\ x.task = (IF "task" \in DOMAIN fields THEN fields.task ELSE row.task)
    BY <2>2 DEF x
  <2>6. x.status = "RUNNING" => row.status = "RUNNING" /\ "status" \notin DOMAIN fields
    BY <2>5
  <2>7. Follows(store, store')
    BY <1>5, <2>4, <2>5, <2>6 DEF Follows
  <2> QED BY <1>1, <1>5, <2>4, <2>5, <2>6, <2>7
<1> QED BY <1>4, <1>5

\* Ending a cycle, or having it wait, leaves nothing running in its row.
LEMMA EndedRow ==
  ASSUME StoreShape(store), NEW p \in Processes, NEW n \in CycleNumbers, NEW fields, NEW ok,
         UpdateCycle(p, n, fields, ok), DOMAIN fields \subseteq {"status", "stop"}, "status" \in DOMAIN fields,
         fields.status \in {"COMPLETED", "FAILED", "BLOCKED", "WAITING_APPROVAL"}
  PROVE  /\ StoreShape(store') /\ Follows(store, store')
         /\ \A ts : StoreOK(store, ts) => StoreOK(store', ts)
<1>1. PICK h \in {p, db} :
        /\ StoreShape(store') /\ Follows(store, store')
        /\ \A s \in Places : store'[s].state = store[s].state /\ store'[s].mission = store[s].mission
        /\ \A s \in Places, m \in CycleNumbers :
             ~(s = h /\ m = n) => store'[s].cycles[m] = store[s].cycles[m]
        /\ store'[h].cycles[n].status # "RUNNING"
  BY UpdatedRow
<1> QED BY <1>1 DEF StoreOK, RowOK

\* An acquire in h leaves a row that exists as it is, or adds a running row without a task.
Acquired(h, n, target, st, st2) ==
  /\ st2[h].cycles[n] # NoRow
  /\ \A s \in Places, m \in CycleNumbers : ~(s = h /\ m = n) => st2[s].cycles[m] = st[s].cycles[m]
  /\ \/ st[h].cycles[n] # NoRow /\ st2[h].cycles[n] = st[h].cycles[n]
     \/ st[h].cycles[n] = NoRow /\ st2[h].cycles[n].target = target

LEMMA AcquiredRow ==
  ASSUME StoreShape(store), NEW p \in Processes, NEW n \in CycleNumbers, NEW target, NEW ok,
         store' = AcquireCycle(p, n, target, ok)
  PROVE  /\ StoreShape(store')
         /\ \A ts : StoreOK(store, ts) => StoreOK(store', ts)
         /\ Acquired(Home(p, ok, TRUE), n, target, store, store')
<1> DEFINE h == Home(p, ok, TRUE)
           row == [NoRow EXCEPT !.status = "RUNNING", !.target = target]
<1>1. h \in {p, db} /\ h \in Places
  BY HomeIsPlace
<1>2. store' = IF store[h].cycles[n] # NoRow THEN store ELSE [store EXCEPT ![h].cycles[n] = row]
  BY DEF AcquireCycle
<1>3. RowShape(row) /\ row # NoRow /\ row.target = target /\ row.task = 0
  BY DEF NoRow, RowShape, RowFields
<1> HIDE DEF h, row
<1>4. CASE store[h].cycles[n] # NoRow
  BY <1>1, <1>2, <1>4 DEF h, Acquired
<1>5. CASE store[h].cycles[n] = NoRow
  <2>1. store' = [store EXCEPT ![h].cycles[n] = row]
    BY <1>2, <1>5
  <2>2. /\ StoreShape(store')
        /\ \A s \in Places : store'[s].state = store[s].state /\ store'[s].mission = store[s].mission
        /\ \A s \in Places, m \in CycleNumbers :
             store'[s].cycles[m] = IF s = h /\ m = n THEN row ELSE store[s].cycles[m]
    BY <1>1, <1>3, <2>1 DEF StoreShape
  <2>3. \A ts : StoreOK(store, ts) => StoreOK(store', ts)
    BY <1>3, <2>2 DEF StoreOK, RowOK
  <2> QED BY <1>1, <1>3, <1>5, <2>2, <2>3 DEF h, Acquired
<1> QED BY <1>4, <1>5

\* After an acquire that gives no cycle a second row, whoever held a row still holds it.
LEMMA AcquireKeepsRows ==
  ASSUME StoreShape(store), NEW p \in Processes, NEW n \in CycleNumbers, NEW target, NEW ok,
         store' = AcquireCycle(p, n, target, ok), Doubled' = {}
  PROVE  /\ \A r, q : r.cycle \in CycleNumbers /\ q \in Processes /\ HoldsRow(r, q, store)
                        => HoldsRow(r, q, store')
         /\ store[Home(p, ok, TRUE)].cycles[n].status # "RUNNING" =>
              \A r : r.cycle = n /\ r.target = target => HoldsRow(r, p, store')
<1> DEFINE h == Home(p, ok, TRUE)
<1>0. h \in {p, db}
  BY HomeIsPlace
<1>1. /\ store'[h].cycles[n] # NoRow
      /\ \A s \in Places, m \in CycleNumbers :
           ~(s = h /\ m = n) => store'[s].cycles[m] = store[s].cycles[m]
      /\ \/ store[h].cycles[n] # NoRow /\ store'[h].cycles[n] = store[h].cycles[n]
         \/ store[h].cycles[n] = NoRow /\ store'[h].cycles[n].target = target
  <2>1. Acquired(h, n, target, store, store')
    BY AcquiredRow
  <2> QED BY <2>1 DEF Acquired
<1> HIDE DEF h
<1>2. \A m \in CycleNumbers, q \in Processes : store'[db].cycles[m] = NoRow \/ store'[q].cycles[m] = NoRow
  BY DEF Doubled
<1>3. h \in Places /\ p \in Places /\ db \in Places
  BY <1>0 DEF Places
<1>4. \A s \in {p, db} : s # h => store'[s].cycles[n] = NoRow
  <2>1. store'[db].cycles[n] = NoRow \/ store'[p].cycles[n] = NoRow
    BY <1>2
  <2>2. store'[h].cycles[n] # NoRow
    BY <1>1
  <2> QED BY <1>0, <2>1, <2>2
<1>5. ASSUME NEW r, NEW q, r.cycle \in CycleNumbers, q \in Processes, HoldsRow(r, q, store)
      PROVE  HoldsRow(r, q, store')
  <2> SUFFICES ASSUME r.pc \in {"intake", "link"} PROVE HoldsRow(r, q, store')
    BY DEF HoldsRow
  <2> DEFINE m == r.cycle
  <2>0. q \in Places
    BY <1>5 DEF Places
  <2>1. PICK g \in {db, q} : store[g].cycles[m] # NoRow
    BY <1>5 DEF HoldsRow
  <2>2. g \in Places
    BY <2>0, <1>3
  <2>3. store'[g].cycles[m] = store[g].cycles[m]
    BY <1>1, <1>5, <2>1, <2>2
  <2>4. ASSUME NEW s \in {db, q}, store'[s].cycles[m].status = "RUNNING"
        PROVE  store'[s].cycles[m].target = r.target
    <3>1. s = g
      <4>1. store'[s].cycles[m] # NoRow
        BY <2>4 DEF NoRow
      <4> QED BY <4>1, <1>2, <1>5, <2>1, <2>3
    <3> QED BY <1>5, <2>3, <2>4, <3>1 DEF HoldsRow
  <2> QED BY <2>1, <2>3, <2>4 DEF HoldsRow
<1>6. ASSUME store[h].cycles[n].status # "RUNNING", NEW r, r.cycle = n, r.target = target
      PROVE  HoldsRow(r, p, store')
  <2>1. ASSUME NEW s \in {db, p}, store'[s].cycles[n].status = "RUNNING"
        PROVE  store'[s].cycles[n].target = target
    <3>1. s = h
      BY <1>4, <2>1 DEF NoRow
    <3> QED BY <1>1, <1>6, <2>1, <3>1
  <2> QED BY <1>0, <1>1, <1>6, <2>1 DEF HoldsRow
<1> QED BY <1>5, <1>6 DEF h

-----------------------------------------------------------------------------
(* The callers *)

LEMMA IdleIsFine ==
  /\ CallerShape(Idle)
  /\ \A ts : CallerOK(Idle, ts)
  /\ \A p, st : HoldsRow(Idle, p, st)
<1>1. CallerShape(Idle)
  BY CyclesAssumption DEF CallerShape, CallerFields, Idle, CycleNumbers
<1>2. \A ts : Supported(InitialStatus, ts)
  BY DEF Supported, Backed, Initially
<1>3. \A ts : CallerOK(Idle, ts)
  BY <1>2 DEF CallerOK, Idle, RowOK, NoRow
<1> QED BY <1>1, <1>3 DEF HoldsRow, Idle

LEMMA ReturnedIsFine ==
  ASSUME NEW t \in Threads, CallerShape(th[t]), NEW x, NEW stopped
  PROVE  /\ CallerShape(Returned(t, x, stopped))
         /\ \A ts : CallerOK(th[t], ts) /\ Supported(x, ts) => CallerOK(Returned(t, x, stopped), ts)
         /\ \A p, st : HoldsRow(Returned(t, x, stopped), p, st)
<1>1. CASE stopped \/ th[t].cycle = th[t].last
  BY <1>1, IdleIsFine DEF Returned
<1>2. CASE ~(stopped \/ th[t].cycle = th[t].last)
  <2> DEFINE r == [Idle EXCEPT !.pc = "lookup", !.cycle = th[t].cycle + 1, !.last = th[t].last,
                               !.state = x, !.mission = th[t].mission]
  <2>1. Returned(t, x, stopped) = r
    BY <1>2 DEF Returned
  <2>2. /\ DOMAIN r = CallerFields /\ r.pc = "lookup" /\ r.cycle = th[t].cycle + 1 /\ r.last = th[t].last
        /\ r.state = x /\ r.mission = th[t].mission /\ r.seen = NoRow
    BY DEF Idle, CallerFields
  <2>3. CallerShape(r)
    BY <1>2, <2>2, CyclesAssumption DEF CallerShape, CycleNumbers
  <2> HIDE DEF r
  <2>4. \A ts : CallerOK(th[t], ts) /\ Supported(x, ts) => CallerOK(r, ts)
    BY <2>2 DEF CallerOK, RowOK, NoRow
  <2>5. \A p, st : HoldsRow(r, p, st)
    BY <2>2 DEF HoldsRow
  <2> QED BY <2>1, <2>3, <2>4, <2>5
<1> QED BY <1>1, <1>2

\* An action completes the mission only if every target is verified.
LEMMA CompletionIsVerified ==
  ASSUME NEW goals, NEW state, SelectNextBestAction(goals, state).type = "COMPLETE_MISSION"
  PROVE  \A i \in DOMAIN goals : ~Unverified(state, goals[i])
BY DEF SelectNextBestAction

LEMMA PlannedIsFine ==
  ASSUME NEW t \in Threads, CallerShape(th[t])
  PROVE  /\ CallerShape(Planned(t))
         /\ \A ts : CallerOK(th[t], ts) => CallerOK(Planned(t), ts)
         /\ \A p, st : HoldsRow(Planned(t), p, st)
<1> DEFINE a == SelectNextBestAction(targets, th[t].state)
           r == th[t]
           q == Planned(t)
<1>1. a.type = "COMPLETE_MISSION" => \A i \in DOMAIN targets : ~Unverified(r.state, targets[i])
  BY CompletionIsVerified
<1>2. \/ q = [r EXCEPT !.pc = "status", !.mission = "PAUSED"]
      \/ a.type = "COMPLETE_MISSION" /\ q = [r EXCEPT !.pc = "status", !.mission = "COMPLETED"]
      \/ q = [r EXCEPT !.pc = "status", !.mission = "BLOCKED"]
      \/ q = [r EXCEPT !.pc = "hold", !.target = a.target]
      \/ q = [r EXCEPT !.pc = "create", !.target = a.target]
  <2> DEFINE b == a
  <2>1. Planned(t) = IF r.cycle > MaxCycles THEN [r EXCEPT !.pc = "status", !.mission = "PAUSED"]
      ELSE CASE b.type = "COMPLETE_MISSION" -> [r EXCEPT !.pc = "status", !.mission = "COMPLETED"]
             [] b.type = "BLOCKED_REVIEW" -> [r EXCEPT !.pc = "status", !.mission = "BLOCKED"]
             [] b.type = "ADVANCE" /\ b.risk = "HIGH" -> [r EXCEPT !.pc = "hold", !.target = b.target]
             [] OTHER -> [r EXCEPT !.pc = "create", !.target = b.target]
    BY DEF Planned
  <2> HIDE DEF b
  <2>2. b = a
    BY DEF b
  <2> HIDE DEF a
  <2> QED BY <2>1, <2>2
<1> HIDE DEF a, q
<1>3. /\ DOMAIN q = DOMAIN r /\ q.pc \in {"status", "hold", "create"}
      /\ q.cycle = r.cycle /\ q.last = r.last /\ q.state = r.state /\ q.seen = r.seen
      /\ q.mission = "COMPLETED" => r.mission = "COMPLETED" \/ a.type = "COMPLETE_MISSION"
  BY <1>2 DEF CallerShape, CallerFields
<1>4. CallerShape(q)
  BY <1>3 DEF CallerShape
<1>5. ASSUME NEW ts, CallerOK(r, ts)
      PROVE  CallerOK(q, ts)
  <2>1. q.mission = "COMPLETED" => AllBacked(ts)
    BY <1>1, <1>3, <1>5 DEF CallerOK, AllBacked, Supported, Unverified
  <2> QED BY <1>3, <1>5, <2>1 DEF CallerOK
<1>6. \A p, st : HoldsRow(q, p, st)
  BY <1>3 DEF HoldsRow
<1> QED BY <1>4, <1>5, <1>6 DEF q

-----------------------------------------------------------------------------
(* Every step keeps the invariant *)

\* A caller of which only the place in the code and what it has read, planned or
\* queued changes.
Moves(t) ==
  /\ DOMAIN th' = Threads /\ \A u \in Threads \ {t} : th'[u] = th[u]
  /\ CallerShape(th'[t])

LEMMA ShapesOf ==
  ASSUME Inv, NEW t \in Threads
  PROVE  /\ DOMAIN th = Threads /\ CallerShape(th[t]) /\ th[t].cycle \in CycleNumbers
         /\ ProcessOf[t] \in Processes /\ ProcessOf[t] \in Places
         /\ StoreShape(store) /\ QueueShape(tasks) /\ StoreShape(store)
BY DEF Inv, Shapes, CallerShape, Places

LEMMA GotoMoves ==
  ASSUME Inv, NEW t \in Threads, NEW pc, Goto(t, pc)
  PROVE  /\ Moves(t)
         /\ th'[t] = [th[t] EXCEPT !.pc = pc]
<1>1. th' = [th EXCEPT ![t].pc = pc]
  BY DEF Goto
<1> QED BY <1>1, ShapesOf DEF Moves, CallerShape, CallerFields

LEMMA GotoIsFine ==
  ASSUME NEW r, CallerShape(r), NEW pc,
         pc \notin {"recoverTask", "intake", "link", "execute", "outcome"},
         NEW q, q = [r EXCEPT !.pc = pc]
  PROVE  /\ \A ts : CallerOK(r, ts) => CallerOK(q, ts)
         /\ \A p, st : HoldsRow(q, p, st)
<1>1. q.pc = pc /\ q.seen = r.seen /\ q.state = r.state /\ q.mission = r.mission
  BY DEF CallerShape, CallerFields
<1> QED BY <1>1 DEF CallerOK, HoldsRow

LEMMA BecomesMoves ==
  ASSUME Inv, NEW t \in Threads, NEW r, CallerShape(r), th' = [th EXCEPT ![t] = r]
  PROVE  Moves(t) /\ th'[t] = r
BY ShapesOf DEF Moves

\* A step that leaves the store, or changes no row but to end it, and leaves the tasks.
LEMMA QuietStep ==
  ASSUME Inv, NEW t \in Threads, UNCHANGED <<mission, tasks, doubled>>, Moves(t),
         StoreShape(store'), Follows(store, store'),
         Honest => StoreOK(store', tasks) /\ CallerOK(th'[t], tasks) /\ HoldsRow(th'[t], ProcessOf[t], store')
  PROVE  Inv'
<1>1. QueueShape(tasks') /\ Grown(tasks, tasks')
  BY ShapesOf, GrownSame
<1>2. Honest => \A u \in Threads \ {t} : HoldsRow(th[u], ProcessOf[u], store')
  <2> SUFFICES ASSUME Honest, NEW u \in Threads \ {t} PROVE HoldsRow(th[u], ProcessOf[u], store')
    OBVIOUS
  <2>1. HoldsRow(th[u], ProcessOf[u], store) /\ ProcessOf[u] \in Processes /\ th[u].cycle \in CycleNumbers
    BY ShapesOf DEF Honest
  <2> QED BY <2>1, FollowsKeeps
<1> QED BY <1>1, <1>2, StepKeeps DEF Moves

\* A step of the caller alone.
LEMMA CallerStep ==
  ASSUME Inv, NEW t \in Threads, UNCHANGED <<mission, store, tasks, doubled>>, Moves(t),
         Honest => CallerOK(th'[t], tasks) /\ HoldsRow(th'[t], ProcessOf[t], store)
  PROVE  Inv'
<1>1. StoreShape(store') /\ Follows(store, store')
  BY ShapesOf, SameStore
<1>2. Honest => StoreOK(store', tasks)
  BY DEF Honest
<1> QED BY <1>1, <1>2, QuietStep

\* The caller returns, with a state it may have.
LEMMA ReturnMoves ==
  ASSUME Inv, NEW t \in Threads, NEW x, NEW stopped,
         th' = [th EXCEPT ![t] = Idle] \/ th' = [th EXCEPT ![t] = Returned(t, x, stopped)]
  PROVE  /\ Moves(t)
         /\ Honest /\ Supported(x, tasks) => CallerOK(th'[t], tasks)
         /\ \A p, st : HoldsRow(th'[t], p, st)
<1>1. CallerShape(th[t])
  BY ShapesOf
<1>2. CASE th' = [th EXCEPT ![t] = Idle]
  <2>1. Moves(t) /\ th'[t] = Idle
    BY <1>2, IdleIsFine, BecomesMoves
  <2> QED BY <2>1, IdleIsFine
<1>3. CASE th' = [th EXCEPT ![t] = Returned(t, x, stopped)]
  <2> DEFINE r == Returned(t, x, stopped)
  <2>1. /\ CallerShape(r)
        /\ \A ts : CallerOK(th[t], ts) /\ Supported(x, ts) => CallerOK(r, ts)
        /\ \A p, st : HoldsRow(r, p, st)
    BY <1>1, ReturnedIsFine
  <2> HIDE DEF r
  <2>2. th' = [th EXCEPT ![t] = r]
    BY <1>3 DEF r
  <2>3. Moves(t) /\ th'[t] = r
    BY <2>1, <2>2, BecomesMoves
  <2> QED BY <2>1, <2>3 DEF Honest
<1> QED BY <1>2, <1>3

LEMMA LookupKeeps ==
  ASSUME Inv, NEW t \in Threads, NEW ok, Lookup(t, ok)
  PROVE  Inv'
<1> DEFINE row == GetCycle(ProcessOf[t], th[t].cycle, ok)
           r == [th[t] EXCEPT !.pc = "decide", !.seen = row]
<1>1. th' = [th EXCEPT ![t] = r] /\ UNCHANGED <<mission, store, tasks, doubled>>
  BY DEF Lookup, others
<1>2. CallerShape(r) /\ r.pc = "decide" /\ r.seen = row /\ r.state = th[t].state /\ r.mission = th[t].mission
  BY ShapesOf DEF CallerShape, CallerFields
<1>3. Honest => RowOK(row, tasks)
  BY ShapesOf, HomeIsPlace DEF GetCycle, Honest, StoreOK
<1> HIDE DEF r, row
<1>4. Moves(t) /\ th'[t] = r
  BY <1>1, <1>2, BecomesMoves
<1>5. Honest => CallerOK(r, tasks) /\ HoldsRow(r, ProcessOf[t], store)
  BY <1>2, <1>3 DEF CallerOK, HoldsRow, Honest
<1> QED BY <1>1, <1>4, <1>5, CallerStep

LEMMA LatestStateKeeps ==
  ASSUME Inv, NEW t \in Threads, NEW ok, LatestState(t, ok)
  PROVE  Inv'
<1> DEFINE s == store[Home(ProcessOf[t], ok, store[db].state # <<>>)].state
           x == IF s = <<>> THEN th[t].state ELSE s
           stopped == th[t].seen.stop # "NONE"
<1>1. th' = [th EXCEPT ![t] = Returned(t, x, stopped)] /\ UNCHANGED <<mission, store, tasks, doubled>>
  BY DEF LatestState, others
<1>2. Honest => Supported(x, tasks)
  BY ShapesOf, HomeIsPlace DEF Honest, StoreOK, CallerOK
<1> HIDE DEF x, stopped
<1>3. /\ Moves(t)
      /\ Honest /\ Supported(x, tasks) => CallerOK(th'[t], tasks)
      /\ \A p, st : HoldsRow(th'[t], p, st)
  BY <1>1, ReturnMoves
<1> QED BY <1>1, <1>2, <1>3, CallerStep

LEMMA DecideKeeps ==
  ASSUME Inv, NEW t \in Threads, Decide(t)
  PROVE  Inv'
<1> DEFINE s == th[t].seen.status
<1>1. UNCHANGED <<mission, store, tasks, doubled>>
  BY DEF Decide, others
<1>2. \/ Goto(t, "latest") \/ Goto(t, "recoverFail")
      \/ s = "RUNNING" /\ th[t].seen.task # 0 /\ Goto(t, "recoverTask")
      \/ th' = [th EXCEPT ![t] = Idle] \/ th' = [th EXCEPT ![t] = Planned(t)]
  BY DEF Decide
<1>3. ASSUME NEW pc \in {"latest", "recoverFail"}, Goto(t, pc)
      PROVE  Inv'
  <2>1. Moves(t) /\ th'[t] = [th[t] EXCEPT !.pc = pc]
    BY <1>3, GotoMoves
  <2>2. /\ \A ts : CallerOK(th[t], ts) => CallerOK(th'[t], ts)
        /\ \A p, st : HoldsRow(th'[t], p, st)
    BY <2>1, ShapesOf, GotoIsFine
  <2> QED BY <1>1, <2>1, <2>2, CallerStep DEF Honest
<1>4. ASSUME s = "RUNNING", th[t].seen.task # 0, Goto(t, "recoverTask")
      PROVE  Inv'
  <2>1. Moves(t) /\ th'[t] = [th[t] EXCEPT !.pc = "recoverTask"]
    BY <1>4, GotoMoves
  <2>2. /\ th'[t].pc = "recoverTask" /\ th'[t].seen = th[t].seen
        /\ th'[t].state = th[t].state /\ th'[t].mission = th[t].mission
    BY <2>1, ShapesOf DEF CallerShape, CallerFields
  <2>3. Honest => CallerOK(th'[t], tasks) /\ HoldsRow(th'[t], ProcessOf[t], store)
    BY <1>4, <2>2 DEF Honest, CallerOK, HoldsRow
  <2> QED BY <1>1, <2>1, <2>3, CallerStep
<1>5. CASE th' = [th EXCEPT ![t] = Idle]
  <2>1. Moves(t) /\ th'[t] = Idle
    BY <1>5, IdleIsFine, BecomesMoves
  <2> QED BY <1>1, <2>1, IdleIsFine, CallerStep
<1>6. CASE th' = [th EXCEPT ![t] = Planned(t)]
  <2>1. /\ CallerShape(Planned(t))
        /\ \A ts : CallerOK(th[t], ts) => CallerOK(Planned(t), ts)
        /\ \A p, st : HoldsRow(Planned(t), p, st)
    BY ShapesOf, PlannedIsFine
  <2>2. Moves(t) /\ th'[t] = Planned(t)
    BY <1>6, <2>1, BecomesMoves
  <2> QED BY <1>1, <2>1, <2>2, CallerStep DEF Honest
<1> QED BY <1>2, <1>3, <1>4, <1>5, <1>6

\* A capability taken for verified is one the evidence is there for.
LEMMA UpdatedState ==
  ASSUME NEW x, NEW c, NEW status, NEW ts, Supported(x, ts), status = "VERIFIED" => Backed(c, ts)
  PROVE  Supported(ApplyStateUpdate(x, c, status), ts)
BY DEF Supported, ApplyStateUpdate

LEMMA RecoverTaskKeeps ==
  ASSUME Inv, NEW t \in Threads, RecoverTask(t)
  PROVE  Inv'
<1> DEFINE x == ApplyStateUpdate(th[t].state, th[t].seen.target, "VERIFIED")
           r == IF RecoveredTask(th[t].seen.task) THEN [th[t] EXCEPT !.pc = "recoverSave", !.state = x]
                ELSE [th[t] EXCEPT !.pc = "recoverFail"]
<1>1. th[t].pc = "recoverTask" /\ th' = [th EXCEPT ![t] = r] /\ UNCHANGED <<mission, store, tasks, doubled>>
  BY DEF RecoverTask, others
<1>2. /\ CallerShape(r) /\ r.pc \in {"recoverSave", "recoverFail"}
      /\ r.seen = th[t].seen /\ r.mission = th[t].mission
      /\ r.state = IF RecoveredTask(th[t].seen.task) THEN x ELSE th[t].state
  BY ShapesOf DEF CallerShape, CallerFields
<1>3. Honest /\ RecoveredTask(th[t].seen.task) => Supported(x, tasks)
  <2> SUFFICES ASSUME Honest, RecoveredTask(th[t].seen.task) PROVE Supported(x, tasks)
    OBVIOUS
  <2>1. Supported(th[t].state, tasks) /\ Backed(th[t].seen.target, tasks)
    BY <1>1 DEF Honest, CallerOK, RowOK, RecoveredTask, Backed
  <2> QED BY <2>1, UpdatedState
<1> HIDE DEF r, x
<1>4. Moves(t) /\ th'[t] = r
  BY <1>1, <1>2, BecomesMoves
<1>5. Honest => CallerOK(r, tasks) /\ HoldsRow(r, ProcessOf[t], store)
  BY <1>2, <1>3 DEF CallerOK, HoldsRow, Honest
<1> QED BY <1>1, <1>4, <1>5, CallerStep

LEMMA ReadOutcomeKeeps ==
  ASSUME Inv, NEW t \in Threads, ReadOutcome(t)
  PROVE  Inv'
<1> DEFINE status == tasks[th[t].task].status
           x == ApplyStateUpdate(th[t].state, th[t].target, IF IsVerified(status) THEN "VERIFIED" ELSE "PARTIAL")
           r == [th[t] EXCEPT !.pc = "saveAfter", !.outcome = status, !.state = x]
<1>1. th[t].pc = "outcome" /\ th' = [th EXCEPT ![t] = r] /\ UNCHANGED <<mission, store, tasks, doubled>>
  BY DEF ReadOutcome, others
<1>2. /\ CallerShape(r) /\ r.pc = "saveAfter"
      /\ r.seen = th[t].seen /\ r.mission = th[t].mission /\ r.state = x
  BY ShapesOf DEF CallerShape, CallerFields
<1>3. Honest => Supported(x, tasks)
  <2> SUFFICES ASSUME Honest PROVE Supported(x, tasks)
    OBVIOUS
  <2>1. /\ Supported(th[t].state, tasks)
        /\ IsVerified(status) => Backed(th[t].target, tasks)
    BY <1>1 DEF Honest, CallerOK, IsVerified, Backed
  <2>2. (IF IsVerified(status) THEN "VERIFIED" ELSE "PARTIAL") = "VERIFIED" => Backed(th[t].target, tasks)
    BY <2>1
  <2> QED BY <2>1, <2>2, UpdatedState
<1> HIDE DEF r, x
<1>4. Moves(t) /\ th'[t] = r
  BY <1>1, <1>2, BecomesMoves
<1>5. Honest => CallerOK(r, tasks) /\ HoldsRow(r, ProcessOf[t], store)
  BY <1>2, <1>3 DEF CallerOK, HoldsRow, Honest
<1> QED BY <1>1, <1>4, <1>5, CallerStep

LEMMA NothingToExecuteKeeps ==
  ASSUME Inv, NEW t \in Threads, NothingToExecute(t)
  PROVE  Inv'
<1> DEFINE r == [th[t] EXCEPT !.pc = "saveAfter", !.outcome = "BLOCKED"]
<1>1. th' = [th EXCEPT ![t] = r] /\ UNCHANGED <<mission, store, tasks, doubled>>
  BY DEF NothingToExecute, others
<1>2. /\ CallerShape(r) /\ r.pc = "saveAfter"
      /\ r.seen = th[t].seen /\ r.mission = th[t].mission /\ r.state = th[t].state
  BY ShapesOf DEF CallerShape, CallerFields
<1> HIDE DEF r
<1>4. Moves(t) /\ th'[t] = r
  BY <1>1, <1>2, BecomesMoves
<1>5. Honest => CallerOK(r, tasks) /\ HoldsRow(r, ProcessOf[t], store)
  BY <1>2 DEF CallerOK, HoldsRow, Honest
<1> QED BY <1>1, <1>4, <1>5, CallerStep

\* A caller starts with the state it recovers or with the initial one.
LEMMA CallKeeps ==
  ASSUME Inv, NEW t \in Threads, NEW first \in CycleNumbers, NEW last \in CycleNumbers,
         NEW recovered, NEW ok, Call(t, first, last, recovered, ok)
  PROVE  Inv'
<1> DEFINE p == ProcessOf[t]
           m == IF recovered THEN RecoverMission(p, ok).mission ELSE "ACTIVE"
           x == IF recovered THEN RecoverMission(p, ok).state ELSE InitialStatus
           r == [Idle EXCEPT !.pc = "lookup", !.cycle = first, !.last = last, !.mission = m, !.state = x]
<1>1. th' = [th EXCEPT ![t] = r] /\ UNCHANGED <<mission, store, tasks, doubled>> /\ first <= last
  <2>1. th' = [th EXCEPT ![t] = r] /\ UNCHANGED <<mission, store, tasks, doubled>>
    BY DEF Call
  <2>2. last = first \/ (first = 1 /\ last = MaxCycles)
    BY DEF Call
  <2> QED BY <2>1, <2>2, CyclesAssumption DEF CycleNumbers
<1>2. /\ CallerShape(r) /\ r.pc = "lookup" /\ r.seen = NoRow /\ r.mission = m /\ r.state = x
  BY <1>1 DEF CallerShape, CallerFields, Idle
<1>3. Honest => Supported(x, tasks) /\ (m = "COMPLETED" => AllBacked(tasks))
  <2> SUFFICES ASSUME Honest PROVE Supported(x, tasks) /\ (m = "COMPLETED" => AllBacked(tasks))
    OBVIOUS
  <2> DEFINE hm == Home(p, ok, store[db].mission # "NONE")
             hs == Home(p, ok, store[db].state # <<>>)
  <2>1. hm \in Places /\ hs \in Places
    BY ShapesOf, HomeIsPlace
  <2>2. RecoverMission(p, ok).mission = (IF store[hm].mission = "NONE" THEN "ACTIVE" ELSE store[hm].mission)
        /\ RecoverMission(p, ok).state = (IF store[hs].state = <<>> THEN InitialStatus ELSE store[hs].state)
    BY DEF RecoverMission
  <2> HIDE DEF hm, hs
  <2>3. Supported(InitialStatus, tasks)
    BY DEF Supported, Backed, Initially
  <2> QED BY <2>1, <2>2, <2>3 DEF Honest, StoreOK
<1> HIDE DEF r, m, x
<1>4. Moves(t) /\ th'[t] = r
  BY <1>1, <1>2, BecomesMoves
<1>5. Honest => CallerOK(r, tasks) /\ HoldsRow(r, ProcessOf[t], store)
  BY <1>2, <1>3 DEF CallerOK, HoldsRow, RowOK, NoRow
<1> QED BY <1>1, <1>4, <1>5, CallerStep

\* The three steps that save the caller's system state.
LEMMA SaveKeeps ==
  ASSUME Inv, NEW t \in Threads, NEW ok, RecoverSave(t, ok) \/ SaveBefore(t, ok) \/ SaveAfter(t, ok)
  PROVE  Inv'
<1> DEFINE x == th[t].state
<1>1. SaveCurrentState(ProcessOf[t], x, ok) /\ UNCHANGED <<mission, tasks, doubled>>
  BY DEF RecoverSave, SaveBefore, SaveAfter, others
<1>2. PICK pc \in {"recoverDone", "acquire", "finish"} : Goto(t, pc)
  BY DEF RecoverSave, SaveBefore, SaveAfter
<1>3. /\ StoreShape(store') /\ Follows(store, store')
      /\ \A ts : StoreOK(store, ts) /\ Supported(x, ts) => StoreOK(store', ts)
  <2> HIDE DEF x
  <2> QED BY <1>1, ShapesOf, SavedState
<1>4. Moves(t) /\ th'[t] = [th[t] EXCEPT !.pc = pc]
  BY <1>2, GotoMoves
<1>5. /\ \A ts : CallerOK(th[t], ts) => CallerOK(th'[t], ts)
      /\ \A p, st : HoldsRow(th'[t], p, st)
  BY <1>4, ShapesOf, GotoIsFine
<1>6. Honest => StoreOK(store', tasks) /\ CallerOK(th'[t], tasks)
  BY <1>3, <1>5 DEF Honest, CallerOK
<1> QED BY <1>1, <1>3, <1>4, <1>5, <1>6, QuietStep

\* A cycle that ends, or waits for the CEO, and its caller returns.
LEMMA EndKeeps ==
  ASSUME Inv, NEW t \in Threads, NEW fields, NEW ok, NEW stopped,
         UpdateCycle(ProcessOf[t], th[t].cycle, fields, ok), UNCHANGED <<mission, tasks, doubled>>,
         DOMAIN fields \subseteq {"status", "stop"}, "status" \in DOMAIN fields,
         fields.status \in {"COMPLETED", "FAILED", "BLOCKED", "WAITING_APPROVAL"},
         th' = [th EXCEPT ![t] = Idle] \/ th' = [th EXCEPT ![t] = Returned(t, th[t].state, stopped)]
  PROVE  Inv'
<1>1. /\ StoreShape(store') /\ Follows(store, store')
      /\ \A ts : StoreOK(store, ts) => StoreOK(store', ts)
  <2> DEFINE n == th[t].cycle
  <2>1. n \in CycleNumbers /\ UpdateCycle(ProcessOf[t], n, fields, ok)
    BY ShapesOf
  <2> HIDE DEF n
  <2> QED BY <2>1, ShapesOf, EndedRow
<1>2. /\ Moves(t)
      /\ Honest /\ Supported(th[t].state, tasks) => CallerOK(th'[t], tasks)
      /\ \A p, st : HoldsRow(th'[t], p, st)
  BY ReturnMoves
<1>3. Honest => StoreOK(store', tasks) /\ CallerOK(th'[t], tasks)
  BY <1>1, <1>2 DEF Honest, CallerOK
<1> QED BY <1>1, <1>2, <1>3, QuietStep

LEMMA RecoverDoneKeeps ==
  ASSUME Inv, NEW t \in Threads, NEW ok, RecoverDone(t, ok)
  PROVE  Inv'
<1> DEFINE fields == [status |-> "COMPLETED"]
<1>1. /\ UpdateCycle(ProcessOf[t], th[t].cycle, fields, ok)
      /\ UNCHANGED <<mission, tasks, doubled>>
      /\ th' = [th EXCEPT ![t] = Returned(t, th[t].state, FALSE)]
  BY DEF RecoverDone, others
<1>2. DOMAIN fields = {"status"} /\ fields.status = "COMPLETED"
  OBVIOUS
<1> HIDE DEF fields
<1> QED BY <1>1, <1>2, EndKeeps

LEMMA RecoverFailKeeps ==
  ASSUME Inv, NEW t \in Threads, NEW ok, RecoverFail(t, ok)
  PROVE  Inv'
<1> DEFINE fields == [status |-> "FAILED", stop |-> "CRASH_RECOVERY_REQUIRED"]
<1>1. /\ UpdateCycle(ProcessOf[t], th[t].cycle, fields, ok)
      /\ UNCHANGED <<mission, tasks, doubled>>
      /\ th' = [th EXCEPT ![t] = Idle]
  BY DEF RecoverFail, others
<1>2. DOMAIN fields = {"status", "stop"} /\ fields.status = "FAILED"
  OBVIOUS
<1> HIDE DEF fields
<1> QED BY <1>1, <1>2, EndKeeps

LEMMA AskApprovalKeeps ==
  ASSUME Inv, NEW t \in Threads, NEW ok, AskApproval(t, ok)
  PROVE  Inv'
<1> DEFINE fields == [status |-> "WAITING_APPROVAL", stop |-> "WAITING_APPROVAL"]
<1>1. /\ UpdateCycle(ProcessOf[t], th[t].cycle, fields, ok)
      /\ UNCHANGED <<mission, tasks, doubled>>
      /\ th' = [th EXCEPT ![t] = Returned(t, th[t].state, TRUE)]
  BY DEF AskApproval, ReturnAndRelease, others
<1>2. DOMAIN fields = {"status", "stop"} /\ fields.status = "WAITING_APPROVAL"
  OBVIOUS
<1> HIDE DEF fields
<1> QED BY <1>1, <1>2, EndKeeps

LEMMA FinishKeeps ==
  ASSUME Inv, NEW t \in Threads, NEW ok, Finish(t, ok)
  PROVE  Inv'
<1> DEFINE o == th[t].outcome
           strict == o \in {"failed", "QUEUED"} /\ riskPolicy = "STRICT"
           status == CASE IsVerified(o) -> "COMPLETED" [] o = "BLOCKED" -> "BLOCKED" [] OTHER -> "FAILED"
           fields == IF o = "BLOCKED" THEN [status |-> status, stop |-> "ENVIRONMENT_BLOCKED"]
                     ELSE IF strict THEN [status |-> status, stop |-> "UNRECOVERABLE_FAILURE"]
                     ELSE [status |-> status]
<1>1. /\ UpdateCycle(ProcessOf[t], th[t].cycle, fields, ok)
      /\ UNCHANGED <<mission, tasks, doubled>>
      /\ th' = [th EXCEPT ![t] = Returned(t, th[t].state, o = "BLOCKED" \/ strict)]
  BY DEF Finish, ReturnAndRelease, others
<1>2. status \in {"COMPLETED", "BLOCKED", "FAILED"}
  BY DEF IsVerified
<1>3. /\ DOMAIN fields \subseteq {"status", "stop"} /\ "status" \in DOMAIN fields
      /\ fields.status \in {"COMPLETED", "BLOCKED", "FAILED"}
  <2> HIDE DEF status, strict, o
  <2> QED BY <1>2
<1> DEFINE stopped == o = "BLOCKED" \/ strict
<1>4. th' = [th EXCEPT ![t] = Returned(t, th[t].state, stopped)]
  BY <1>1
<1> HIDE DEF fields, stopped
<1> QED BY <1>1, <1>3, <1>4, EndKeeps

LEMMA SetMissionStatusKeeps ==
  ASSUME Inv, NEW t \in Threads, NEW ok, SetMissionStatus(t, ok)
  PROVE  Inv'
<1> DEFINE m == th[t].mission
<1>1. /\ UpdateMission(ProcessOf[t], m, ok) /\ UNCHANGED <<mission, tasks, doubled>>
      /\ th' = [th EXCEPT ![t] = Returned(t, th[t].state, TRUE)]
  BY DEF SetMissionStatus, ReturnAndRelease, others
<1>2. Honest => (m = "COMPLETED" => AllBacked(tasks)) /\ Supported(th[t].state, tasks)
  BY DEF Honest, CallerOK
<1> HIDE DEF m
<1>3. /\ StoreShape(store') /\ Follows(store, store')
      /\ \A ts : StoreOK(store, ts) /\ (m = "COMPLETED" => AllBacked(ts)) => StoreOK(store', ts)
  BY <1>1, ShapesOf, UpdatedMission
<1>4. /\ Moves(t)
      /\ Honest /\ Supported(th[t].state, tasks) => CallerOK(th'[t], tasks)
      /\ \A p, st : HoldsRow(th'[t], p, st)
  BY <1>1, ReturnMoves
<1>5. Honest => StoreOK(store', tasks) /\ CallerOK(th'[t], tasks)
  BY <1>2, <1>3, <1>4 DEF Honest
<1> QED BY <1>1, <1>3, <1>4, <1>5, QuietStep

LEMMA CreateMissionKeeps ==
  ASSUME Inv, NEW t \in Threads, NEW ok, CreateMission(t, ok)
  PROVE  Inv'
<1> DEFINE m == th[t].mission
           h == Home(ProcessOf[t], ok, TRUE)
<1>1. /\ store' = [store EXCEPT ![h].mission = m] /\ UNCHANGED <<mission, tasks, doubled>>
      /\ Goto(t, "save")
  BY DEF CreateMission, others
<1>2. h \in Places
  BY ShapesOf, HomeIsPlace
<1>3. Honest => (m = "COMPLETED" => AllBacked(tasks))
  BY DEF Honest, CallerOK
<1> HIDE DEF m, h
<1>4. /\ StoreShape(store') /\ Follows(store, store')
      /\ \A ts : StoreOK(store, ts) /\ (m = "COMPLETED" => AllBacked(ts)) => StoreOK(store', ts)
  BY <1>1, <1>2, ShapesOf, WrittenMission
<1>5. Moves(t) /\ th'[t] = [th[t] EXCEPT !.pc = "save"]
  BY <1>1, GotoMoves
<1>6. /\ \A ts : CallerOK(th[t], ts) => CallerOK(th'[t], ts)
      /\ \A p, st : HoldsRow(th'[t], p, st)
  BY <1>5, ShapesOf, GotoIsFine
<1>7. Honest => StoreOK(store', tasks) /\ CallerOK(th'[t], tasks)
  BY <1>3, <1>4, <1>6 DEF Honest
<1> QED BY <1>1, <1>4, <1>5, <1>6, <1>7, QuietStep

LEMMA LinkTaskKeeps ==
  ASSUME Inv, NEW t \in Threads, NEW ok, LinkTask(t, ok)
  PROVE  Inv'
<1> DEFINE n == th[t].cycle
           k == th[t].task
           p == ProcessOf[t]
           fields == [task |-> k]
<1>1. /\ UpdateCycle(p, n, fields, ok) /\ UNCHANGED <<mission, tasks, doubled>>
      /\ Goto(t, "execute") /\ th[t].pc = "link"
  BY DEF LinkTask, others
<1>2. DOMAIN fields = {"task"} /\ fields.task = k
  OBVIOUS
<1>3. n \in CycleNumbers /\ p \in Processes /\ StoreShape(store)
  BY ShapesOf
<1>4. Moves(t) /\ th'[t] = [th[t] EXCEPT !.pc = "execute"]
  BY <1>1, GotoMoves
<1>5. Honest => CallerOK(th'[t], tasks) /\ HoldsRow(th'[t], p, store')
  <2>1. /\ th'[t].pc = "execute" /\ th'[t].seen = th[t].seen /\ th'[t].state = th[t].state
        /\ th'[t].mission = th[t].mission /\ th'[t].task = k /\ th'[t].target = th[t].target
    BY <1>4, ShapesOf DEF CallerShape, CallerFields
  <2> QED BY <1>1, <2>1 DEF Honest, CallerOK, HoldsRow
<1>6. Honest => /\ k \in DOMAIN tasks /\ tasks[k].target = th[t].target
                /\ \A h \in {db, p} : store[h].cycles[n].status = "RUNNING" =>
                     store[h].cycles[n].target = th[t].target
  BY <1>1 DEF Honest, CallerOK, HoldsRow
<1> HIDE DEF n, k, p, fields
<1>7. StoreShape(store') /\ Follows(store, store')
  BY <1>1, <1>2, <1>3, UpdatedRow
<1>8. \E h \in {p, db} :
        /\ \A s \in Places : store'[s].state = store[s].state /\ store'[s].mission = store[s].mission
        /\ \A s \in Places, m \in CycleNumbers :
             ~(s = h /\ m = n) => store'[s].cycles[m] = store[s].cycles[m]
        /\ store'[h].cycles[n].status = "RUNNING" =>
             /\ store[h].cycles[n].status = "RUNNING"
             /\ store'[h].cycles[n].target = store[h].cycles[n].target
             /\ store'[h].cycles[n].task = k
  BY <1>1, <1>2, <1>3, UpdatedRow
<1>9. Honest => StoreOK(store', tasks)
  <2> SUFFICES ASSUME Honest PROVE StoreOK(store', tasks)
    OBVIOUS
  <2>1. StoreOK(store, tasks)
    BY DEF Honest
  <2> QED BY <1>6, <1>8, <2>1 DEF StoreOK, RowOK
<1> QED BY <1>1, <1>4, <1>5, <1>7, <1>9, QuietStep DEF p

\* What both acquires have in common: no cycle may have got a second row.
LEMMA AcquireStep ==
  ASSUME Inv, NEW t \in Threads, NEW ok, UNCHANGED <<mission, tasks>>, Moves(t),
         store' = AcquireCycle(ProcessOf[t], th[t].cycle, th[t].target, ok), doubled' = doubled \cup Doubled',
         Honest => CallerOK(th'[t], tasks),
         Doubled' = {} => HoldsRow(th'[t], ProcessOf[t], store')
  PROVE  Inv'
<1> DEFINE n == th[t].cycle
           target == th[t].target
           p == ProcessOf[t]
<1>1. n \in CycleNumbers /\ p \in Processes /\ StoreShape(store) /\ QueueShape(tasks)
  BY ShapesOf
<1>2. store' = AcquireCycle(p, n, target, ok)
  OBVIOUS
<1> HIDE DEF n, target, p
<1>3. StoreShape(store') /\ \A ts : StoreOK(store, ts) => StoreOK(store', ts)
  BY <1>1, <1>2, AcquiredRow
<1>4. Doubled' = {} =>
        \A r, q : r.cycle \in CycleNumbers /\ q \in Processes /\ HoldsRow(r, q, store) => HoldsRow(r, q, store')
  BY <1>1, <1>2, AcquireKeepsRows
<1>5. Doubled' = {} /\ Honest => \A u \in Threads \ {t} : HoldsRow(th[u], ProcessOf[u], store')
  BY <1>4, ShapesOf DEF Honest
<1>6. QueueShape(tasks') /\ Grown(tasks, tasks')
  BY <1>1, GrownSame
<1>7. doubled \subseteq doubled' /\ (doubled' = {} => Doubled' = {})
  <2> DEFINE d == Doubled'
  <2>1. doubled' = doubled \cup d
    OBVIOUS
  <2> HIDE DEF d
  <2>2. doubled \subseteq doubled' /\ (doubled' = {} => d = {})
    BY <2>1
  <2> QED BY <2>2 DEF d
<1>8. doubled' = {} /\ Honest =>
           /\ StoreOK(store', tasks') /\ CallerOK(th'[t], tasks')
           /\ HoldsRow(th'[t], ProcessOf[t], store')
           /\ \A u \in Threads \ {t} : HoldsRow(th[u], ProcessOf[u], store')
  BY <1>3, <1>5, <1>7 DEF Honest
<1> QED BY <1>3, <1>6, <1>7, <1>8, StepKeeps DEF Moves

LEMMA HoldKeeps ==
  ASSUME Inv, NEW t \in Threads, NEW ok, Hold(t, ok)
  PROVE  Inv'
<1>1. /\ store' = AcquireCycle(ProcessOf[t], th[t].cycle, th[t].target, ok)
      /\ doubled' = doubled \cup Doubled' /\ UNCHANGED <<mission, tasks>> /\ Goto(t, "ask")
  BY DEF Hold
<1>2. Moves(t) /\ th'[t] = [th[t] EXCEPT !.pc = "ask"]
  BY <1>1, GotoMoves
<1>3. /\ \A ts : CallerOK(th[t], ts) => CallerOK(th'[t], ts)
      /\ \A p, st : HoldsRow(th'[t], p, st)
  BY <1>2, ShapesOf, GotoIsFine
<1> QED BY <1>1, <1>2, <1>3, AcquireStep DEF Honest

LEMMA AcquireKeeps ==
  ASSUME Inv, NEW t \in Threads, NEW ok, Acquire(t, ok)
  PROVE  Inv'
<1> DEFINE n == th[t].cycle
           p == ProcessOf[t]
<1>1. /\ store' = AcquireCycle(p, n, th[t].target, ok)
      /\ doubled' = doubled \cup Doubled' /\ UNCHANGED <<mission, tasks>>
  BY DEF Acquire
<1>2. \/ th' = [th EXCEPT ![t] = Returned(t, th[t].state, TRUE)]
      \/ store[Home(p, ok, TRUE)].cycles[n].status # "RUNNING" /\ Goto(t, "intake")
  BY DEF Acquire, ReturnAndRelease
<1>3. CASE th' = [th EXCEPT ![t] = Returned(t, th[t].state, TRUE)]
  <2>1. /\ Moves(t)
        /\ Honest /\ Supported(th[t].state, tasks) => CallerOK(th'[t], tasks)
        /\ \A q, st : HoldsRow(th'[t], q, st)
    BY <1>3, ReturnMoves
  <2>2. Honest => CallerOK(th'[t], tasks)
    BY <2>1 DEF Honest, CallerOK
  <2> QED BY <1>1, <2>1, <2>2, AcquireStep
<1>4. CASE store[Home(p, ok, TRUE)].cycles[n].status # "RUNNING" /\ Goto(t, "intake")
  <2>1. Moves(t) /\ th'[t] = [th[t] EXCEPT !.pc = "intake"]
    BY <1>4, GotoMoves
  <2>2. /\ th'[t].pc = "intake" /\ th'[t].seen = th[t].seen /\ th'[t].state = th[t].state
        /\ th'[t].mission = th[t].mission /\ th'[t].cycle = n /\ th'[t].target = th[t].target
    BY <2>1, ShapesOf DEF CallerShape, CallerFields
  <2>3. Honest => CallerOK(th'[t], tasks)
    BY <2>2 DEF Honest, CallerOK
  <2>4. Doubled' = {} => HoldsRow(th'[t], p, store')
    <3> DEFINE target == th[t].target
    <3>1. /\ n \in CycleNumbers /\ p \in Processes /\ StoreShape(store)
          /\ store' = AcquireCycle(p, n, target, ok)
          /\ store[Home(p, ok, TRUE)].cycles[n].status # "RUNNING"
      BY <1>1, <1>4, ShapesOf
    <3>2. th'[t].cycle = n /\ th'[t].target = target
      BY <2>2
    <3> HIDE DEF n, p, target
    <3>3. Doubled' = {} => \A r : r.cycle = n /\ r.target = target => HoldsRow(r, p, store')
      BY <3>1, AcquireKeepsRows
    <3> QED BY <3>2, <3>3
  <2> QED BY <1>1, <2>1, <2>3, <2>4, AcquireStep
<1> QED BY <1>2, <1>3, <1>4

\* A task is queued for the caller's own target.
LEMMA ProcessIntakeKeeps ==
  ASSUME Inv, NEW t \in Threads, ProcessIntake(t)
  PROVE  Inv'
<1> DEFINE new == [target |-> th[t].target, status |-> "QUEUED"]
           k == Len(tasks) + 1
           r == [th[t] EXCEPT !.pc = "link", !.task = k]
<1>1. /\ tasks' = Append(tasks, new) /\ th' = [th EXCEPT ![t] = r]
      /\ UNCHANGED <<mission, store, doubled>> /\ th[t].pc = "intake"
  BY DEF ProcessIntake, others
<1>2. /\ CallerShape(r) /\ r.pc = "link" /\ r.task = k /\ r.cycle = th[t].cycle /\ r.target = th[t].target
      /\ r.seen = th[t].seen /\ r.mission = th[t].mission /\ r.state = th[t].state
  BY ShapesOf DEF CallerShape, CallerFields
<1>3. PICK S : tasks \in Seq(S)
  BY ShapesOf DEF QueueShape
<1> DEFINE T == S \cup {new}
<1>4. tasks \in Seq(T) /\ new \in T
  BY <1>3
<1>5. /\ tasks' \in Seq(T) /\ DOMAIN tasks' = DOMAIN tasks \cup {k} /\ k \in DOMAIN tasks'
      /\ \A j \in DOMAIN tasks : tasks'[j] = tasks[j]
      /\ tasks'[k] = new
  <2> HIDE DEF T, new
  <2> QED BY <1>1, <1>4
<1>6. QueueShape(tasks')
  BY <1>5, ShapesOf DEF QueueShape
<1>7. Grown(tasks, tasks')
  BY <1>5 DEF Grown
<1>8. tasks'[k].target = th[t].target
  BY <1>5
<1> HIDE DEF r, new, k
<1>9. Moves(t) /\ th'[t] = r
  BY <1>1, <1>2, BecomesMoves
<1>10. Honest => StoreOK(store', tasks')
  BY <1>1, <1>7, GrownKeeps DEF Honest
<1>11. Honest => CallerOK(r, tasks')
  <2>1. Honest => CallerOK(th[t], tasks')
    BY <1>7, GrownKeeps DEF Honest
  <2> QED BY <1>2, <1>5, <1>8, <2>1 DEF CallerOK
<1>12. Honest => HoldsRow(r, ProcessOf[t], store')
  BY <1>1, <1>2 DEF Honest, HoldsRow
<1>13. Honest => \A u \in Threads \ {t} : HoldsRow(th[u], ProcessOf[u], store')
  BY <1>1 DEF Honest
<1> QED BY <1>1, <1>6, <1>7, <1>9, <1>10, <1>11, <1>12, <1>13, ShapesOf, StepKeeps DEF Moves

LEMMA FinishedTask ==
  ASSUME QueueShape(tasks), NEW k, NEW result, WorkerFinishes(k, result)
  PROVE  QueueShape(tasks') /\ Grown(tasks, tasks')
<1>1. k \in DOMAIN tasks /\ tasks[k].status = "QUEUED" /\ tasks' = [tasks EXCEPT ![k].status = result]
  BY DEF WorkerFinishes
<1>2. PICK S : tasks \in Seq(S)
  BY DEF QueueShape
<1> DEFINE new == [tasks[k] EXCEPT !.status = result]
           T == S \cup {new}
<1>3. tasks \in Seq(T) /\ new \in T /\ tasks' = [tasks EXCEPT ![k] = new]
  BY <1>1, <1>2
<1>4. DOMAIN new = {"target", "status"} /\ new.target = tasks[k].target
  BY <1>1 DEF QueueShape
<1> HIDE DEF new, T
<1>5. /\ tasks' \in Seq(T) /\ DOMAIN tasks' = DOMAIN tasks
      /\ \A j \in DOMAIN tasks : tasks'[j] = IF j = k THEN new ELSE tasks[j]
  BY <1>1, <1>3
<1>6. QueueShape(tasks')
  BY <1>4, <1>5 DEF QueueShape
<1>7. Grown(tasks, tasks')
  BY <1>1, <1>4, <1>5 DEF Grown
<1> QED BY <1>6, <1>7

LEMMA ExecuteKeeps ==
  ASSUME Inv, NEW t \in Threads, NEW k, NEW result, Execute(t, k, result)
  PROVE  Inv'
<1>1. /\ WorkerFinishes(k, result) /\ Goto(t, "outcome") /\ th[t].pc = "execute"
      /\ UNCHANGED <<mission, store, doubled>>
  BY DEF Execute, others
<1>2. QueueShape(tasks') /\ Grown(tasks, tasks')
  BY <1>1, ShapesOf, FinishedTask
<1>3. Moves(t) /\ th'[t] = [th[t] EXCEPT !.pc = "outcome"]
  BY <1>1, GotoMoves
<1>4. /\ th'[t].pc = "outcome" /\ th'[t].seen = th[t].seen /\ th'[t].state = th[t].state
      /\ th'[t].mission = th[t].mission /\ th'[t].target = th[t].target /\ th'[t].task = th[t].task
  BY <1>3, ShapesOf DEF CallerShape, CallerFields
<1>5. Honest => StoreOK(store', tasks') /\ CallerOK(th[t], tasks')
  BY <1>1, <1>2, GrownKeeps DEF Honest
<1>6. Honest => CallerOK(th'[t], tasks')
  BY <1>1, <1>4, <1>5 DEF CallerOK
<1>7. HoldsRow(th'[t], ProcessOf[t], store')
  BY <1>4 DEF HoldsRow
<1>8. Honest => \A u \in Threads \ {t} : HoldsRow(th[u], ProcessOf[u], store')
  BY <1>1 DEF Honest
<1> QED BY <1>1, <1>2, <1>3, <1>5, <1>6, <1>7, <1>8, ShapesOf, StepKeeps DEF Moves

LEMMA SurroundingsKeep ==
  ASSUME Inv, UNCHANGED <<mission, store, th, doubled>>, QueueShape(tasks'), Grown(tasks, tasks')
  PROVE  Inv'
<1>1. Shapes'
  BY DEF Inv, Shapes, mission
<1>2. ASSUME doubled' = {}
      PROVE  Honest'
  <2>1. Honest
    BY <1>2 DEF Inv
  <2>2. StoreOK(store, tasks') /\ \A u \in Threads : CallerOK(th[u], tasks')
    BY <2>1, GrownKeeps DEF Honest
  <2>3. \A x : AllBacked(x)' = AllBacked(x)
    BY DEF AllBacked, Backed, Initially, mission
  <2> QED BY <2>1, <2>2, <2>3 DEF Honest, StoreOK, CallerOK, mission
<1> QED BY <1>1, <1>2 DEF Inv

\* A process dies: its maps are empty and its callers idle, the others keep their rows.
LEMMA CrashKeeps ==
  ASSUME Inv, NEW p \in Processes, Crash(p)
  PROVE  Inv'
<1>1. /\ th' = [t \in Threads |-> IF ProcessOf[t] = p THEN Idle ELSE th[t]]
      /\ store' = [store EXCEPT ![p] = Empty] /\ UNCHANGED <<mission, tasks, doubled>>
  BY DEF Crash
<1>2. Shapes
  BY DEF Inv
<1>3. \A s \in Places : store'[s] = IF s = p THEN Empty ELSE store[s]
  BY <1>1, <1>2 DEF Shapes, StoreShape, Places
<1>4. /\ DOMAIN Empty = {"mission", "state", "cycles"} /\ DOMAIN Empty.cycles = CycleNumbers
      /\ \A n \in CycleNumbers : Empty.cycles[n] = NoRow /\ RowShape(NoRow)
      /\ Empty.mission = "NONE" /\ DOMAIN Empty.state = {}
  BY DEF Empty, RowShape, RowFields, NoRow
<1>5. StoreShape(store')
  BY <1>1, <1>2, <1>3, <1>4 DEF Shapes, StoreShape, Places
<1>6. DOMAIN th' = Threads /\ \A t \in Threads : CallerShape(th'[t])
  BY <1>1, <1>2, IdleIsFine DEF Shapes
<1>7. Shapes'
  BY <1>1, <1>2, <1>5, <1>6 DEF Shapes, mission
<1>8. ASSUME doubled' = {}
      PROVE  Honest'
  <2>1. Honest
    BY <1>1, <1>8 DEF Inv
  <2>2. \A ts : Supported(Empty.state, ts)
    BY <1>4 DEF Supported
  <2>3. StoreOK(store', tasks)
    BY <1>3, <1>4, <2>1, <2>2 DEF Honest, StoreOK, RowOK, NoRow
  <2>4. \A t \in Threads : CallerOK(th'[t], tasks) /\ HoldsRow(th'[t], ProcessOf[t], store')
    <3> SUFFICES ASSUME NEW t \in Threads PROVE CallerOK(th'[t], tasks) /\ HoldsRow(th'[t], ProcessOf[t], store')
      OBVIOUS
    <3>1. CASE ProcessOf[t] = p
      <4>1. th'[t] = Idle
        BY <1>1, <3>1
      <4> QED BY <4>1, IdleIsFine
    <3>2. CASE ProcessOf[t] # p
      <4>1. th'[t] = th[t]
        BY <1>1, <3>2
      <4>2. store'[ProcessOf[t]] = store[ProcessOf[t]] /\ store'[db] = store[db]
        BY <1>2, <1>3, <3>2, PlacesAssumption DEF Shapes, Places
      <4> QED BY <2>1, <4>1, <4>2 DEF Honest, HoldsRow
    <3> QED BY <3>1, <3>2
  <2>5. \A x : AllBacked(x)' = AllBacked(x)
    BY <1>1 DEF AllBacked, Backed, Initially, mission
  <2> QED BY <1>1, <2>3, <2>4, <2>5 DEF Honest, StoreOK, CallerOK, mission
<1> QED BY <1>7, <1>8 DEF Inv

LEMMA InitIsFine == Init => Inv
<1> SUFFICES ASSUME Init PROVE Inv
  OBVIOUS
<1>1. /\ store = [s \in Places |-> Empty] /\ tasks = <<>> /\ th = [t \in Threads |-> Idle]
      /\ ProcessOf \in [Threads -> Processes]
  BY PlacesAssumption DEF Init, Places
<1>2. /\ DOMAIN Empty = {"mission", "state", "cycles"} /\ DOMAIN Empty.cycles = CycleNumbers
      /\ \A n \in CycleNumbers : Empty.cycles[n] = NoRow /\ RowShape(NoRow)
      /\ Empty.mission = "NONE" /\ DOMAIN Empty.state = {}
  BY DEF Empty, RowShape, RowFields, NoRow
<1>3. StoreShape(store)
  BY <1>1, <1>2 DEF StoreShape
<1>4. QueueShape(tasks)
  <2>1. tasks \in Seq({}) /\ DOMAIN tasks = {}
    BY <1>1
  <2> QED BY <2>1 DEF QueueShape
<1>5. StoreOK(store, tasks)
  BY <1>1, <1>2 DEF StoreOK, RowOK, NoRow, Supported
<1>6. Honest
  BY <1>1, <1>5, IdleIsFine DEF Honest
<1> QED BY <1>1, <1>3, <1>4, <1>6, IdleIsFine DEF Inv, Shapes

LEMMA StepOfCaller ==
  ASSUME Inv, NEW t \in Threads, Step(t)
  PROVE  Inv'
<1>1. CASE Decide(t)                    BY <1>1, DecideKeeps
<1>2. CASE RecoverTask(t)               BY <1>2, RecoverTaskKeeps
<1>3. CASE ProcessIntake(t)             BY <1>3, ProcessIntakeKeeps
<1>4. CASE NothingToExecute(t)          BY <1>4, NothingToExecuteKeeps
<1>5. CASE ReadOutcome(t)               BY <1>5, ReadOutcomeKeeps
<1>6. CASE \E k \in DOMAIN tasks, r \in TaskResults : Execute(t, k, r)
  BY <1>6, ExecuteKeeps
<1>7. ASSUME NEW ok \in BOOLEAN, Lookup(t, ok)            PROVE Inv'  BY <1>7, LookupKeeps
<1>8. ASSUME NEW ok \in BOOLEAN, LatestState(t, ok)       PROVE Inv'  BY <1>8, LatestStateKeeps
<1>9. ASSUME NEW ok \in BOOLEAN, RecoverSave(t, ok) \/ SaveBefore(t, ok) \/ SaveAfter(t, ok)
      PROVE  Inv'
  BY <1>9, SaveKeeps
<1>10. ASSUME NEW ok \in BOOLEAN, RecoverDone(t, ok)      PROVE Inv'  BY <1>10, RecoverDoneKeeps
<1>11. ASSUME NEW ok \in BOOLEAN, RecoverFail(t, ok)      PROVE Inv'  BY <1>11, RecoverFailKeeps
<1>12. ASSUME NEW ok \in BOOLEAN, SetMissionStatus(t, ok) PROVE Inv'  BY <1>12, SetMissionStatusKeeps
<1>13. ASSUME NEW ok \in BOOLEAN, Hold(t, ok)             PROVE Inv'  BY <1>13, HoldKeeps
<1>14. ASSUME NEW ok \in BOOLEAN, AskApproval(t, ok)      PROVE Inv'  BY <1>14, AskApprovalKeeps
<1>15. ASSUME NEW ok \in BOOLEAN, CreateMission(t, ok)    PROVE Inv'  BY <1>15, CreateMissionKeeps
<1>16. ASSUME NEW ok \in BOOLEAN, Acquire(t, ok)          PROVE Inv'  BY <1>16, AcquireKeeps
<1>17. ASSUME NEW ok \in BOOLEAN, LinkTask(t, ok)         PROVE Inv'  BY <1>17, LinkTaskKeeps
<1>18. ASSUME NEW ok \in BOOLEAN, Finish(t, ok)           PROVE Inv'  BY <1>18, FinishKeeps
<1> QED
  BY <1>1, <1>2, <1>3, <1>4, <1>5, <1>6, <1>7, <1>8, <1>9, <1>10, <1>11, <1>12, <1>13, <1>14, <1>15,
     <1>16, <1>17, <1>18 DEF Step

LEMMA NextKeeps == Inv /\ [Next]_vars => Inv'
<1> SUFFICES ASSUME Inv, [Next]_vars PROVE Inv'
  OBVIOUS
<1>1. QueueShape(tasks) /\ Grown(tasks, tasks)
  BY GrownSame DEF Inv, Shapes
<1>2. ASSUME NEW t \in Threads, Step(t) PROVE Inv'
  BY <1>2, StepOfCaller
<1>3. ASSUME NEW t \in Threads, NEW first \in CycleNumbers, NEW last \in CycleNumbers,
             NEW recovered \in BOOLEAN, NEW ok \in BOOLEAN, Call(t, first, last, recovered, ok)
      PROVE  Inv'
  BY <1>3, CallKeeps
<1>4. ASSUME NEW k \in DOMAIN tasks, NEW r \in TaskResults, DaemonRuns(k, r) PROVE Inv'
  <2>1. WorkerFinishes(k, r) /\ UNCHANGED <<mission, store, th, doubled>>
    BY <1>4 DEF DaemonRuns, others
  <2> QED BY <1>1, <2>1, FinishedTask, SurroundingsKeep
<1>5. ASSUME NEW i \in DOMAIN approvals, NEW d \in {"GRANTED", "REJECTED"}, DecideApproval(i, d) PROVE Inv'
  <2>1. UNCHANGED <<mission, store, th, doubled>> /\ tasks' = tasks
    BY <1>5 DEF DecideApproval, others
  <2> QED BY <1>1, <2>1, SurroundingsKeep
<1>6. ASSUME NEW p \in Processes, Crash(p) PROVE Inv'
  BY <1>6, CrashKeeps
<1>7. CASE UNCHANGED vars
  <2>1. UNCHANGED <<mission, store, th, doubled>> /\ tasks' = tasks
    BY <1>7 DEF vars
  <2> QED BY <1>1, <2>1, SurroundingsKeep
<1> QED BY <1>2, <1>3, <1>4, <1>5, <1>6, <1>7 DEF Next

\* The invariant holds in every reachable state.
THEOREM Invariance == Spec => []Inv
<1>1. Init => Inv
  BY InitIsFine
<1>2. Inv /\ [Next]_vars => Inv'
  BY NextKeeps
<1> QED BY <1>1, <1>2, PTL DEF Spec

-----------------------------------------------------------------------------
(* Theorems *)

\* Evidence first: as long as no cycle has rows in two places, whoever holds a copy of the
\* system state takes a capability for verified only if it was so before the mission or
\* a task made for that capability completed with evidence.
THEOREM VerifiedMeansEvidence == Spec => []VerifiedHasEvidence
<1>1. Inv => VerifiedHasEvidence
  <2> SUFFICES ASSUME Inv, doubled = {} PROVE VerifiedHasEvidence
    BY DEF VerifiedHasEvidence
  <2>1. Honest /\ DOMAIN store = Places
    BY DEF Inv, Shapes, StoreShape
  <2>2. \A c : Backed(c, tasks) <=> Evidenced(c)
    BY DEF Backed, Evidenced
  <2> QED BY <2>1, <2>2 DEF Honest, StoreOK, CallerOK, Supported, VerifiedHasEvidence
<1> QED BY <1>1, Invariance, PTL

\* Under the same condition a mission is recorded as completed, in the database or in the
\* maps of a process, only when every target of it has such evidence.
THEOREM CompletedMissionsAreVerified == Spec => []CompletedMissionIsVerified
<1>1. Inv => CompletedMissionIsVerified
  <2> SUFFICES ASSUME Inv, doubled = {} PROVE CompletedMissionIsVerified
    BY DEF CompletedMissionIsVerified
  <2>1. Honest /\ DOMAIN store = Places
    BY DEF Inv, Shapes, StoreShape
  <2>2. \A c : Backed(c, tasks) <=> Evidenced(c)
    BY DEF Backed, Evidenced
  <2> QED BY <2>1, <2>2 DEF Honest, StoreOK, AllBacked, CompletedMissionIsVerified
<1> QED BY <1>1, Invariance, PTL

-----------------------------------------------------------------------------
(* Shapes *)

MemoryFields == {"id", "tenant", "project", "type", "status", "scope", "source", "actor", "event", "task", "rule",
                 "recurrenceCount", "supersededBy"}
PatternFields == {"status", "component", "taskType", "rule", "project", "recurrence", "events", "tasks",
                  "reviewer", "qa", "verified"}
CandidateFields == {"status", "type", "contradiction"}

LessonFields == {"id", "candidate", "tenant", "project", "status", "validity", "type", "scope", "approvedBy", "supersededBy"}

IsSequence(q) == \E S : q \in Seq(S)

LearningShapes ==
  /\ boot \in Nat /\ IsFiniteSet(ingested)
  /\ IsSequence(memories)
  /\ \A i \in 1..Len(memories) : DOMAIN memories[i] = MemoryFields /\ memories[i].id = i
  /\ IsSequence(lessons)
  /\ \A i \in 1..Len(lessons) : DOMAIN lessons[i] = LessonFields
  /\ DOMAIN candidates = DOMAIN patterns
  /\ \A s \in DOMAIN patterns : DOMAIN patterns[s] = PatternFields /\ DOMAIN candidates[s] = CandidateFields

LEMMA AppendIsSequence ==
  ASSUME NEW q, IsSequence(q), NEW x
  PROVE  /\ IsSequence(Append(q, x)) /\ Len(Append(q, x)) = Len(q) + 1 /\ Len(q) \in Nat
         /\ \A i \in 1..Len(q) : Append(q, x)[i] = q[i]
         /\ Append(q, x)[Len(q) + 1] = x
<1>1. PICK S : q \in Seq(S)
  BY DEF IsSequence
<1>2. q \in Seq(S \cup {x})
  BY <1>1
<1>3. Append(q, x) \in Seq(S \cup {x})
  BY <1>2
<1> QED BY <1>2, <1>3 DEF IsSequence

\* A function over the places of a sequence is one too.
LEMMA MapIsSequence ==
  ASSUME NEW q, IsSequence(q), NEW f, f = [i \in 1..Len(q) |-> f[i]]
  PROVE  IsSequence(f) /\ Len(f) = Len(q) /\ Len(q) \in Nat
<1> DEFINE S == {f[i] : i \in 1..Len(q)}
<1>1. Len(q) \in Nat
  BY DEF IsSequence
<1>2. f \in [1..Len(q) -> S]
  OBVIOUS
<1>3. f \in Seq(S) /\ Len(f) = Len(q)
  BY <1>1, <1>2, Z3
<1> QED BY <1>1, <1>3 DEF IsSequence

LEMMA IdsArePlaces == LearningShapes => MemoryIds(memories) = 1..Len(memories)
BY DEF LearningShapes, MemoryIds

-----------------------------------------------------------------------------
(* The store *)

\* What an ingestion does to the memories it finds: they stay, up to their count.
LEMMA CreateKeeps ==
  ASSUME LearningShapes, NEW tenant, NEW in
  PROVE  LET ms == Create(memories, tenant, in) IN
         /\ IsSequence(ms) /\ Len(ms) \in {Len(memories), Len(memories) + 1} /\ Len(memories) \in Nat
         /\ \A i \in 1..Len(ms) : DOMAIN ms[i] = MemoryFields /\ ms[i].id = i
         /\ \A i \in 1..Len(memories) : /\ ms[i].status = memories[i].status
                                        /\ ms[i].supersededBy = memories[i].supersededBy
         /\ \A i \in 1..Len(ms) : i \notin 1..Len(memories) => ms[i].supersededBy = None
<1> DEFINE ms == Create(memories, tenant, in)
           new == NewMemory(memories, tenant, in)
<1>1. IsSequence(memories) /\ Len(memories) \in Nat
  BY DEF LearningShapes, IsSequence
<1>2. CASE Existing(memories, tenant, in) # {}
  <2>1. ms = [i \in 1..Len(memories) |->
                IF i \in Existing(memories, tenant, in)
                THEN [memories[i] EXCEPT !.recurrenceCount = @ + 1] ELSE memories[i]]
    BY <1>2 DEF Create
  <2>2. ms = [i \in 1..Len(memories) |-> ms[i]]
    BY <2>1
  <2>3. IsSequence(ms) /\ Len(ms) = Len(memories)
    BY <1>1, <2>2, MapIsSequence
  <2>4. \A i \in 1..Len(memories) : /\ DOMAIN ms[i] = MemoryFields /\ ms[i].id = i
                                    /\ ms[i].status = memories[i].status
                                    /\ ms[i].supersededBy = memories[i].supersededBy
    BY <2>1 DEF LearningShapes, MemoryFields
  <2> QED BY <1>1, <2>3, <2>4
<1>3. CASE Existing(memories, tenant, in) = {}
  <2>1. ms = Append(memories, new)
    BY <1>3 DEF Create
  <2>2. /\ IsSequence(ms) /\ Len(ms) = Len(memories) + 1
        /\ \A i \in 1..Len(memories) : ms[i] = memories[i]
        /\ ms[Len(memories) + 1] = new
    BY <1>1, <2>1, AppendIsSequence
  <2>fields. DOMAIN new = MemoryFields /\ new.id = Len(memories) + 1 /\ new.supersededBy = None
    BY DEF NewMemory, MemoryFields
  <2>4. \A i \in 1..Len(ms) : i \in 1..Len(memories) \/ i = Len(memories) + 1
    BY <1>1, <2>2
  <2>5. Len(memories) + 1 \notin 1..Len(memories)
    BY <1>1
  <2> QED BY <1>1, <2>2, <2>fields, <2>4, <2>5 DEF LearningShapes
<1> QED BY <1>2, <1>3

\* What a step does to the memories: an ingestion, a supersession, a restart, or nothing.
MemoriesStep ==
  \/ memories' = memories
  \/ \E tenant, in : memories' = Create(memories, tenant, in)
  \/ \E old, new, tenant : /\ old \in MemoryIds(memories) /\ new \in MemoryIds(memories) \cup {0}
                           /\ ValidateSupersession(memories, old, new, tenant)
                           /\ memories' = Supersede(memories, old, new)
  \/ boot' # boot /\ memories' = <<>>

\* What a step does to the lessons.
LessonsStep ==
  \/ lessons' = lessons
  \/ \E tenant, s, c, scope, role : lessons' = Append(lessons, NewLesson(lessons, tenant, s, c, scope, role))
  \/ \E old, new : lessons' = [lessons EXCEPT ![old].status = "SUPERSEDED", ![old].validity = "SUPERSEDED",
                                              ![old].supersededBy = new]
  \/ \E old : lessons' = [lessons EXCEPT ![old].status = "REVOKED", ![old].validity = "OBSOLETE"]
  \/ boot' # boot /\ lessons' = <<>>

\* What a step does to patterns and candidates.
Observes(tenant, e) == ProcessObservation(tenant, ObservationOf(e))

PatternsStep ==
  \/ UNCHANGED <<patterns, candidates>> /\ ingested \subseteq ingested' /\ IsFiniteSet(ingested')
  \/ \E tenant, e : /\ e.type \in ObservedTypes /\ Observes(tenant, e)
                    /\ ingested' = ingested \cup {[event |-> e, tenant |-> tenant]}
  \/ \E s, status : patterns' = [patterns EXCEPT ![s].status = status] /\ UNCHANGED <<candidates, ingested>>
  \/ \E s \in DOMAIN patterns : \E c : candidates' = Evaluated(candidates, s, patterns[s], c) /\ UNCHANGED <<patterns, ingested>>
  \/ \E s : candidates' = [candidates EXCEPT ![s].status = "REJECTED"] /\ UNCHANGED <<patterns, ingested>>
  \/ boot' # boot /\ patterns' = <<>> /\ candidates' = <<>> /\ ingested' = {}

LEMMA IngestStep ==
  ASSUME IsFiniteSet(ingested), NEW e, NEW tenant, NEW ok, IngestEvent(e, tenant, ok), lessons' = lessons
  PROVE  MemoriesStep /\ LessonsStep /\ PatternsStep
<1>1. IsFiniteSet(ingested \cup {[event |-> e, tenant |-> tenant]})
  BY FS_AddElement
<1>2. MemoriesStep
  BY DEF IngestEvent, MemoriesStep
<1>3. PatternsStep
  BY <1>1 DEF IngestEvent, PatternsStep, Observes
<1> QED BY <1>2, <1>3 DEF LessonsStep

LEMMA Steps == LearningShapes /\ [LearningNext]_learningVars => MemoriesStep /\ LessonsStep /\ PatternsStep
<1> SUFFICES ASSUME LearningShapes, [LearningNext]_learningVars PROVE MemoriesStep /\ LessonsStep /\ PatternsStep
  OBVIOUS
<1>0. boot \in Nat /\ IsFiniteSet(ingested)
  BY DEF LearningShapes
<1>1. CASE UNCHANGED learningVars
  BY <1>0, <1>1 DEF learningVars, MemoriesStep, LessonsStep, PatternsStep
<1>2. ASSUME NEW e, NEW from, StartReplay(e.project, from) PROVE MemoriesStep /\ LessonsStep /\ PatternsStep
  BY <1>0, <1>2 DEF StartReplay, MemoriesStep, LessonsStep, PatternsStep
<1>3. ASSUME NEW t, NEW ok, ReplayEvent(t, ok) PROVE MemoriesStep /\ LessonsStep /\ PatternsStep
  <2>1. PICK e : IngestEvent(e, t, ok) /\ lessons' = lessons
    BY <1>3 DEF ReplayEvent
  <2> QED BY <1>0, <2>1, IngestStep
<1>4. ASSUME NEW x, NEW ok, ProcessFeedback(x, ok) PROVE MemoriesStep /\ LessonsStep /\ PatternsStep
  <2>1. IngestEvent(FeedbackEventOf(x), DefaultTenant, ok) /\ lessons' = lessons
    BY <1>4 DEF ProcessFeedback
  <2> QED BY <1>0, <2>1, IngestStep
<1>5. CASE GovernanceNext
  <2>1. ASSUME NEW old \in MemoryIds(memories), NEW new \in MemoryIds(memories) \cup {0}, NEW t, NEW ok,
               SupersedeMemory(old, new, t, ok)
        PROVE  MemoriesStep /\ LessonsStep /\ PatternsStep
    BY <1>0, <2>1 DEF SupersedeMemory, MemoriesStep, LessonsStep, PatternsStep
  <2>2. ASSUME NEW s, NEW st, UpdatePatternStatus(s, st) PROVE MemoriesStep /\ LessonsStep /\ PatternsStep
    BY <2>2 DEF UpdatePatternStatus, MemoriesStep, LessonsStep, PatternsStep
  <2>3. ASSUME NEW s \in DOMAIN patterns, NEW c, ReevaluateCandidate(s, c) PROVE MemoriesStep /\ LessonsStep /\ PatternsStep
    BY <2>3 DEF ReevaluateCandidate, MemoriesStep, LessonsStep, PatternsStep
  <2>4. ASSUME NEW s, RejectCandidate(s) PROVE MemoriesStep /\ LessonsStep /\ PatternsStep
    BY <2>4 DEF RejectCandidate, MemoriesStep, LessonsStep, PatternsStep
  <2> QED BY <1>5, <2>1, <2>2, <2>3, <2>4 DEF GovernanceNext
<1>6. CASE LessonNext
  <2>1. MemoriesStep /\ PatternsStep
    <3>1. LessonStep
      BY <1>6 DEF LessonNext, InstitutionalizeOperational, ApproveByCEO, SupersedeLesson, RevokeLesson
    <3> QED BY <1>0, <3>1 DEF LessonStep, MemoriesStep, PatternsStep
  <2>2. ASSUME NEW s, NEW role, InstitutionalizeOperational(s, role) PROVE LessonsStep
    BY <2>2 DEF InstitutionalizeOperational, LessonsStep
  <2>ceo. ASSUME NEW s, NEW scope, NEW role, ApproveByCEO(s, scope, role) PROVE LessonsStep
    BY <2>ceo DEF ApproveByCEO, LessonsStep
  <2>4. ASSUME NEW old, NEW new, NEW role, SupersedeLesson(old, new, role) PROVE LessonsStep
    BY <2>4 DEF SupersedeLesson, LessonsStep
  <2>5. ASSUME NEW old, NEW role, RevokeLesson(old, role) PROVE LessonsStep
    BY <2>5 DEF RevokeLesson, LessonsStep
  <2> QED BY <1>6, <2>1, <2>2, <2>ceo, <2>4, <2>5 DEF LessonNext
<1>7. CASE Restart
  <2>1. boot' # boot
    BY <1>0, <1>7 DEF Restart
  <2> QED BY <1>7, <2>1 DEF Restart, MemoriesStep, LessonsStep, PatternsStep
<1> QED BY <1>1, <1>2, <1>3, <1>4, <1>5, <1>6, <1>7 DEF LearningNext

-----------------------------------------------------------------------------
(* Memories *)

NoCycles(ms) ==
  \A hidden \in (SUBSET (1..Len(ms))) \ {{}} :
    \E i \in hidden : ms[i].status # "SUPERSEDED" \/ ms[i].supersededBy \notin hidden

Chains == NoCycles(memories)

\* A superseded memory names the memory, or the id, that replaces it.
MemoryShapes(ms) ==
  IsSequence(ms) /\ \A i \in 1..Len(ms) : DOMAIN ms[i] = MemoryFields /\ ms[i].id = i

\* What may happen to the memories of a process that goes on.
Kept(ms, ns) ==
  \A i \in 1..Len(ms) :
    /\ i \in 1..Len(ns)
    /\ ns[i].status # ms[i].status =>
         ValidateStatusTransition(ms[i].status, ns[i].status, ns[i].supersededBy # None, FALSE)

LEMMA MemoriesKeep ==
  ASSUME LearningShapes, Chains, MemoriesStep
  PROVE  MemoryShapes(memories') /\ NoCycles(memories') /\ (boot' = boot => Kept(memories, memories'))
<1>0. IsSequence(memories) /\ Len(memories) \in Nat /\ MemoryShapes(memories)
  BY DEF LearningShapes, IsSequence, MemoryShapes
<1>1. CASE memories' = memories
  BY <1>0, <1>1 DEF Chains, Kept
<1>2. ASSUME NEW tenant, NEW in, memories' = Create(memories, tenant, in)
      PROVE  MemoryShapes(memories') /\ NoCycles(memories') /\ Kept(memories, memories')
  <2>1. /\ IsSequence(memories') /\ Len(memories') \in {Len(memories), Len(memories) + 1}
        /\ \A i \in 1..Len(memories') : DOMAIN memories'[i] = MemoryFields /\ memories'[i].id = i
        /\ \A i \in 1..Len(memories) : /\ memories'[i].status = memories[i].status
                                       /\ memories'[i].supersededBy = memories[i].supersededBy
        /\ \A i \in 1..Len(memories') : i \notin 1..Len(memories) => memories'[i].supersededBy = None
    BY <1>2, CreateKeeps
  <2>2. Kept(memories, memories')
    <3>1. \A i \in 1..Len(memories) : i \in 1..Len(memories')
      BY <1>0, <2>1
    <3> QED BY <2>1, <3>1 DEF Kept
  <2>3. ASSUME NEW hidden \in (SUBSET (1..Len(memories'))) \ {{}}
        PROVE  \E i \in hidden : memories'[i].status # "SUPERSEDED" \/ memories'[i].supersededBy \notin hidden
    <3>1. CASE hidden \subseteq 1..Len(memories)
      <4>1. PICK i \in hidden : memories[i].status # "SUPERSEDED" \/ memories[i].supersededBy \notin hidden
        BY <3>1 DEF Chains, NoCycles
      <4> QED BY <2>1, <3>1, <4>1
    <3>2. CASE ~(hidden \subseteq 1..Len(memories))
      <4>1. PICK i \in hidden : i \notin 1..Len(memories)
        BY <3>2
      <4>2. memories'[i].supersededBy = None
        BY <2>1, <4>1
      <4>3. hidden \subseteq Nat
        BY <1>0, <2>1
      <4> QED BY <4>1, <4>2, <4>3, NoneAssumption
    <3> QED BY <3>1, <3>2
  <2>4. NoCycles(memories')
    BY <2>3 DEF NoCycles
  <2> QED BY <2>1, <2>2, <2>4 DEF MemoryShapes
<1>3. ASSUME NEW old \in MemoryIds(memories), NEW new \in MemoryIds(memories) \cup {0}, NEW tenant,
             ValidateSupersession(memories, old, new, tenant), memories' = Supersede(memories, old, new)
      PROVE  MemoryShapes(memories') /\ NoCycles(memories') /\ Kept(memories, memories')
  <2>1. old \in 1..Len(memories) /\ new \in 0..Len(memories)
    BY <1>0, IdsArePlaces
  <2>2. /\ memories[old].status = "ACTIVE" /\ old # new
        /\ new \in 1..Len(memories) => memories[new].status = "ACTIVE"
    BY <1>3, IdsArePlaces DEF ValidateSupersession
  <2>3. PICK S : memories \in Seq(S)
    BY <1>0 DEF IsSequence
  <2>4. memories' = [i \in 1..Len(memories) |->
                       IF i = old THEN [memories[old] EXCEPT !.status = "SUPERSEDED", !.supersededBy = new] ELSE memories[i]]
    <3>1. DOMAIN memories = 1..Len(memories)
      BY <2>3
    <3> QED BY <1>3, <3>1, <2>1 DEF Supersede
  <2>5. IsSequence(memories') /\ Len(memories') = Len(memories)
    <3>1. memories' = [i \in 1..Len(memories) |-> memories'[i]]
      BY <2>4
    <3> QED BY <1>0, <3>1, MapIsSequence
  <2>6. /\ \A i \in 1..Len(memories) : DOMAIN memories'[i] = MemoryFields /\ memories'[i].id = i
        /\ memories'[old].status = "SUPERSEDED" /\ memories'[old].supersededBy = new
        /\ \A i \in 1..Len(memories) \ {old} : memories'[i] = memories[i]
    BY <1>0, <2>1, <2>4 DEF MemoryShapes, MemoryFields
  <2>7. Kept(memories, memories')
    <3>1. new # None
      BY <1>0, <2>1, NoneAssumption
    <3> QED BY <2>2, <2>5, <2>6, <3>1 DEF Kept, ValidateStatusTransition
  <2>8. ASSUME NEW hidden \in (SUBSET (1..Len(memories))) \ {{}}
        PROVE  \E i \in hidden : memories'[i].status # "SUPERSEDED" \/ memories'[i].supersededBy \notin hidden
    <3>1. CASE old \in hidden
      <4>1. new \in hidden => memories'[new].status # "SUPERSEDED"
        BY <2>2, <2>6
      <4> QED BY <2>6, <3>1, <4>1
    <3>2. CASE old \notin hidden
      <4>1. PICK i \in hidden : memories[i].status # "SUPERSEDED" \/ memories[i].supersededBy \notin hidden
        BY DEF Chains, NoCycles
      <4> QED BY <2>6, <3>2, <4>1
    <3> QED BY <3>1, <3>2
  <2>9. NoCycles(memories')
    BY <2>5, <2>8 DEF NoCycles
  <2> QED BY <2>5, <2>6, <2>7, <2>9 DEF MemoryShapes
<1>4. CASE boot' # boot /\ memories' = <<>>
  <2>1. <<>> \in Seq({}) /\ Len(<<>>) = 0 /\ 1..0 = {}
    OBVIOUS
  <2>2. MemoryShapes(<<>>)
    BY <2>1 DEF MemoryShapes, IsSequence
  <2>3. NoCycles(<<>>)
    BY <2>1 DEF NoCycles
  <2> QED BY <1>4, <2>2, <2>3
<1> QED BY <1>1, <1>2, <1>3, <1>4 DEF MemoriesStep

-----------------------------------------------------------------------------
(* Lessons *)

LessonShapes(ls) == IsSequence(ls) /\ \A i \in 1..Len(ls) : DOMAIN ls[i] = LessonFields

LEMMA LessonsKeep ==
  ASSUME LearningShapes, LessonsStep
  PROVE  /\ LessonShapes(lessons')
         /\ boot' = boot => \A i \in 1..Len(lessons) : lessons[i].status # "ACTIVE" => lessons'[i].status # "ACTIVE"
<1>0. LessonShapes(lessons) /\ IsSequence(lessons) /\ Len(lessons) \in Nat
  BY DEF LearningShapes, LessonShapes, IsSequence
<1>1. CASE lessons' = lessons
  BY <1>0, <1>1
<1>2. ASSUME NEW tenant, NEW s, NEW c, NEW scope, NEW role,
             lessons' = Append(lessons, NewLesson(lessons, tenant, s, c, scope, role))
      PROVE  LessonShapes(lessons') /\ \A i \in 1..Len(lessons) : lessons'[i] = lessons[i]
  <2> DEFINE new == NewLesson(lessons, tenant, s, c, scope, role)
  <2>1. DOMAIN new = LessonFields
    BY DEF NewLesson, LessonFields
  <2> HIDE DEF new
  <2>2. /\ IsSequence(lessons') /\ Len(lessons') = Len(lessons) + 1
        /\ \A i \in 1..Len(lessons) : lessons'[i] = lessons[i]
        /\ lessons'[Len(lessons) + 1] = new
    BY <1>0, <1>2, AppendIsSequence DEF new
  <2>3. \A i \in 1..Len(lessons') : i \in 1..Len(lessons) \/ i = Len(lessons) + 1
    BY <1>0, <2>2
  <2> QED BY <1>0, <2>1, <2>2, <2>3 DEF LessonShapes
<1>3. ASSUME NEW old, NEW f, DOMAIN f = LessonFields \/ old \notin DOMAIN lessons, f.status # "ACTIVE" \/ old \notin DOMAIN lessons,
             lessons' = [lessons EXCEPT ![old] = f]
      PROVE  /\ LessonShapes(lessons')
             /\ \A i \in 1..Len(lessons) : lessons[i].status # "ACTIVE" => lessons'[i].status # "ACTIVE"
  <2>1. DOMAIN lessons = 1..Len(lessons)
    BY <1>0 DEF IsSequence
  <2>2. lessons' = [i \in 1..Len(lessons) |-> lessons'[i]] /\ \A i \in 1..Len(lessons) : lessons'[i] = IF i = old THEN f ELSE lessons[i]
    BY <1>3, <2>1
  <2>3. IsSequence(lessons') /\ Len(lessons') = Len(lessons)
    BY <1>0, <2>2, MapIsSequence
  <2> QED BY <1>0, <1>3, <2>1, <2>2, <2>3 DEF LessonShapes
<1>4. ASSUME NEW old, NEW new, lessons' = [lessons EXCEPT ![old].status = "SUPERSEDED", ![old].validity = "SUPERSEDED",
                                                          ![old].supersededBy = new]
      PROVE  /\ LessonShapes(lessons')
             /\ \A i \in 1..Len(lessons) : lessons[i].status # "ACTIVE" => lessons'[i].status # "ACTIVE"
  <2> DEFINE f == [lessons[old] EXCEPT !.status = "SUPERSEDED", !.validity = "SUPERSEDED", !.supersededBy = new]
  <2>1. lessons' = [lessons EXCEPT ![old] = f]
    BY <1>4
  <2>2. old \in DOMAIN lessons => DOMAIN f = LessonFields /\ f.status # "ACTIVE"
    <3>1. DOMAIN lessons = 1..Len(lessons)
      BY <1>0 DEF IsSequence
    <3> QED BY <1>0, <3>1 DEF LessonShapes, LessonFields
  <2> QED BY <1>3, <2>1, <2>2
<1>5. ASSUME NEW old, lessons' = [lessons EXCEPT ![old].status = "REVOKED", ![old].validity = "OBSOLETE"]
      PROVE  /\ LessonShapes(lessons')
             /\ \A i \in 1..Len(lessons) : lessons[i].status # "ACTIVE" => lessons'[i].status # "ACTIVE"
  <2> DEFINE f == [lessons[old] EXCEPT !.status = "REVOKED", !.validity = "OBSOLETE"]
  <2>1. lessons' = [lessons EXCEPT ![old] = f]
    BY <1>5
  <2>2. old \in DOMAIN lessons => DOMAIN f = LessonFields /\ f.status # "ACTIVE"
    <3>1. DOMAIN lessons = 1..Len(lessons)
      BY <1>0 DEF IsSequence
    <3> QED BY <1>0, <3>1 DEF LessonShapes, LessonFields
  <2> QED BY <1>3, <2>1, <2>2
<1>6. CASE boot' # boot /\ lessons' = <<>>
  <2>1. <<>> \in Seq({}) /\ Len(<<>>) = 0 /\ 1..0 = {}
    OBVIOUS
  <2> QED BY <1>6, <2>1 DEF LessonShapes, IsSequence
<1> QED BY <1>1, <1>2, <1>4, <1>5, <1>6 DEF LessonsStep

-----------------------------------------------------------------------------
(* Patterns and candidates *)

\* The events that were observed as the pattern s since the last restart.
SeenIn(past, s) ==
  {x.event : x \in {y \in past : /\ y.event.type \in ObservedTypes
                                 /\ ComputePatternSignature(y.tenant, ObservationOf(y.event)) = s}}

\* A pattern knows no more than the events seen tell.
Grounded(p, seen) ==
  /\ p.tasks \subseteq {e.task : e \in seen}
  /\ p.verified => \E e \in seen : ObservationOf(e).verified
  /\ p.reviewer => \E e \in seen : ObservationOf(e).reviewer
  /\ p.qa => \E e \in seen : ObservationOf(e).qa

Corroborated(p) == IndependentTaskCount(p) >= MinIndependentTasks /\ p.verified /\ (p.reviewer \/ p.qa)

Evidence(ps, cs, past) ==
  \A s \in DOMAIN ps : /\ Grounded(ps[s], SeenIn(past, s))
                       /\ cs[s].status = "ELIGIBLE" => Corroborated(ps[s])

PatternShapes(ps, cs) ==
  /\ DOMAIN cs = DOMAIN ps
  /\ \A s \in DOMAIN ps : DOMAIN ps[s] = PatternFields /\ DOMAIN cs[s] = CandidateFields

LEMMA GroundedGrows ==
  ASSUME NEW p, NEW seen, NEW more, seen \subseteq more, Grounded(p, seen)
  PROVE  Grounded(p, more)
BY DEF Grounded

LEMMA SeenGrows ==
  ASSUME NEW past, NEW more, past \subseteq more, NEW s
  PROVE  SeenIn(past, s) \subseteq SeenIn(more, s)
BY DEF SeenIn

LEMMA EligibleIsNew ==
  ASSUME NEW p, NEW was, NEW c, CandidateStatus(p, was, c) = "ELIGIBLE"
  PROVE  Corroborated(p)
BY DEF CandidateStatus, EvaluateCandidateEligibility, Corroborated

\* A candidate keeps its verdict once it is rejected or blocked.
LEMMA VerdictStays ==
  ASSUME NEW p, NEW c, NEW was \in {"REJECTED", "BLOCKED"}
  PROVE  CandidateStatus(p, was, c) \in {"REJECTED", "BLOCKED"}
BY DEF CandidateStatus

\* The fields of an observation that its pattern counts.
LEMMA ObservationTask ==
  ASSUME NEW e
  PROVE  ObservationOf(e).task = e.task
BY DEF ObservationOf, FindingObservation, BlockedObservation, WorkObservation

LEMMA NewPatternIs ==
  ASSUME NEW o
  PROVE  LET p == NewPattern(o) IN
         /\ DOMAIN p = PatternFields /\ p.tasks = {o.task} \ {None}
         /\ p.verified = o.verified /\ p.reviewer = o.reviewer /\ p.qa = o.qa
BY DEF NewPattern, PatternFields

\* What an observed event adds to its pattern, the event itself accounts for.
LEMMA ObservedIsGrounded ==
  ASSUME NEW e, NEW seen, e \in seen, NEW p, NEW q,
         p.tasks \subseteq {f.task : f \in seen} \/ p.tasks = {},
         Grounded(p, seen),
         q.tasks = p.tasks \cup ({ObservationOf(e).task} \ {None}),
         q.verified = (p.verified \/ ObservationOf(e).verified),
         q.reviewer = (p.reviewer \/ ObservationOf(e).reviewer), q.qa = (p.qa \/ ObservationOf(e).qa)
  PROVE  Grounded(q, seen)
<1>1. q.tasks \subseteq {f.task : f \in seen}
  BY ObservationTask DEF Grounded
<1>2. q.verified => \E f \in seen : ObservationOf(f).verified
  BY DEF Grounded
<1>3. q.reviewer => \E f \in seen : ObservationOf(f).reviewer
  BY DEF Grounded
<1>4. q.qa => \E f \in seen : ObservationOf(f).qa
  BY DEF Grounded
<1> QED BY <1>1, <1>2, <1>3, <1>4 DEF Grounded

LEMMA FirstIsGrounded ==
  ASSUME NEW e, NEW seen, e \in seen
  PROVE  Grounded(NewPattern(ObservationOf(e)), seen)
<1> DEFINE q == NewPattern(ObservationOf(e))
<1>1. /\ q.tasks = {ObservationOf(e).task} \ {None}
      /\ q.verified = ObservationOf(e).verified /\ q.reviewer = ObservationOf(e).reviewer /\ q.qa = ObservationOf(e).qa
  BY NewPatternIs
<1> HIDE DEF q
<1>2. q.tasks \subseteq {f.task : f \in seen}
  BY <1>1, ObservationTask
<1> QED BY <1>1, <1>2 DEF Grounded, q

\* What a step does to patterns and candidates leaves every verdict grounded, and takes none back.
LEMMA PatternsKeep ==
  ASSUME LearningShapes, Evidence(patterns, candidates, ingested), PatternsStep
  PROVE  /\ PatternShapes(patterns', candidates') /\ IsFiniteSet(ingested')
         /\ Evidence(patterns', candidates', ingested')
         /\ boot' = boot => \A s \in DOMAIN candidates :
              candidates[s].status \in {"REJECTED", "BLOCKED"} => candidates'[s].status \in {"REJECTED", "BLOCKED"}
<1> DEFINE Verdicts == \A s \in DOMAIN candidates :
                         candidates[s].status \in {"REJECTED", "BLOCKED"} => candidates'[s].status \in {"REJECTED", "BLOCKED"}
<1>0. PatternShapes(patterns, candidates) /\ IsFiniteSet(ingested)
  BY DEF LearningShapes, PatternShapes
<1>1. CASE UNCHANGED <<patterns, candidates>> /\ ingested \subseteq ingested' /\ IsFiniteSet(ingested')
  BY <1>0, <1>1, GroundedGrows, SeenGrows DEF Evidence
<1>2. ASSUME NEW tenant, NEW e, e.type \in ObservedTypes, Observes(tenant, e),
             ingested' = ingested \cup {[event |-> e, tenant |-> tenant]}
      PROVE  PatternShapes(patterns', candidates') /\ IsFiniteSet(ingested') /\ Evidence(patterns', candidates', ingested') /\ Verdicts
  <2> DEFINE o == ObservationOf(e)
             s == ComputePatternSignature(tenant, o)
             p == IF s \in DOMAIN patterns THEN Recurs(patterns[s], o) ELSE NewPattern(o)
             x == [event |-> e, tenant |-> tenant]
  <2>1. patterns' = Put(patterns, s, p) /\ candidates' = Evaluated(candidates, s, p, "CLEAN")
    BY <1>2 DEF Observes, ProcessObservation
  <2>2. e \in SeenIn(ingested', s)
    <3>1. x \in ingested' /\ x.event = e /\ x.tenant = tenant
      BY <1>2
    <3> QED BY <1>2, <3>1 DEF SeenIn
  <2>3. ingested \subseteq ingested' /\ IsFiniteSet(ingested')
    BY <1>0, <1>2, FS_AddElement
  <2> HIDE DEF o, x
  <2>4. DOMAIN p = PatternFields /\ Grounded(p, SeenIn(ingested', s))
    <3>1. CASE s \in DOMAIN patterns
      <4>1. DOMAIN patterns[s] = PatternFields /\ Grounded(patterns[s], SeenIn(ingested', s))
        BY <1>0, <2>3, <3>1, GroundedGrows, SeenGrows DEF PatternShapes, Evidence
      <4>2. p = Recurs(patterns[s], o)
        BY <3>1
      <4> HIDE DEF p, s
      <4>3. /\ DOMAIN p = PatternFields /\ p.tasks = patterns[s].tasks \cup ({o.task} \ {None})
            /\ p.verified = (patterns[s].verified \/ o.verified) /\ p.reviewer = (patterns[s].reviewer \/ o.reviewer)
            /\ p.qa = (patterns[s].qa \/ o.qa)
        BY <4>1, <4>2 DEF Recurs, PatternFields
      <4>4. Grounded(p, SeenIn(ingested', s))
        BY <2>2, <4>1, <4>3, ObservedIsGrounded DEF Grounded, o
      <4> QED BY <4>3, <4>4
    <3>2. CASE s \notin DOMAIN patterns
      <4>1. p = NewPattern(o)
        BY <3>2
      <4> HIDE DEF p, s
      <4> QED BY <2>2, <4>1, NewPatternIs, FirstIsGrounded DEF o
    <3> QED BY <3>1, <3>2
  <2> HIDE DEF p, s
  <2>5. /\ DOMAIN patterns' = DOMAIN patterns \cup {s} /\ patterns'[s] = p
        /\ \A r \in DOMAIN patterns \ {s} : patterns'[r] = patterns[r]
    BY <2>1 DEF Put
  <2>6. /\ DOMAIN candidates' = DOMAIN candidates \cup {s}
        /\ \A r \in DOMAIN candidates \ {s} : candidates'[r] = candidates[r]
        /\ DOMAIN candidates'[s] = CandidateFields
        /\ s \in DOMAIN candidates => candidates'[s].status = CandidateStatus(p, candidates[s].status, "CLEAN")
        /\ s \notin DOMAIN candidates => candidates'[s].status = CandidateStatus(p, None, "CLEAN")
    BY <2>1 DEF Evaluated, Put, CandidateFields
  <2>7. PatternShapes(patterns', candidates')
    BY <1>0, <2>4, <2>5, <2>6 DEF PatternShapes
  <2>8. Evidence(patterns', candidates', ingested')
    <3>1. candidates'[s].status = "ELIGIBLE" => Corroborated(patterns'[s])
      BY <2>5, <2>6, EligibleIsNew
    <3>2. ASSUME NEW r \in DOMAIN patterns \ {s}
          PROVE  /\ Grounded(patterns'[r], SeenIn(ingested', r))
                 /\ candidates'[r].status = "ELIGIBLE" => Corroborated(patterns'[r])
      BY <1>0, <2>3, <2>5, <2>6, GroundedGrows, SeenGrows DEF Evidence, PatternShapes
    <3> QED BY <2>4, <2>5, <3>1, <3>2 DEF Evidence
  <2>9. Verdicts
    BY <2>6, VerdictStays
  <2> QED BY <2>3, <2>7, <2>8, <2>9
<1>3. ASSUME NEW s, NEW status, patterns' = [patterns EXCEPT ![s].status = status], UNCHANGED <<candidates, ingested>>
      PROVE  PatternShapes(patterns', candidates') /\ IsFiniteSet(ingested') /\ Evidence(patterns', candidates', ingested') /\ Verdicts
  <2>1. DOMAIN patterns' = DOMAIN patterns
    BY <1>3
  <2>2. ASSUME NEW r \in DOMAIN patterns
        PROVE  /\ DOMAIN patterns'[r] = PatternFields /\ patterns'[r].tasks = patterns[r].tasks
               /\ patterns'[r].verified = patterns[r].verified /\ patterns'[r].reviewer = patterns[r].reviewer
               /\ patterns'[r].qa = patterns[r].qa
    BY <1>0, <1>3 DEF PatternShapes, PatternFields
  <2>3. PatternShapes(patterns', candidates')
    BY <1>0, <1>3, <2>1, <2>2 DEF PatternShapes
  <2>4. Evidence(patterns', candidates', ingested')
    <3>1. ASSUME NEW r \in DOMAIN patterns PROVE Grounded(patterns'[r], SeenIn(ingested', r))
      BY <1>3, <2>2 DEF Evidence, Grounded
    <3>2. ASSUME NEW r \in DOMAIN patterns, candidates'[r].status = "ELIGIBLE" PROVE Corroborated(patterns'[r])
      BY <1>3, <2>2, <3>2 DEF Evidence, Corroborated, IndependentTaskCount
    <3> QED BY <2>1, <3>1, <3>2 DEF Evidence
  <2> QED BY <1>0, <1>3, <2>3, <2>4
<1>4. ASSUME NEW s \in DOMAIN patterns, NEW c, candidates' = Evaluated(candidates, s, patterns[s], c),
             UNCHANGED <<patterns, ingested>>
      PROVE  PatternShapes(patterns', candidates') /\ IsFiniteSet(ingested') /\ Evidence(patterns', candidates', ingested') /\ Verdicts
  <2>1. /\ DOMAIN candidates' = DOMAIN candidates \cup {s}
        /\ \A r \in DOMAIN candidates \ {s} : candidates'[r] = candidates[r]
        /\ DOMAIN candidates'[s] = CandidateFields
        /\ s \in DOMAIN candidates => candidates'[s].status = CandidateStatus(patterns[s], candidates[s].status, c)
        /\ s \notin DOMAIN candidates => candidates'[s].status = CandidateStatus(patterns[s], None, c)
    BY <1>4 DEF Evaluated, Put, CandidateFields
  <2>2. candidates'[s].status = "ELIGIBLE" => Corroborated(patterns[s])
    BY <2>1, EligibleIsNew
  <2>3. PatternShapes(patterns', candidates')
    BY <1>0, <1>4, <2>1 DEF PatternShapes
  <2>4. Evidence(patterns', candidates', ingested')
    BY <1>0, <1>4, <2>1, <2>2 DEF Evidence, PatternShapes
  <2>5. Verdicts
    BY <2>1, VerdictStays
  <2> QED BY <1>0, <1>4, <2>3, <2>4, <2>5
<1>5. ASSUME NEW s, candidates' = [candidates EXCEPT ![s].status = "REJECTED"], UNCHANGED <<patterns, ingested>>
      PROVE  PatternShapes(patterns', candidates') /\ IsFiniteSet(ingested') /\ Evidence(patterns', candidates', ingested') /\ Verdicts
  <2>1. DOMAIN candidates' = DOMAIN candidates
    BY <1>5
  <2>2. ASSUME NEW r \in DOMAIN candidates
        PROVE  DOMAIN candidates'[r] = CandidateFields /\ candidates'[r].status \in {"REJECTED", candidates[r].status}
    BY <1>0, <1>5 DEF PatternShapes, CandidateFields
  <2>3. PatternShapes(patterns', candidates') /\ Verdicts
    BY <1>0, <1>5, <2>1, <2>2 DEF PatternShapes
  <2>4. Evidence(patterns', candidates', ingested')
    BY <1>0, <1>5, <2>2 DEF Evidence, PatternShapes
  <2> QED BY <1>0, <1>5, <2>3, <2>4
<1>6. CASE boot' # boot /\ patterns' = <<>> /\ candidates' = <<>> /\ ingested' = {}
  <2>1. DOMAIN <<>> = {}
    OBVIOUS
  <2> QED BY <1>6, <2>1, FS_EmptySet DEF PatternShapes, Evidence
<1> QED BY <1>1, <1>2, <1>3, <1>4, <1>5, <1>6 DEF PatternsStep

-----------------------------------------------------------------------------
(* Theorems *)

LearningInv == LearningShapes /\ Chains /\ Evidence(patterns, candidates, ingested)

LEMMA LearningBegins == LearningInit => LearningInv
<1> SUFFICES ASSUME LearningInit PROVE LearningInv
  OBVIOUS
<1>1. memories = <<>> /\ lessons = <<>> /\ patterns = <<>> /\ candidates = <<>> /\ ingested = {} /\ boot = 0
  BY DEF LearningInit
<1>2. <<>> \in Seq({}) /\ Len(<<>>) = 0 /\ 1..0 = {} /\ DOMAIN <<>> = {}
  OBVIOUS
<1>3. LearningShapes
  BY <1>1, <1>2, FS_EmptySet DEF LearningShapes, IsSequence
<1>4. Chains
  BY <1>1, <1>2 DEF Chains, NoCycles
<1>5. Evidence(patterns, candidates, ingested)
  BY <1>1, <1>2 DEF Evidence
<1> QED BY <1>3, <1>4, <1>5 DEF LearningInv

LEMMA BootGrows ==
  ASSUME boot \in Nat, [LearningNext]_learningVars
  PROVE  boot' \in Nat
<1>1. CASE UNCHANGED learningVars
  BY <1>1 DEF learningVars
<1>2. CASE \E e \in Events, from \in ReplayFrom : StartReplay(e.project, from)
  BY <1>2 DEF StartReplay
<1>3. CASE \E t \in Tenants, ok \in DbOutcomes : ReplayEvent(t, ok)
  BY <1>3 DEF ReplayEvent
<1>4. CASE \E x \in Feedbacks, ok \in DbOutcomes : ProcessFeedback(x, ok)
  BY <1>4 DEF ProcessFeedback
<1>5. CASE GovernanceNext
  BY <1>5 DEF GovernanceNext, SupersedeMemory, UpdatePatternStatus, ReevaluateCandidate, RejectCandidate
<1>6. CASE LessonNext
  <2>1. LessonStep
    BY <1>6 DEF LessonNext, InstitutionalizeOperational, ApproveByCEO, SupersedeLesson, RevokeLesson
  <2> QED BY <2>1 DEF LessonStep
<1>7. CASE Restart
  BY <1>7 DEF Restart
<1> QED BY <1>1, <1>2, <1>3, <1>4, <1>5, <1>6, <1>7 DEF LearningNext

LEMMA LearningKeeps == LearningInv /\ [LearningNext]_learningVars => LearningInv'
<1> SUFFICES ASSUME LearningInv, [LearningNext]_learningVars PROVE LearningInv'
  OBVIOUS
<1>1. MemoriesStep /\ LessonsStep /\ PatternsStep
  BY Steps DEF LearningInv
<1>2. boot' \in Nat
  BY BootGrows DEF LearningInv, LearningShapes
<1>3. MemoryShapes(memories') /\ NoCycles(memories')
  BY <1>1, MemoriesKeep DEF LearningInv
<1>4. LessonShapes(lessons')
  BY <1>1, LessonsKeep DEF LearningInv
<1>5. /\ PatternShapes(patterns', candidates') /\ IsFiniteSet(ingested')
      /\ Evidence(patterns', candidates', ingested')
  BY <1>1, PatternsKeep DEF LearningInv
<1>6. LearningShapes'
  BY <1>2, <1>3, <1>4, <1>5 DEF LearningShapes, MemoryShapes, LessonShapes, PatternShapes, IsSequence
<1>7. Chains' /\ Evidence(patterns, candidates, ingested)'
  BY <1>3, <1>5 DEF Chains, NoCycles, Evidence
<1> QED BY <1>6, <1>7 DEF LearningInv

\* What the pipeline has learnt since the restart, in every reachable state.
THEOREM LearningIsSound == LearningSpec => []LearningInv
BY LearningBegins, LearningKeeps, PTL DEF LearningSpec

\* The kind of event is in the signature: observations of one pattern are all of one type.
LEMMA OneKind ==
  ASSUME NEW s, NEW past, NEW e \in SeenIn(past, s)
  PROVE  /\ e.type \in ObservedTypes
         /\ s[4] = ObservationOf(e).taskType
BY DEF SeenIn, ComputePatternSignature

LEMMA Finding ==
  ASSUME NEW e, e.type \in ObservedTypes
  PROVE  /\ e.type = "REVIEW_FINDING" <=> ObservationOf(e).taskType = "review"
         /\ ObservationOf(e).reviewer \/ ObservationOf(e).qa => ObservationOf(e).taskType \in {"review", "review_blocked"}
         /\ ObservationOf(e).verified => ObservationOf(e).taskType \in {"review", "agent_work"}
         /\ e.type = "REVIEW_FINDING" => /\ ObservationOf(e).verified = e.verified
                                         /\ ObservationOf(e).reviewer = e.reviewer
                                         /\ ObservationOf(e).qa = e.qa
<1>1. CASE e.type = "REVIEW_FINDING"
  BY <1>1 DEF ObservationOf, FindingObservation
<1>2. CASE e.type = "REVIEW_BLOCKED"
  BY <1>2 DEF ObservationOf, BlockedObservation
<1>3. CASE e.type \in {"AGENT_FINISHED_WORK", "AGENT_FAILED_WORK"}
  BY <1>3 DEF ObservationOf, WorkObservation
<1> QED BY <1>1, <1>2, <1>3 DEF ObservedTypes

\* The values of a function on a finite domain are finitely many.
LEMMA FiniteValues ==
  ASSUME NEW f, IsFiniteSet(DOMAIN f)
  PROVE  IsFiniteSet({f[x] : x \in DOMAIN f})
<1> DEFINE T == {f[x] : x \in DOMAIN f}
           g == [x \in DOMAIN f |-> f[x]]
<1>1. g \in Surjection(DOMAIN f, T)
  BY DEF Surjection
<1> HIDE DEF T, g
<1>2. IsFiniteSet(T)
  BY <1>1, FS_Surjection
<1> QED BY <1>2 DEF T

LEMMA TasksAreFinite ==
  ASSUME NEW past, IsFiniteSet(past), NEW s
  PROVE  IsFiniteSet({e.task : e \in SeenIn(past, s)})
<1> DEFINE own == {y \in past : /\ y.event.type \in ObservedTypes
                                /\ ComputePatternSignature(y.tenant, ObservationOf(y.event)) = s}
           f == [x \in own |-> x.event.task]
<1>1. IsFiniteSet(own)
  <2>1. own \subseteq past
    OBVIOUS
  <2> HIDE DEF own
  <2> QED BY <2>1, FS_Subset
<1>2. IsFiniteSet({f[x] : x \in DOMAIN f})
  <2>1. DOMAIN f = own
    OBVIOUS
  <2> HIDE DEF f, own
  <2> QED BY <1>1, <2>1, FiniteValues
<1>3. {e.task : e \in SeenIn(past, s)} = {x.event.task : x \in own}
  BY DEF SeenIn
<1>4. {f[x] : x \in DOMAIN f} = {x.event.task : x \in own}
  <2> HIDE DEF own
  <2> QED OBVIOUS
<1> QED BY <1>2, <1>3, <1>4

\* A lesson is eligible only on evidence: three tasks, a verified remediation, a reviewer or QA.
THEOREM EligibilityIsEarned == LearningSpec => []EligibleIsCorroborated
<1>1. LearningInv => EligibleIsCorroborated
  <2> SUFFICES ASSUME LearningInv, NEW s \in DOMAIN candidates, candidates[s].status = "ELIGIBLE"
               PROVE  LET seen == SeenIn(ingested, s)
                      IN  /\ Cardinality({e.task : e \in seen}) >= MinIndependentTasks
                          /\ \E e \in seen : e.type = "REVIEW_FINDING" /\ e.verified
                          /\ \E e \in seen : e.reviewer \/ e.qa
    BY DEF EligibleIsCorroborated, SeenIn
  <2> DEFINE seen == SeenIn(ingested, s)
             p == patterns[s]
  <2>1. Grounded(p, seen) /\ Corroborated(p) /\ IsFiniteSet(ingested)
    BY DEF LearningInv, LearningShapes, Evidence
  <2>2. IsFiniteSet({e.task : e \in seen})
    BY <2>1, TasksAreFinite
  <2>3. PICK v \in seen : ObservationOf(v).verified
    BY <2>1 DEF Corroborated, Grounded
  <2>4. PICK r \in seen : ObservationOf(r).reviewer \/ ObservationOf(r).qa
    BY <2>1 DEF Corroborated, Grounded
  <2>5. /\ v.type \in ObservedTypes /\ s[4] = ObservationOf(v).taskType
        /\ r.type \in ObservedTypes /\ s[4] = ObservationOf(r).taskType
    BY OneKind
  <2>6. s[4] \in {"review", "review_blocked"} /\ s[4] \in {"review", "agent_work"}
    BY <2>3, <2>4, <2>5, Finding
  <2>7. v.type = "REVIEW_FINDING" /\ r.type = "REVIEW_FINDING"
    BY <2>5, <2>6, Finding
  <2>8. v.verified /\ (r.reviewer \/ r.qa)
    BY <2>3, <2>4, <2>5, <2>7, Finding
  <2>9. Cardinality({e.task : e \in seen}) >= MinIndependentTasks
    <3> DEFINE T == {e.task : e \in seen}
    <3>1. p.tasks \subseteq T /\ Cardinality(p.tasks) >= MinIndependentTasks
      BY <2>1 DEF Grounded, Corroborated, IndependentTaskCount
    <3> HIDE DEF T, p
    <3>2. IsFiniteSet(T)
      BY <2>2 DEF T
    <3>3. IsFiniteSet(p.tasks) /\ Cardinality(p.tasks) <= Cardinality(T)
      BY <3>1, <3>2, FS_Subset
    <3>4. Cardinality(T) \in Nat /\ Cardinality(p.tasks) \in Nat
      BY <3>2, <3>3, FS_CardinalityType
    <3>5. Cardinality(T) >= MinIndependentTasks
      BY <3>1, <3>3, <3>4 DEF MinIndependentTasks
    <3> QED BY <3>5 DEF T
  <2> QED BY <2>7, <2>8, <2>9
<1> QED BY <1>1, LearningIsSound, PTL

\* No chain of supersessions hides both of its ends.
THEOREM ChainsEnd == LearningSpec => []SupersessionWellFounded
<1>1. LearningInv => SupersessionWellFounded
  BY IdsArePlaces DEF LearningInv, Chains, NoCycles, SupersessionWellFounded
<1> QED BY <1>1, LearningIsSound, PTL

\* In a process that goes on, neither memories nor lessons nor candidates come back.
THEOREM NothingComesBack == LearningSpec => NoSilentReactivation
<1> DEFINE Forward == boot' = boot =>
       /\ \A i \in 1..Len(memories) :
            memories'[i].status # memories[i].status =>
              ValidateStatusTransition(memories[i].status, memories'[i].status,
                                       memories'[i].supersededBy # None, FALSE)
       /\ \A i \in 1..Len(lessons) :
            lessons[i].status # "ACTIVE" => lessons'[i].status # "ACTIVE"
       /\ \A s \in DOMAIN candidates :
            candidates[s].status \in {"REJECTED", "BLOCKED"} =>
              candidates'[s].status \in {"REJECTED", "BLOCKED"}
<1>1. LearningInv /\ [LearningNext]_learningVars => Forward
  <2> SUFFICES ASSUME LearningInv, [LearningNext]_learningVars, boot' = boot PROVE Forward
    OBVIOUS
  <2>1. MemoriesStep /\ LessonsStep /\ PatternsStep
    BY Steps DEF LearningInv
  <2>2. Kept(memories, memories')
    BY <2>1, MemoriesKeep DEF LearningInv
  <2>3. \A i \in 1..Len(lessons) : lessons[i].status # "ACTIVE" => lessons'[i].status # "ACTIVE"
    BY <2>1, LessonsKeep DEF LearningInv
  <2>4. \A s \in DOMAIN candidates : candidates[s].status \in {"REJECTED", "BLOCKED"} =>
                                       candidates'[s].status \in {"REJECTED", "BLOCKED"}
    BY <2>1, PatternsKeep DEF LearningInv
  <2> QED BY <2>2, <2>3, <2>4 DEF Kept
<1>2. LearningInv /\ [LearningNext]_learningVars => [Forward]_learningVars
  BY <1>1
<1>3. LearningSpec => [][Forward]_learningVars
  BY <1>2, LearningIsSound, PTL DEF LearningSpec
<1> QED BY <1>3 DEF NoSilentReactivation
=============================================================================
