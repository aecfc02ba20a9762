-------------------------- MODULE GovernanceCache ---------------------------
(***************************************************************************)
(* loadLimits() under concurrency: every process has an engine with a      *)
(* cache of its own, its callers (scheduler, worker, reaper, routes) ask   *)
(* Gate A, and operators change the row, the emergency file and the state  *)
(* of the database meanwhile.  A load has two awaits: SELECT of the row,   *)
(* then the kill switch, whose file is read before its own SELECT.         *)
(* updateLimits() loads the limits before and after its writes; these      *)
(* loads are like those of any other caller of its process.                *)
(***************************************************************************)
EXTENDS Governance

CONSTANTS
  Processes,   \* processes with an engine: API server and worker daemons
  Callers,     \* those who evaluate gates
  ProcessOf,   \* the process of each caller
  Operators,   \* requests to the governance routes
  RouteProcess,\* the process that serves the routes
  RowLevels,   \* the levels operators set
  Ttl,         \* cacheTtlMs
  MaxNow,      \* bound of the clock
  MaxCacheChanges,  \* bound: changes of the file and of the database's state
  Never        \* no cache, no load, an obstacle that is not there

ASSUME CacheAssumption ==
  /\ ProcessOf \in [Callers -> Processes] /\ RouteProcess \in Processes
  /\ RowLevels \subseteq Levels
  /\ Ttl \in Nat \ {0} /\ MaxNow \in Nat /\ MaxCacheChanges \in Nat
  /\ Never \notin Nat /\ Never \notin Levels

VARIABLES
  row,       \* the canonical row: active_level and kill_switch_active
  up,        \* whether the database answers
  file,      \* whether the emergency file (or variable) says stop
  now,
  cache,     \* cachedLimits and cacheExpiresAt of each process
  load,      \* the loadLimits() each caller has under way
  verdict,   \* the last answer of Gate A to each caller
  request,   \* where each governance request is
  since,     \* history: since when each obstacle stands without a break
  cacheChanges

cacheVars == << row, up, file, now, cache, load, verdict, request, since, cacheChanges >>

Obstacles == {"kill", "level", "file", "outage"}

Idle == [at |-> "idle", began |-> Never, level |-> Never,
         file |-> FALSE, kill |-> TRUE]

CacheTypeOK ==
  /\ row \in [level : Levels, kill : BOOLEAN]
  /\ up \in BOOLEAN /\ file \in BOOLEAN /\ now \in 0 .. MaxNow
  /\ cache \in [Processes -> [level : Levels, kill : BOOLEAN, expires : Nat] \cup {Never}]
  /\ load \in [Callers -> [at : {"idle", "row", "kill", "store"}, began : Nat \cup {Never},
                           level : Levels \cup {Never}, file : BOOLEAN, kill : BOOLEAN]]
  /\ verdict \in [Callers -> {"none", "permitted", "denied"}]
  /\ request \in [Operators -> {"none", "upsertOn", "upsertOff", "invalidate", "answered"}]
  /\ since \in [Obstacles -> Nat \cup {Never}]
  /\ cacheChanges \in 0 .. MaxCacheChanges

\* What stands in the way of a claim right now.
Stands(obstacle, r, f, u) ==
  CASE obstacle = "kill" -> r.kill
    [] obstacle = "level" -> r.level = 0
    [] obstacle = "file" -> f
    [] obstacle = "outage" -> ~ u

\* The processes start on whatever row earlier operators left.
CacheInit ==
  /\ row \in [level : RowLevels, kill : BOOLEAN]
  /\ up = TRUE /\ file = FALSE /\ now = 0
  /\ cache = [p \in Processes |-> Never]
  /\ load = [c \in Callers |-> Idle]
  /\ verdict = [c \in Callers |-> "none"]
  /\ request = [o \in Operators |-> "none"]
  /\ since = [b \in Obstacles |-> IF Stands(b, row, FALSE, TRUE) THEN 0 ELSE Never]
  /\ cacheChanges = 0

\* The world becomes (r, f, u).
Becomes(r, f, u) ==
  /\ row' = r /\ file' = f /\ up' = u
  /\ since' = [b \in Obstacles |->
       IF ~ Stands(b, r, f, u) THEN Never
       ELSE IF since[b] = Never THEN now ELSE since[b]]

-----------------------------------------------------------------------------
(* A gate *)

Answer(c, limits) ==
  verdict' = [verdict EXCEPT ![c] = IF EvaluateClaim(limits) THEN "permitted" ELSE "denied"]

Cached(p) == cache[p] # Never /\ now < cache[p].expires

\* A live cache answers at once.
AskCached(c) ==
  /\ load[c].at = "idle" /\ verdict[c] = "none" /\ Cached(ProcessOf[c])
  /\ Answer(c, cache[ProcessOf[c]])
  /\ UNCHANGED << row, up, file, now, cache, load, request, since, cacheChanges >>

\* `now` is read here, before either query.
Ask(c) ==
  /\ load[c].at = "idle" /\ verdict[c] = "none" /\ ~ Cached(ProcessOf[c])
  /\ load' = [load EXCEPT ![c] = [Idle EXCEPT !.at = "row", !.began = now]]
  /\ UNCHANGED << row, up, file, now, cache, verdict, request, since, cacheChanges >>

\* The first SELECT; then checkStatus() looks at the file.  A failed query
\* answers with FailClosed and caches nothing.
ReadRow(c) ==
  /\ load[c].at = "row"
  /\ IF up
     THEN /\ load' = [load EXCEPT ![c].at = "kill", ![c].level = row.level, ![c].file = file]
          /\ UNCHANGED verdict
     ELSE /\ load' = [load EXCEPT ![c] = Idle]
          /\ Answer(c, FailClosed)
  /\ UNCHANGED << row, up, file, now, cache, request, since, cacheChanges >>

\* The second SELECT, of the kill switch: an error counts as active.
ReadKill(c) ==
  /\ load[c].at = "kill"
  /\ load' = [load EXCEPT ![c].at = "store", ![c].kill = load[c].file \/ ~ up \/ row.kill]
  /\ UNCHANGED << row, up, file, now, cache, verdict, request, since, cacheChanges >>

\* Mutant: the expiry is counted from the end of the load.
StoreLimits_LateExpiry(c) ==
  /\ load[c].at = "store"
  /\ cache' = [cache EXCEPT ![ProcessOf[c]] =
       [level |-> load[c].level, kill |-> load[c].kill, expires |-> now + Ttl]]
  /\ Answer(c, load[c])
  /\ load' = [load EXCEPT ![c] = Idle]
  /\ UNCHANGED << row, up, file, now, request, since, cacheChanges >>

\* Its answer arrives.  The limits replace whatever the cache holds by now,
\* and expire Ttl after the load began.
StoreLimits(c) ==
  /\ load[c].at = "store"
  /\ cache' = [cache EXCEPT ![ProcessOf[c]] =
       [level |-> load[c].level, kill |-> load[c].kill, expires |-> load[c].began + Ttl]]
  /\ Answer(c, load[c])
  /\ load' = [load EXCEPT ![c] = Idle]
  /\ UNCHANGED << row, up, file, now, request, since, cacheChanges >>

\* The caller acts on the answer, and may ask again.
TakeAnswer(c) ==
  /\ verdict[c] # "none"
  /\ verdict' = [verdict EXCEPT ![c] = "none"]
  /\ UNCHANGED << row, up, file, now, cache, load, request, since, cacheChanges >>

-----------------------------------------------------------------------------
(* The governance routes, in RouteProcess *)

At(o, place) == request' = [request EXCEPT ![o] = place]

\* POST /governance/kill-switch: setDatabaseState() ...
SetKillSwitch(o) ==
  /\ request[o] = "none" /\ up
  /\ \E kill \in BOOLEAN : Becomes([row EXCEPT !.kill = kill], file, up)
  /\ At(o, "invalidate")
  /\ UNCHANGED << now, cache, load, verdict, cacheChanges >>

\* ... and invalidateCache(), then the response.
Invalidate(o) ==
  /\ request[o] = "invalidate"
  /\ cache' = [cache EXCEPT ![RouteProcess] = Never]
  /\ At(o, "answered")
  /\ UNCHANGED << row, up, file, now, load, verdict, since, cacheChanges >>

\* Where a complete request that sets the kill switch to kill goes on.
Upserting(kill) == IF kill THEN "upsertOn" ELSE "upsertOff"

\* POST /governance/limits, when the request names the kill switch: that
\* column is written first.  A request that leaves out any other limit goes
\* no further: its NULL violates the table and the route answers 500 without
\* having invalidated anything.
SetLimitsKillSwitch(o) ==
  /\ request[o] = "none" /\ up
  /\ \E kill \in BOOLEAN, complete \in BOOLEAN :
       /\ Becomes([row EXCEPT !.kill = kill], file, up)
       /\ At(o, IF complete THEN Upserting(kill) ELSE "answered")
  /\ UNCHANGED << now, cache, load, verdict, cacheChanges >>

\* The upsert of a complete request; the route has refused level 5.
UpsertLimits(o) ==
  /\ up
  /\ \E kill \in BOOLEAN, level \in RowLevels :
       /\ request[o] = Upserting(kill)
       /\ Becomes([level |-> level, kill |-> kill], file, up)
  /\ At(o, "invalidate")
  /\ UNCHANGED << now, cache, load, verdict, cacheChanges >>

\* The database fails under a request: 500.
RequestFails(o) ==
  /\ request[o] \in {"none", "upsertOn", "upsertOff"} /\ ~ up
  /\ At(o, "answered")
  /\ UNCHANGED << row, up, file, now, cache, load, verdict, since, cacheChanges >>

-----------------------------------------------------------------------------
(* The surroundings *)

Change ==
  /\ cacheChanges < MaxCacheChanges /\ cacheChanges' = cacheChanges + 1
  /\ \/ Becomes(row, ~ file, up)
     \/ Becomes(row, file, ~ up)
  /\ UNCHANGED << now, cache, load, verdict, request >>

Tick ==
  /\ now < MaxNow /\ now' = now + 1
  /\ UNCHANGED << row, up, file, cache, load, verdict, request, since, cacheChanges >>

Gate(c) ==
  \/ AskCached(c) \/ Ask(c) \/ ReadRow(c) \/ ReadKill(c) \/ StoreLimits(c)
  \/ TakeAnswer(c)

Route(o) ==
  \/ SetKillSwitch(o) \/ SetLimitsKillSwitch(o) \/ UpsertLimits(o)
  \/ Invalidate(o) \/ RequestFails(o)

CacheNext ==
  \/ \E c \in Callers : Gate(c)
  \/ \E o \in Operators : Route(o)
  \/ Change \/ Tick

CacheSpec == CacheInit /\ [][CacheNext]_cacheVars

-----------------------------------------------------------------------------
(* Properties *)

Permits(c) == verdict[c] = "none" /\ verdict'[c] = "permitted"

\* An obstacle (kill switch, level 0, emergency file, unreachable database)
\* that stands without a break stops Gate A in every process Ttl after it
\* appeared, but for an evaluation that had already begun by then.  The other
\* gates read the same cached limits; gates B to D do not ask for the level.
ObstaclesReachEveryGate ==
  [][\A c \in Callers : Permits(c) =>
       \A b \in Obstacles :
         \/ since[b] = Never
         \/ now < since[b] + Ttl
         \/ load[c].at = "store" /\ load[c].began <= since[b]]_cacheVars
=============================================================================
