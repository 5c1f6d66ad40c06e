------------------------------- MODULE Lifecycle ------------------------------
(***************************************************************************)
(* The process from main's first line to its exit: the checks and          *)
(* connections of startup, the server with its requests and event streams, *)
(* and the shutdown, which races the drain against a timeout and then      *)
(* takes the shared resources down one after another, while requests that  *)
(* outlived the timeout are still running.                                 *)
(***************************************************************************)
EXTENDS Settings, FiniteSets

CONSTANTS
  Environments,  (* environments the process may be started in             *)
  Requests,      (* connections served at a time                           *)
  PoolSize,      (* connections of the sqlx pool (DB_POOL_SIZE)            *)
  MaxTime        (* bound on the clock while the process starts            *)

ASSUME LifecycleAssumption ==
  /\ PoolSize \in Nat \ {0} /\ MaxTime \in Nat
  /\ IsFiniteSet(Requests) /\ Unset \notin Environments

VARIABLES
  env,         (* the process environment, until nothing reads it any more *)
  now,         (* the clock, while the process starts                      *)
  settings,    (* what main keeps of its configuration                     *)
  stalls,      (* clients and the broker may hang                          *)
  main,        (* where main is                                            *)
  served,      (* how the server came to stop                              *)
  cancelled,   (* AppState.shutdown                                        *)
  task,        (* the stats-cache invalidation task                        *)
  pool,        (* the sqlx pool                                            *)
  request,     (* where each request is                                    *)
  tracked      (* requests whose analytics event waits to be flushed       *)

given == <<env, now, settings, stalls>>
vars == <<given, main, served, cancelled, task, pool, request, tracked>>

(* mock: MODE=mock; bounded: GRACEFUL_SHUTDOWN_TIMEOUT_SECONDS is set;     *)
(* cached: so is STATS_CACHE_TTL_SECONDS.                                  *)
Kept == [mock: BOOLEAN, bounded: BOOLEAN, cached: BOOLEAN]

Starting == {"connect", "migrate", "health", "redis", "wire", "bind"}

(* "misconfigured": a panic over a setting after main had accepted it.     *)
Ended == {"exit 0", "exit 1", "panicked", "misconfigured", "killed"}

TypeOK ==
  /\ main \in {"config"} \cup Starting => env # Unset
  /\ now \in 0 .. MaxTime
  /\ settings \in Kept /\ stalls \in BOOLEAN
  /\ main \in {"config", "serve", "await task", "close", "closing", "flush", "export"}
                \cup Starting \cup Ended
  /\ served \in {"no", "drained", "timeout", "error"}
  /\ cancelled \in BOOLEAN
  /\ task \in {"none", "waiting", "invalidating", "ended"}
  /\ pool \in {"none", "open", "closing", "closed"}
  /\ request \in [Requests ->
       {"none", "reading", "acquire", "statement", "announce", "stream"}]
  /\ tracked \subseteq Requests
  /\ Cardinality({r \in Requests : request[r] = "statement"}) <= PoolSize

Init ==
  /\ env \in Environments /\ now = 0
  /\ settings = [mock |-> FALSE, bounded |-> FALSE, cached |-> FALSE]
  /\ stalls \in BOOLEAN
  /\ main = "config" /\ served = "no" /\ cancelled = FALSE
  /\ task = "none" /\ pool = "none"
  /\ request = [r \in Requests |-> "none"]
  /\ tracked = {}

-----------------------------------------------------------------------------
(* Startup.                                                                *)

Configured(e) ==
  [mock |-> ModeOf(e) = "mock",
   bounded |-> IsSet(e, "GRACEFUL_SHUTDOWN_TIMEOUT_SECONDS"),
   cached |-> IsSet(e, "STATS_CACHE_TTL_SECONDS")]

(* Variant of Accepted: main leaves the cache's TTL to the wiring.         *)
AcceptedButTheTtl(e, t) ==
  FromEnv(e, t) /\ GracefulShutdownTimeout(e) /\ SubscriberSecret(e)

(* Settings, the shutdown timeout, the subscriber secret, the cache TTL.   *)
Accepted(e, t) ==
  FromEnv(e, t) /\ GracefulShutdownTimeout(e) /\ SubscriberSecret(e) /\ StatsCacheTtl(e)

(* Any of them bad ends the process with status 1.                         *)
CheckConfiguration ==
  /\ main = "config"
  /\ \/ Accepted(env, now) /\ main' = "connect" /\ settings' = Configured(env)
     \/ ~Accepted(env, now) /\ main' = "exit 1" /\ UNCHANGED settings
  /\ UNCHANGED <<env, now, stalls, served, cancelled, task, pool, request, tracked>>

(* connect_database: nothing under mock; sqlx refuses a URL it cannot read.*)
ConnectDatabase ==
  /\ main = "connect"
  /\ \/ settings.mock /\ main' = "health" /\ UNCHANGED pool
     \/ /\ ~settings.mock /\ ConnectSslmode(env) \in Sslmodes
        /\ main' = (IF RunsMigrations(env) THEN "migrate" ELSE "health") /\ pool' = "open"
     \/ ~settings.mock /\ main' = "panicked" /\ UNCHANGED pool
  /\ UNCHANGED <<given, served, cancelled, task, request, tracked>>

RunMigrations ==
  /\ main = "migrate"
  /\ main' \in {"health", "panicked"}
  /\ UNCHANGED <<given, served, cancelled, task, pool, request, tracked>>

(* build_health_registry asks for the discovery URL, and reads the         *)
(* resource-server settings anew for it.                                   *)
BuildHealth ==
  /\ main = "health"
  /\ main' = IF settings.mock \/ ResourceServer(env, now) THEN "redis" ELSE "misconfigured"
  /\ UNCHANGED <<given, served, cancelled, task, pool, request, tracked>>

(* The rate limiter's connection, and the cache's over the TTL read anew.  *)
ConnectRedis ==
  /\ main = "redis"
  /\ \/ main' = IF StatsCacheTtl(env) THEN "wire" ELSE "misconfigured"
     \/ ~settings.mock /\ main' = "panicked"
  /\ UNCHANGED <<given, served, cancelled, task, pool, request, tracked>>

(* The event bus and the verifier read the environment anew as well; then  *)
(* the task is spawned and the router built.                               *)
Wire ==
  /\ main = "wire"
  /\ \/ /\ SubscriberSecret(env) /\ ResourceServer(env, now)
        /\ main' = "bind" /\ task' = (IF settings.cached THEN "waiting" ELSE "none")
     \/ /\ ~(SubscriberSecret(env) /\ ResourceServer(env, now))
        /\ main' = "misconfigured" /\ UNCHANGED task
  /\ UNCHANGED <<given, served, cancelled, pool, request, tracked>>

(* From here on nothing reads the environment or this clock.               *)
Bind ==
  /\ main = "bind"
  /\ main' \in {"serve", "panicked"} /\ env' = Unset /\ now' = 0
  /\ UNCHANGED <<settings, stalls, served, cancelled, task, pool, request, tracked>>

(* The signal handlers are installed only once the server is polled.       *)
KilledEarly ==
  /\ main \in {"config"} \cup Starting
  /\ main' = "killed"
  /\ UNCHANGED <<given, served, cancelled, task, pool, request, tracked>>

(* Connecting and migrating take their time.                               *)
Tick ==
  /\ main \in Starting /\ now < MaxTime
  /\ now' = now + 1
  /\ UNCHANGED <<env, settings, stalls, main, served, cancelled, task, pool, request, tracked>>

-----------------------------------------------------------------------------
(* Serving.  A request goes on, whatever main does, until it is over or    *)
(* the process is.                                                         *)

Running == main \notin Ended

Step(r, here, there) ==
  /\ Running /\ request[r] = here
  /\ request' = [request EXCEPT ![r] = there]

Accept(r) ==
  /\ main = "serve" /\ ~cancelled
  /\ Step(r, "none", "reading")
  /\ UNCHANGED <<given, main, served, cancelled, task, pool, tracked>>

(* The request is in: it is refused or answered at once, opens an event    *)
(* stream, or needs the database.                                          *)
Dispatch(r) ==
  /\ \/ Step(r, "reading", "none")
     \/ Step(r, "reading", "stream")
     \/ Step(r, "reading", IF settings.mock THEN "announce" ELSE "acquire")
  /\ UNCHANGED <<given, main, served, cancelled, task, pool, tracked>>

InUse == {r \in Requests : request[r] = "statement"}

(* Variant of Acquire: the pool has no limit.                              *)
AcquireBeyondSize(r) ==
  /\ pool = "open"
  /\ Step(r, "acquire", "statement")
  /\ UNCHANGED <<given, main, served, cancelled, task, pool, tracked>>

Acquire(r) ==
  /\ pool = "open" /\ Cardinality(InUse) < PoolSize
  /\ Step(r, "acquire", "statement")
  /\ UNCHANGED <<given, main, served, cancelled, task, pool, tracked>>

(* The wait for a connection timed out, or the pool is closing.            *)
AcquireFails(r) ==
  /\ Step(r, "acquire", "none")
  /\ UNCHANGED <<given, main, served, cancelled, task, pool, tracked>>

(* The connection goes back after every statement; the handler runs        *)
(* another, has the answer, or goes on to announce what it wrote.          *)
EndStatement(r) ==
  /\ \E there \in {"acquire", "announce", "none"} : Step(r, "statement", there)
  /\ UNCHANGED <<given, main, served, cancelled, task, pool, tracked>>

(* publish_event, then hero_created or hero_deleted; an update of the v2   *)
(* router and the other routers track nothing.                             *)
Announce(r) ==
  /\ Step(r, "announce", "none")
  /\ tracked' \in {tracked, tracked \cup {r}}
  /\ UNCHANGED <<given, main, served, cancelled, task, pool>>

(* Variant of EndStream: streams do not watch the token.                   *)
LeaveStream(r) ==
  /\ ~cancelled
  /\ Step(r, "stream", "none")
  /\ UNCHANGED <<given, main, served, cancelled, task, pool, tracked>>

(* The client goes away, or event_stream_until sees the token cancelled.   *)
EndStream(r) ==
  /\ Step(r, "stream", "none")
  /\ UNCHANGED <<given, main, served, cancelled, task, pool, tracked>>

(* The flusher of the analytics library sends what it has.                 *)
SendTracked ==
  /\ Running /\ tracked # {}
  /\ tracked' = {}
  /\ UNCHANGED <<given, main, served, cancelled, task, pool, request>>

(* run_invalidation, see StatsCache: an invalidation runs to its end, and  *)
(* the task stops only between two of them.                                *)
Invalidate ==
  /\ Running /\ task = "waiting"
  /\ task' = "invalidating"
  /\ UNCHANGED <<given, main, served, cancelled, pool, request, tracked>>

Invalidated ==
  /\ Running /\ task = "invalidating"
  /\ task' = "waiting"
  /\ UNCHANGED <<given, main, served, cancelled, pool, request, tracked>>

EndTask ==
  /\ Running /\ cancelled /\ task = "waiting"
  /\ task' = "ended"
  /\ UNCHANGED <<given, main, served, cancelled, pool, request, tracked>>

-----------------------------------------------------------------------------
(* Shutdown.                                                               *)

Signal ==
  /\ main = "serve" /\ ~cancelled
  /\ cancelled' = TRUE
  /\ UNCHANGED <<given, main, served, task, pool, request, tracked>>

(* The select of main; whichever branch wins, the token ends up cancelled. *)
Leave(how) ==
  /\ main = "serve"
  /\ main' = "await task" /\ served' = how /\ cancelled' = TRUE
  /\ UNCHANGED <<given, task, pool, request, tracked>>

(* Variant of Drained: the drain does not wait for requests.               *)
DrainedAtOnce == cancelled /\ Leave("drained")

Drained ==
  /\ cancelled /\ \A r \in Requests : request[r] = "none"
  /\ Leave("drained")

TimedOut == cancelled /\ settings.bounded /\ Leave("timeout")

ServerFails == Leave("error")

AwaitTask ==
  /\ main = "await task" /\ task \in {"none", "ended"}
  /\ main' = "close"
  /\ UNCHANGED <<given, served, cancelled, task, pool, request, tracked>>

(* close() refuses new acquisitions from its first poll on ...             *)
StartClose ==
  /\ main = "close"
  /\ \/ pool = "none" /\ main' = "flush" /\ UNCHANGED pool
     \/ pool = "open" /\ main' = "closing" /\ pool' = "closing"
  /\ UNCHANGED <<given, served, cancelled, task, request, tracked>>

(* Variant of EndClose: the close does not wait for connections.           *)
EndCloseAtOnce ==
  /\ main = "closing"
  /\ main' = "flush" /\ pool' = "closed"
  /\ UNCHANGED <<given, served, cancelled, task, request, tracked>>

(* ... and waits for the connections in use.                               *)
EndClose ==
  /\ main = "closing" /\ InUse = {}
  /\ main' = "flush" /\ pool' = "closed"
  /\ UNCHANGED <<given, served, cancelled, task, request, tracked>>

(* flush_analytics: done, or given up after ANALYTICS_FLUSH_LIMIT.         *)
FlushAnalytics ==
  /\ main = "flush"
  /\ main' = "export"
  /\ tracked' \in {tracked, {}}
  /\ UNCHANGED <<given, served, cancelled, task, pool, request>>

(* The OTLP export is flushed, and only then a server error panics.        *)
ShutDownExport ==
  /\ main = "export"
  /\ main' = IF served = "error" THEN "panicked" ELSE "exit 0"
  /\ UNCHANGED <<given, served, cancelled, task, pool, request, tracked>>

Startup ==
  CheckConfiguration \/ ConnectDatabase \/ RunMigrations \/ BuildHealth
  \/ ConnectRedis \/ Wire \/ Bind

Shutdown ==
  Drained \/ TimedOut \/ AwaitTask \/ StartClose \/ EndClose
  \/ FlushAnalytics \/ ShutDownExport

Next ==
  \/ Startup \/ KilledEarly \/ Tick
  \/ \E r \in Requests :
       \/ Accept(r) \/ Dispatch(r) \/ Acquire(r) \/ AcquireFails(r)
       \/ EndStatement(r) \/ Announce(r) \/ EndStream(r)
  \/ SendTracked \/ Invalidate \/ Invalidated \/ EndTask
  \/ Signal \/ ServerFails \/ Shutdown

Spec == Init /\ [][Next]_vars

(* A step of a request that no client or broker can hold up; the others    *)
(* where they do not stall.                                                *)
Unhindered(r) == AcquireFails(r) \/ EndStatement(r) \/ (cancelled /\ EndStream(r))

(* The last statement of a handler.                                        *)
EndLast(r) == EndStatement(r) /\ request'[r] # "acquire"

Progress(r) == ~stalls /\ (Dispatch(r) \/ Announce(r))

(* The runtime polls what is ready, the timeout fires, statements and      *)
(* Redis commands end, a finished select is taken in the end, and no       *)
(* handler runs statements forever.                                        *)
FairSpec ==
  /\ Spec
  /\ WF_vars(Startup) /\ WF_vars(Shutdown)
  /\ WF_vars(Invalidated) /\ SF_vars(EndTask)
  /\ \A r \in Requests :
       WF_vars(Unhindered(r)) /\ WF_vars(Progress(r)) /\ SF_vars(EndLast(r))

-----------------------------------------------------------------------------
(* Properties.                                                             *)

(* In production the connections that are opened are the ones that were    *)
(* validated: whichever variable decides them, they are encrypted, tokens  *)
(* are checked against an issuer reached over https, and subscriber ids    *)
(* are signed with a key all replicas share.                               *)
ProductionIsStrict ==
  main \in Starting /\ ModeOf(env) = "production" =>
    /\ pool = "open" => ConnectSslmode(env) \in Encrypting
    /\ RedisUrl(env).scheme = "rediss" /\ Https(StorageUrl(env))
    /\ Https(Issuer(env)) /\ Https(DiscoveryUrl(env))
    /\ SharedKey(env) /\ ~settings.mock

(* What main accepted the wiring accepts, however often it reads it anew:  *)
(* lib.rs:114-115 calls a failure there a programming error.  The one      *)
(* exception is a security.txt that expires while the process starts.      *)
OnlyTheClockInvalidates ==
  main = "misconfigured" =>
    IsSet(env, "SECURITY_TXT_CONTACT") /\ Get(env, "SECURITY_TXT_EXPIRES") <= now

(* Nothing that uses the pool outlives it: main closes it once the         *)
(* invalidation task has ended, and a request the timeout abandoned gets   *)
(* no connection any more, nor loses one in the middle of a statement.     *)
PoolOutlivesItsUsers ==
  pool = "closed" => task \in {"none", "ended"} /\ InUse = {}

(* After a clean drain no request is left to track anything when the       *)
(* analytics queue is flushed for the last time.                           *)
DrainFlushesLast ==
  main \in {"export", "exit 0"} /\ served = "drained" =>
    \A r \in Requests : request[r] = "none"

(* A shutdown ends: with a timeout whatever clients do, without one if     *)
(* none stalls; event streams never hold it up, nor does a server error.   *)
ShutdownEnds ==
  (main = "await task" \/ (cancelled /\ (settings.bounded \/ ~stalls)))
    ~> main \in Ended
=============================================================================
