---------------------------- MODULE LifecycleProofs ----------------------------
(***************************************************************************)
(* The process from its first line to its exit, for any environments, any  *)
(* clock, any number of requests and any pool: types, what startup accepts *)
(* against what it uses, and the order of the shutdown.                    *)
(***************************************************************************)
EXTENDS Lifecycle, FiniteSetTheorems, TLAPS

(* The bounds are numbers, and 0 is the first of each.                     *)
LEMMA Bounds == PoolSize \in Nat /\ MaxTime \in Nat /\ 0 \in 0..MaxTime /\ 0 <= PoolSize
<1>1. PoolSize \in Nat \ {0} /\ MaxTime \in Nat  BY Zenon, LifecycleAssumption
<1> QED  BY <1>1

(* Connections are finite in number.                                       *)
LEMMA Finite == IsFiniteSet(Requests)
  BY Zenon, LifecycleAssumption

Places == {"none", "reading", "acquire", "statement", "announce", "stream"}

(* A request that goes on, other than into a statement, leaves the pool's  *)
(* connections within their number.                                        *)
LEMMA StepTyped ==
  ASSUME TypeOK, NEW r \in Requests, NEW here, NEW there \in Places,
         Step(r, here, there), there # "statement"
  PROVE  /\ request' \in [Requests -> Places]
         /\ InUse' \subseteq InUse /\ Cardinality(InUse') <= PoolSize
<1>1. request' \in [Requests -> Places]  BY DEF Step, TypeOK, Places
<1>2. InUse' \subseteq InUse  BY DEF Step, InUse, TypeOK
<1>3. IsFiniteSet(InUse)  BY Finite, FS_Subset DEF InUse
<1>4. Cardinality(InUse') <= Cardinality(InUse) /\ Cardinality(InUse) \in Nat
      /\ Cardinality(InUse') \in Nat
    BY <1>2, <1>3, FS_Subset, FS_CardinalityType
<1>5. Cardinality(InUse) <= PoolSize  BY DEF TypeOK, InUse
<1> QED  BY <1>1, <1>2, <1>4, <1>5, Bounds

(* Nor does one that gets a free connection.                               *)
LEMMA AcquireTyped ==
  ASSUME TypeOK, NEW r \in Requests, Acquire(r)
  PROVE  /\ request' \in [Requests -> Places]
         /\ Cardinality(InUse') <= PoolSize
<1>1. request' \in [Requests -> Places]  BY DEF Acquire, Step, TypeOK, Places
<1>2. InUse' = InUse \cup {r} /\ r \notin InUse
    BY DEF Acquire, Step, InUse, TypeOK
<1>3. IsFiniteSet(InUse) /\ Cardinality(InUse) \in Nat
    BY Finite, FS_Subset, FS_CardinalityType DEF InUse
<1>4. Cardinality(InUse') = Cardinality(InUse) + 1  BY <1>2, <1>3, FS_AddElement
<1> QED  BY <1>1, <1>3, <1>4, Bounds DEF Acquire

(* What main keeps is a record of flags.                                   *)
LEMMA ConfiguredTyped == \A e : Configured(e) \in Kept
<1> SUFFICES ASSUME NEW e PROVE Configured(e) \in Kept  OBVIOUS
<1> DEFINE a == ModeOf(e) = "mock"
           b == IsSet(e, "GRACEFUL_SHUTDOWN_TIMEOUT_SECONDS")
           c == IsSet(e, "STATS_CACHE_TTL_SECONDS")
<1>1. a \in BOOLEAN /\ b \in BOOLEAN /\ c \in BOOLEAN  BY Zenon DEF IsSet
<1>2. Configured(e) = [mock |-> a, bounded |-> b, cached |-> c]  BY DEF Configured
<1> HIDE DEF a, b, c
<1> QED  BY <1>1, <1>2 DEF Kept

(* Main's own steps, and those of the task, keep the types.                *)
LEMMA MainTyped ==
  ASSUME TypeOK, UNCHANGED <<request, stalls>>,
         env' = env \/ main' \notin {"config"} \cup Starting,
         main' \in {"config"} \cup Starting => main \in {"config"} \cup Starting,
         now' \in 0..MaxTime, settings' \in Kept,
         main' \in {"config", "serve", "await task", "close", "closing", "flush", "export"}
                     \cup Starting \cup Ended,
         served' \in {"no", "drained", "timeout", "error"}, cancelled' \in BOOLEAN,
         task' \in {"none", "waiting", "invalidating", "ended"},
         pool' \in {"none", "open", "closing", "closed"}, tracked' \subseteq Requests
  PROVE  TypeOK'
  BY DEF TypeOK

(* Every variable keeps its type, the pool its size.                       *)
LEMMA TypeStep == TypeOK /\ [Next]_vars => TypeOK'
<1> SUFFICES ASSUME TypeOK, [Next]_vars PROVE TypeOK'  OBVIOUS
<1> USE DEF given
<1>1. CASE UNCHANGED vars  BY <1>1, ZenonT(40) DEF vars, TypeOK
<1>2. CASE Startup
  <2>1. env' = env \/ main' \notin {"config"} \cup Starting
      BY <1>2 DEF Startup, CheckConfiguration, ConnectDatabase, RunMigrations,
                 BuildHealth, ConnectRedis, Wire, Bind, Starting
  <2>2. main \in {"config"} \cup Starting /\ UNCHANGED <<request, stalls, served, cancelled, tracked>>
      BY <1>2 DEF Startup, CheckConfiguration, ConnectDatabase, RunMigrations,
                 BuildHealth, ConnectRedis, Wire, Bind, Starting
  <2>3. now' \in 0..MaxTime
    <3>1. now' = now \/ now' = 0
        BY <1>2 DEF Startup, CheckConfiguration, ConnectDatabase, RunMigrations,
                   BuildHealth, ConnectRedis, Wire, Bind
    <3> QED  BY <3>1, Bounds DEF TypeOK
  <2>6. settings' \in Kept
    <3>1. settings' = settings \/ settings' = Configured(env)
        BY <1>2 DEF Startup, CheckConfiguration, ConnectDatabase, RunMigrations,
                   BuildHealth, ConnectRedis, Wire, Bind
    <3> QED  BY <3>1, ConfiguredTyped DEF TypeOK
  <2>4. main' \in {"serve"} \cup Starting \cup Ended
      BY <1>2 DEF Startup, CheckConfiguration, ConnectDatabase, RunMigrations,
                 BuildHealth, ConnectRedis, Wire, Bind, Starting, Ended
  <2>5. /\ task' \in {"none", "waiting", "invalidating", "ended"}
        /\ pool' \in {"none", "open", "closing", "closed"}
      BY <1>2 DEF Startup, CheckConfiguration, ConnectDatabase, RunMigrations,
                 BuildHealth, ConnectRedis, Wire, Bind, TypeOK
  <2> QED  BY <2>1, <2>2, <2>3, <2>4, <2>5, <2>6, MainTyped DEF TypeOK
<1>3. CASE KilledEarly  BY <1>3 DEF KilledEarly, TypeOK, Starting, Ended
<1>4. CASE Tick
  <2>1. now' \in 0..MaxTime
    <3>1. now < MaxTime /\ now' = now + 1  BY <1>4 DEF Tick
    <3>2. now \in 0..MaxTime  BY DEF TypeOK
    <3> QED  BY <3>1, <3>2, Bounds
  <2> QED  BY <1>4, <2>1, MainTyped DEF Tick, TypeOK
<1>5. ASSUME NEW r \in Requests,
             Accept(r) \/ Dispatch(r) \/ AcquireFails(r) \/ EndStatement(r)
               \/ Announce(r) \/ EndStream(r)
      PROVE  TypeOK'
  <2>1. \E here, there \in Places : Step(r, here, there) /\ there # "statement"
      BY <1>5 DEF Accept, Dispatch, AcquireFails, EndStatement, Announce, EndStream, Places
  <2>2. request' \in [Requests -> Places] /\ Cardinality(InUse') <= PoolSize
      BY <2>1, StepTyped
  <2>3. tracked' \subseteq Requests
      BY <1>5 DEF Accept, Dispatch, AcquireFails, EndStatement, Announce, EndStream, TypeOK
  <2>4. UNCHANGED <<given, main, served, cancelled, task, pool>>
      BY <1>5 DEF Accept, Dispatch, AcquireFails, EndStatement, Announce, EndStream
  <2> QED  BY <2>2, <2>3, <2>4, ZenonT(40) DEF TypeOK, Places, InUse
<1>6. ASSUME NEW r \in Requests, Acquire(r) PROVE TypeOK'
    BY <1>6, AcquireTyped, ZenonT(40) DEF Acquire, TypeOK, Places, InUse
<1>7. CASE SendTracked \/ Invalidate \/ Invalidated \/ EndTask
    BY <1>7, ZenonT(40) DEF SendTracked, Invalidate, Invalidated, EndTask, TypeOK
<1>8. CASE Signal \/ ServerFails
    BY <1>8 DEF Signal, ServerFails, Leave, TypeOK, Starting, Ended
<1>9. CASE Shutdown
  <2>1. CASE Drained \/ TimedOut
      BY <2>1 DEF Drained, TimedOut, Leave, TypeOK, Starting, Ended
  <2>2. CASE AwaitTask  BY <2>2 DEF AwaitTask, TypeOK, Starting, Ended
  <2>3. CASE StartClose  BY <2>3 DEF StartClose, TypeOK, Starting, Ended
  <2>4. CASE EndClose  BY <2>4 DEF EndClose, TypeOK, Starting, Ended
  <2>5. CASE FlushAnalytics  BY <2>5 DEF FlushAnalytics, TypeOK, Starting, Ended
  <2>6. CASE ShutDownExport  BY <2>6 DEF ShutDownExport, TypeOK, Starting, Ended
  <2> QED  BY <1>9, <2>1, <2>2, <2>3, <2>4, <2>5, <2>6 DEF Shutdown
<1> QED  BY <1>1, <1>2, <1>3, <1>4, <1>5, <1>6, <1>7, <1>8, <1>9 DEF Next

(* Every variable keeps its type: no statement runs without a connection   *)
(* of the pool, whatever main does meanwhile.                              *)
THEOREM TypeCorrect == Spec => []TypeOK
<1>1. Init => TypeOK
  <2> SUFFICES ASSUME Init PROVE TypeOK  OBVIOUS
  <2>1. {r \in Requests : request[r] = "statement"} = {}  BY DEF Init
  <2>2. Cardinality({r \in Requests : request[r] = "statement"}) <= PoolSize
      BY <2>1, FS_EmptySet, Bounds
  <2>3. env # Unset  BY Zenon, LifecycleAssumption DEF Init
  <2>4. settings \in Kept  BY DEF Init, Kept
  <2> QED  BY <2>2, <2>3, <2>4, Bounds DEF Init, TypeOK
<1> QED  BY <1>1, TypeStep, PTL DEF Spec

-----------------------------------------------------------------------------
(* Startup: what is accepted and what is used.                             *)

(* What the checks of startup left behind, while main wires the process:   *)
(* they passed at some moment, and the pool is open only where sqlx could  *)
(* read an sslmode.                                                        *)
WasAccepted ==
  /\ main = "config" => pool # "open"
  /\ main \in Starting =>
       /\ \E t \in Nat : t <= now /\ Accepted(env, t)
       /\ settings = Configured(env)
       /\ pool = "open" => ConnectSslmode(env) \in Sslmodes

(* Whichever variable decides the sslmode, what was validated is used.     *)
LEMMA SslmodeIsUsed ==
  ASSUME NEW e, EffectiveSslmode(e) \in Encrypting, ConnectSslmode(e) \in Sslmodes
  PROVE  ConnectSslmode(e) \in Encrypting
<1>1. CASE IsSet(e, "POSTGRES_SSLMODE")
    BY <1>1 DEF EffectiveSslmode, ConnectSslmode, EnvOr
<1>2. CASE ~IsSet(e, "POSTGRES_SSLMODE")
  <2>1. UrlSslmode(e) \in Encrypting  BY <1>2 DEF EffectiveSslmode, EnvOr
  <2>2. UrlSslmode(e) # Unset  BY <2>1, UnsetAssumption DEF Encrypting, Sslmodes
  <2>3. Get(e, "DATABASE_URL") = UrlSslmode(e)  BY <2>2 DEF UrlSslmode
  <2> QED  BY <1>2, <2>1, <2>2, <2>3 DEF ConnectSslmode, EnvOr, IsSet
<1> QED  BY <1>1, <1>2

(* What an accepted production environment says.                           *)
LEMMA AcceptedIsStrict ==
  ASSUME NEW e, NEW t, Accepted(e, t), ModeOf(e) = "production"
  PROVE  /\ EffectiveSslmode(e) \in Encrypting
         /\ RedisUrl(e).scheme = "rediss" /\ Https(StorageUrl(e))
         /\ Https(Issuer(e)) /\ Https(DiscoveryUrl(e))
         /\ SharedKey(e) /\ ~Configured(e).mock
<1>1. Validates(e) /\ ResourceServer(e, t) /\ SubscriberSecret(e)
    BY DEF Accepted, FromEnv
<1>2. SharedKey(e)
  <2>1. e["SUBSCRIBER_SECRET"] # NotUnicode /\ e["SUBSCRIBER_SECRET"] # Unset
      BY <1>1 DEF SubscriberSecret
  <2> QED  BY <2>1 DEF SharedKey, IsSet, Get
<1>3. ~Configured(e).mock  BY DEF Configured
<1>4. Https(DiscoveryUrl(e))  BY <1>1 DEF ResourceServer
<1> QED  BY <1>1, <1>2, <1>3, <1>4 DEF Validates

(* Of what the wiring reads a second time, only the expiry of security.txt *)
(* depends on when it is read.                                             *)
LEMMA OnlyExpiryLapses ==
  ASSUME NEW e, NEW t \in Nat, NEW n \in Nat, t <= n,
         ResourceServer(e, t), ~ResourceServer(e, n)
  PROVE  IsSet(e, "SECURITY_TXT_CONTACT") /\ Get(e, "SECURITY_TXT_EXPIRES") <= n
<1>1. SecurityTxt(e, t) /\ ~SecurityTxt(e, n)  BY DEF ResourceServer
<1>2. IsSet(e, "SECURITY_TXT_CONTACT")  BY <1>1 DEF SecurityTxt
<1> DEFINE x == Get(e, "SECURITY_TXT_EXPIRES")
<1>3. x \in Nat /\ x <= t + Year  BY <1>1, <1>2 DEF SecurityTxt
<1>4. ~(x > n /\ x <= n + Year)  BY <1>1, <1>2 DEF SecurityTxt
<1>5. Year \in Nat  BY SettingsAssumption
<1> HIDE DEF x
<1>6. x <= n  BY <1>3, <1>4, <1>5
<1> QED  BY <1>2, <1>6 DEF x

(* Main's steps keep what the checks left; nothing else touches it.        *)
LEMMA AcceptedStep == TypeOK /\ WasAccepted /\ [Next]_vars => WasAccepted'
<1> SUFFICES ASSUME TypeOK, WasAccepted, [Next]_vars PROVE WasAccepted'  OBVIOUS
<1>0. now \in Nat
  <2>1. now \in 0..MaxTime  BY DEF TypeOK
  <2> QED  BY <2>1, Bounds
<1>1. ASSUME main' \notin {"config"} \cup Starting PROVE WasAccepted'  BY <1>1 DEF WasAccepted
<1>2. ASSUME main \in Starting, main' # "config", UNCHANGED <<env, settings>>, now' \in {now, now + 1},
             pool' = "open" => ConnectSslmode(env) \in Sslmodes
      PROVE  WasAccepted'
  <2>1. PICK t \in Nat : t <= now /\ Accepted(env, t)  BY <1>2 DEF WasAccepted
  <2>2. t <= now'  BY <1>0, <1>2, <2>1
  <2>3. Accepted(env', t)  BY <1>2, <2>1
  <2>4. settings' = Configured(env')  BY <1>2 DEF WasAccepted
  <2>5. pool' = "open" => ConnectSslmode(env') \in Sslmodes  BY <1>2
  <2> QED  BY <1>2, <2>2, <2>3, <2>4, <2>5 DEF WasAccepted
<1>3. CASE CheckConfiguration
  <2>1. CASE main' # "connect"  BY <1>1, <1>3, <2>1 DEF CheckConfiguration, Starting
  <2>2. CASE main' = "connect"
    <3>1. Accepted(env', now) /\ settings' = Configured(env') /\ now' = now
        BY <1>3, <2>2 DEF CheckConfiguration
    <3>2. now <= now'  BY <1>0, <3>1
    <3>3. pool' # "open"  BY <1>3 DEF CheckConfiguration, WasAccepted
    <3> QED  BY <1>0, <2>2, <3>1, <3>2, <3>3 DEF WasAccepted
  <2> QED  BY <2>1, <2>2
<1>4. CASE ConnectDatabase
  <2>1. main \in Starting /\ main' # "config" /\ UNCHANGED <<env, settings, now>>
      BY <1>4 DEF ConnectDatabase, given, Starting
  <2>2. pool' = "open" => ConnectSslmode(env) \in Sslmodes
      BY <1>4, <2>1 DEF ConnectDatabase, WasAccepted
  <2> QED  BY <1>2, <2>1, <2>2
<1>5. CASE RunMigrations \/ BuildHealth \/ ConnectRedis \/ Wire \/ Tick
  <2>1. /\ main \in Starting /\ main' # "config"
        /\ UNCHANGED <<env, settings, pool>> /\ now' \in {now, now + 1}
      BY <1>5 DEF RunMigrations, BuildHealth, ConnectRedis, Wire, Tick, given, Starting
  <2> QED  BY <1>2, <2>1 DEF WasAccepted
<1>6. CASE UNCHANGED <<main, env, now, settings, pool>>
    BY <1>6 DEF WasAccepted
<1>7. CASE Bind \/ KilledEarly
    BY <1>1, <1>7 DEF Bind, KilledEarly, Starting
<1>8. CASE ServerFails \/ Shutdown
    BY <1>1, <1>8 DEF ServerFails, Shutdown, Drained, TimedOut, Leave, AwaitTask,
       StartClose, EndClose, FlushAnalytics, ShutDownExport, Starting
<1>9. ASSUME NEW r \in Requests,
             \/ Accept(r) \/ Dispatch(r) \/ Acquire(r) \/ AcquireFails(r)
             \/ EndStatement(r) \/ Announce(r) \/ EndStream(r)
      PROVE  WasAccepted'
    BY <1>6, <1>9 DEF Accept, Dispatch, Acquire, AcquireFails, EndStatement,
       Announce, EndStream, given
<1>10. CASE SendTracked \/ Invalidate \/ Invalidated \/ EndTask \/ Signal
    BY <1>6, <1>10 DEF SendTracked, Invalidate, Invalidated, EndTask, Signal, given
<1>11. CASE UNCHANGED vars  BY <1>6, <1>11 DEF vars, given
<1> QED  BY <1>3, <1>4, <1>5, <1>7, <1>8, <1>9, <1>10, <1>11 DEF Next, Startup

(* The connections startup opens in production are the ones it validated.  *)
THEOREM ProductionConnections == Spec => []ProductionIsStrict
<1>1. Init => WasAccepted  BY DEF Init, WasAccepted, Starting
<1>2. WasAccepted => ProductionIsStrict
  <2> SUFFICES ASSUME WasAccepted, main \in Starting, ModeOf(env) = "production"
               PROVE  /\ pool = "open" => ConnectSslmode(env) \in Encrypting
                      /\ RedisUrl(env).scheme = "rediss" /\ Https(StorageUrl(env))
                      /\ Https(Issuer(env)) /\ Https(DiscoveryUrl(env))
                      /\ SharedKey(env) /\ ~settings.mock
      BY DEF ProductionIsStrict
  <2>1. PICK t \in Nat : Accepted(env, t)  BY DEF WasAccepted
  <2>2. settings = Configured(env)  BY DEF WasAccepted
  <2>3. pool = "open" => ConnectSslmode(env) \in Sslmodes  BY DEF WasAccepted
  <2> QED  BY <2>1, <2>2, <2>3, AcceptedIsStrict, SslmodeIsUsed
<1> QED  BY <1>1, <1>2, AcceptedStep, TypeStep, TypeCorrect, PTL DEF Spec

(* The wiring never trips over what main accepted, but for a security.txt  *)
(* that expired on the way.                                                *)
THEOREM ConfigurationHolds == Spec => []OnlyTheClockInvalidates
<1>1. Init => WasAccepted /\ OnlyTheClockInvalidates
    BY DEF Init, WasAccepted, Starting, OnlyTheClockInvalidates
<1>2. TypeOK /\ WasAccepted /\ OnlyTheClockInvalidates /\ [Next]_vars
        => OnlyTheClockInvalidates'
  <2> SUFFICES ASSUME TypeOK, WasAccepted, OnlyTheClockInvalidates, [Next]_vars,
                      main' = "misconfigured"
               PROVE  IsSet(env', "SECURITY_TXT_CONTACT")
                        /\ Get(env', "SECURITY_TXT_EXPIRES") <= now'
      BY DEF OnlyTheClockInvalidates
  <2>1. now \in Nat
    <3>1. now \in 0..MaxTime  BY DEF TypeOK
    <3> QED  BY <3>1, Bounds
  <2>2. ASSUME main \in Starting,
               ~(settings.mock \/ ResourceServer(env, now)) \/ ~StatsCacheTtl(env)
                 \/ ~(SubscriberSecret(env) /\ ResourceServer(env, now))
        PROVE  IsSet(env, "SECURITY_TXT_CONTACT") /\ Get(env, "SECURITY_TXT_EXPIRES") <= now
    <3>1. PICK t \in Nat : t <= now /\ Accepted(env, t)  BY <2>2 DEF WasAccepted
    <3>2. ResourceServer(env, t) /\ SubscriberSecret(env) /\ StatsCacheTtl(env)
        BY <3>1 DEF Accepted, FromEnv
    <3>3. ~ResourceServer(env, now)  BY <2>2, <3>2
    <3> QED  BY <2>1, <3>1, <3>2, <3>3, OnlyExpiryLapses
  <2>3. CASE main = "misconfigured"
    <3>1. UNCHANGED <<env, now>>
      <4>1. main \notin Starting \cup {"config"}  BY <2>3 DEF Starting
      <4> QED
        BY <2>3, <4>1 DEF Next, Startup, CheckConfiguration, ConnectDatabase, RunMigrations,
           BuildHealth, ConnectRedis, Wire, Bind, KilledEarly, Tick, Accept, Dispatch,
           Acquire, AcquireFails, EndStatement, Announce, EndStream, SendTracked,
           Invalidate, Invalidated, EndTask, Signal, ServerFails, Leave, Shutdown,
           Drained, TimedOut, AwaitTask, StartClose, EndClose, FlushAnalytics,
           ShutDownExport, given, vars
    <3> QED  BY <2>3, <3>1 DEF OnlyTheClockInvalidates
  <2>4. CASE main # "misconfigured"
    <3>1. BuildHealth \/ ConnectRedis \/ Wire
        BY <2>4 DEF Next, Startup, CheckConfiguration, ConnectDatabase, RunMigrations,
           Bind, KilledEarly, Tick, Accept, Dispatch,
           Acquire, AcquireFails, EndStatement, Announce, EndStream, SendTracked,
           Invalidate, Invalidated, EndTask, Signal, ServerFails, Leave, Shutdown,
           Drained, TimedOut, AwaitTask, StartClose, EndClose, FlushAnalytics,
           ShutDownExport, given, vars
    <3>2. main \in Starting /\ UNCHANGED <<env, now>>
        BY <3>1 DEF BuildHealth, ConnectRedis, Wire, given, Starting
    <3>3. ~(settings.mock \/ ResourceServer(env, now)) \/ ~StatsCacheTtl(env)
            \/ ~(SubscriberSecret(env) /\ ResourceServer(env, now))
        BY <3>1 DEF BuildHealth, ConnectRedis, Wire
    <3> QED  BY <2>2, <3>2, <3>3
  <2> QED  BY <2>3, <2>4
<1> QED  BY <1>1, <1>2, AcceptedStep, TypeCorrect, PTL DEF Spec

-----------------------------------------------------------------------------
(* Shutdown: what main may touch, and when.                                *)

TaskIsOver == task \in {"none", "ended"}

(* The task is over before the pool is closed, which no statement outlasts;*)
(* and a drain counts as clean only with no request left.                  *)
Ordered ==
  /\ main \in {"close", "closing", "flush", "export"} => TaskIsOver
  /\ pool = "closed" =>
       TaskIsOver /\ InUse = {} /\ main \in {"flush", "export"} \cup Ended
  /\ served = "drained" =>
       /\ main \in {"await task", "close", "closing", "flush", "export"} \cup Ended
       /\ \A r \in Requests : request[r] = "none"

(* A serving request needs main, or the pool, or a place it is not at.     *)
LEMMA ServingOrdered ==
  ASSUME TypeOK, Ordered, NEW r \in Requests,
         \/ Accept(r) \/ Dispatch(r) \/ Acquire(r) \/ AcquireFails(r)
         \/ EndStatement(r) \/ Announce(r) \/ EndStream(r)
  PROVE  Ordered'
<1>1. UNCHANGED <<main, served, task, pool>>
    BY DEF Accept, Dispatch, Acquire, AcquireFails, EndStatement, Announce, EndStream, given
<1>2. served # "drained"
  <2>1. main = "serve" \/ request[r] # "none"
      BY DEF Accept, Dispatch, Acquire, AcquireFails, EndStatement, Announce, EndStream, Step
  <2> QED  BY <2>1 DEF Ordered, Ended
<1>3. pool = "closed" => InUse' = {}
  <2>1. pool = "closed" => InUse' \subseteq InUse
      BY DEF Accept, Dispatch, Acquire, AcquireFails, EndStatement, Announce, EndStream,
         Step, InUse, TypeOK
  <2> QED  BY <2>1 DEF Ordered
<1> QED  BY <1>1, <1>2, <1>3 DEF Ordered, TaskIsOver

(* The order is kept by every step.                                        *)
LEMMA OrderedStep == TypeOK /\ Ordered /\ [Next]_vars => Ordered'
<1> SUFFICES ASSUME TypeOK, Ordered, [Next]_vars PROVE Ordered'  OBVIOUS
<1> USE DEF Ordered, TaskIsOver, Ended, given
<1>1. CASE UNCHANGED vars  BY <1>1 DEF vars, InUse
<1>2. CASE Startup
  <2>1. main \notin {"close", "closing", "flush", "export"} \cup Ended
      BY <1>2 DEF Startup, CheckConfiguration, ConnectDatabase, RunMigrations,
         BuildHealth, ConnectRedis, Wire, Bind
  <2>2. served # "drained" /\ pool # "closed" /\ served' = served /\ pool' # "closed"
    <3>1. main # "await task"
        BY <1>2 DEF Startup, CheckConfiguration, ConnectDatabase, RunMigrations,
           BuildHealth, ConnectRedis, Wire, Bind
    <3> QED
      BY <1>2, <2>1, <3>1 DEF Startup, CheckConfiguration, ConnectDatabase, RunMigrations,
         BuildHealth, ConnectRedis, Wire, Bind
  <2>3. main' \notin {"close", "closing", "flush", "export"}
      BY <1>2 DEF Startup, CheckConfiguration, ConnectDatabase, RunMigrations,
         BuildHealth, ConnectRedis, Wire, Bind
  <2> QED  BY <2>2, <2>3
<1>3. CASE KilledEarly \/ Tick
    BY <1>3 DEF KilledEarly, Tick, Starting, InUse
<1>4. ASSUME NEW r \in Requests,
             \/ Accept(r) \/ Dispatch(r) \/ Acquire(r) \/ AcquireFails(r)
             \/ EndStatement(r) \/ Announce(r) \/ EndStream(r)
      PROVE  Ordered'
    BY <1>4, ServingOrdered
<1>5. CASE SendTracked \/ Signal  BY <1>5 DEF SendTracked, Signal, InUse
<1>6. CASE Invalidate \/ Invalidated \/ EndTask
    BY <1>6 DEF Invalidate, Invalidated, EndTask, InUse
<1>7. CASE ServerFails \/ Drained \/ TimedOut
    BY <1>7 DEF ServerFails, Drained, TimedOut, Leave, InUse
<1>8. CASE AwaitTask \/ StartClose  BY <1>8 DEF AwaitTask, StartClose, InUse
<1>9. CASE EndClose  BY <1>9 DEF EndClose, InUse
<1>10. CASE FlushAnalytics \/ ShutDownExport
    BY <1>10 DEF FlushAnalytics, ShutDownExport, InUse
<1> QED  BY <1>1, <1>2, <1>3, <1>4, <1>5, <1>6, <1>7, <1>8, <1>9, <1>10 DEF Next, Shutdown

(* Nothing that uses the pool outlives it, also after a timeout, and also  *)
(* when the server failed instead of being told to stop.                   *)
THEOREM PoolIsClosedLast == Spec => []PoolOutlivesItsUsers
<1>1. Init => Ordered  BY DEF Init, Ordered
<1>2. Ordered => PoolOutlivesItsUsers  BY DEF Ordered, TaskIsOver, PoolOutlivesItsUsers
<1> QED  BY <1>1, <1>2, OrderedStep, TypeCorrect, PTL DEF Spec

(* After a clean drain nobody is left to track what the last flush misses. *)
THEOREM FlushMissesNothing == Spec => []DrainFlushesLast
<1>1. Init => Ordered  BY DEF Init, Ordered
<1>2. Ordered => DrainFlushesLast  BY DEF Ordered, DrainFlushesLast
<1> QED  BY <1>1, <1>2, OrderedStep, TypeCorrect, PTL DEF Spec
=============================================================================
