------------------------------ MODULE StatsCache ------------------------------
(***************************************************************************)
(* The cached aggregates of the v2 JSON router, GET /stats and GET         *)
(* /predict, with the cache they share and the task of each replica that   *)
(* drops its entries on CRUD events.                                       *)
(*                                                                         *)
(* A read is a GET, and on a miss the statements that build the body and a *)
(* SET; each is an await, so writes, invalidations and expiry fall between *)
(* any two of them.  The table is abstracted to how many records are live  *)
(* and archived, and to how many writes it has seen.                       *)
(***************************************************************************)
EXTENDS Naturals, FiniteSets

CONSTANTS
  Replicas,    (* processes, each with its invalidation task               *)
  Readers,     (* requests for aggregates in flight                        *)
  Queries,     (* the aggregates asked for                                 *)
  Verbs,       (* the kinds of write that happen meanwhile                 *)
  Version,     (* APP_VERSION of each replica                              *)
  NoEntry,     (* what the cache holds under a key it does not have        *)
  Ttl,         (* STATS_CACHE_TTL_SECONDS, in ticks                        *)
  QueueCap,    (* events a subscription buffers; later ones are dropped    *)
  MaxWrites    (* bound: committed writes                                  *)

Versions == {Version[p] : p \in Replicas}

(* stats-cache:{version}:heroes:{query}                                    *)
Keys == Versions \X Queries

(* An entry: the writes its build had seen when it started reading, the    *)
(* ticks it has left, and (history) the replicas whose task has had its    *)
(* chance to drop it and could not.                                        *)
Entry == [sees: 0..MaxWrites, left: 1..Ttl, missed: SUBSET Replicas]

ASSUME StatsCacheAssumption ==
  /\ Ttl \in Nat \ {0} /\ QueueCap \in Nat \ {0} /\ MaxWrites \in Nat
  /\ NoEntry \notin Entry
  /\ Queries \subseteq {"stats", "predict"}
  /\ Verbs \subseteq {"create", "update", "delete"}

VARIABLES
  live,         (* records with archived_at NULL                           *)
  archived,     (* the others                                              *)
  writes,       (* committed writes                                        *)
  unannounced,  (* those whose handler has not reached its publish         *)
  cache,        (* the entries of Redis, or of the process under mock      *)
  reader,       (* where each read stands and what it has read             *)
  task,         (* where each replica's run_invalidation stands            *)
  todo,         (* keys its SCAN has yet to return                         *)
  queue,        (* events its subscription buffers                         *)
  up,           (* whether that subscription is connected                  *)
  shutdown      (* whether the replica's shutdown token is cancelled       *)

table == <<live, archived, writes>>
tasks == <<task, todo, queue, up, shutdown>>
vars == <<table, unannounced, cache, reader, tasks>>

Reader ==
  [pc: {"get", "visible", "all", "list", "set"}, at: Replicas,
   query: Queries, sees: 0..MaxWrites, visible: Nat, all: Nat, was: Nat]

Idle == [pc |-> "idle"]

TypeOK ==
  /\ live \in Nat /\ archived \in Nat
  /\ writes \in 0..MaxWrites
  /\ unannounced \in 0..MaxWrites
  /\ cache \in [Keys -> {NoEntry} \cup Entry]
  /\ reader \in [Readers -> {Idle} \cup Reader]
  /\ task \in [Replicas -> {"subscribe", "scan", "listen", "sleep", "stopped"}]
  /\ todo \in [Replicas -> SUBSET Keys]
  /\ queue \in [Replicas -> 0..QueueCap]
  /\ up \in [Replicas -> BOOLEAN]
  /\ shutdown \in [Replicas -> BOOLEAN]

Init ==
  /\ live = 1 /\ archived = 0 /\ writes = 0 /\ unannounced = 0
  /\ cache = [k \in Keys |-> NoEntry]
  /\ reader = [r \in Readers |-> Idle]
  /\ task = [p \in Replicas |-> "subscribe"]
  /\ todo = [p \in Replicas |-> {}]
  /\ queue = [p \in Replicas |-> 0]
  /\ up = [p \in Replicas |-> FALSE]
  /\ shutdown = [p \in Replicas |-> FALSE]

Cached == {k \in Keys : cache[k] # NoEntry}

Stale == {k \in Cached : cache[k].sees # writes}

(* The stale entries of S are left behind by the tasks of P.               *)
Missed(S, P) ==
  [k \in Keys |-> IF k \in S \cap Stale
                  THEN [cache[k] EXCEPT !.missed = @ \cup P] ELSE cache[k]]

-----------------------------------------------------------------------------
(* Writes, as HeroWrites commits and announces them.                       *)

Write ==
  /\ writes < MaxWrites
  /\ \/ "create" \in Verbs /\ live' = live + 1 /\ UNCHANGED archived
     \/ /\ "delete" \in Verbs
        /\ \E n \in 1..live : live' = live - n /\ archived' = archived + n
     \/ "update" \in Verbs /\ UNCHANGED <<live, archived>>
  /\ writes' = writes + 1
  /\ unannounced' = unannounced + 1
  /\ UNCHANGED <<cache, reader, tasks>>

(* The bus hands the event to every connected subscription.  A full buffer *)
(* drops it.                                                               *)
Publish ==
  /\ unannounced > 0
  /\ unannounced' = unannounced - 1
  /\ queue' = [p \in Replicas |->
                 IF up[p] /\ queue[p] < QueueCap THEN queue[p] + 1 ELSE queue[p]]
  /\ UNCHANGED <<table, cache, reader, task, todo, up, shutdown>>

(* The handler is dropped before its publish, or the broker is away.       *)
LoseEvent ==
  /\ unannounced > 0
  /\ unannounced' = unannounced - 1
  /\ cache' = Missed(Keys, Replicas)
  /\ UNCHANGED <<table, reader, tasks>>

-----------------------------------------------------------------------------
(* Reads: CachedStats::get_or_build around get_stats and get_prediction.   *)

KeyOf(r) == <<Version[reader[r].at], reader[r].query>>

Goto(r, place) == reader' = [reader EXCEPT ![r].pc = place]

Finish(r) == reader' = [reader EXCEPT ![r] = Idle]

Ask(r, p, query) ==
  /\ reader[r].pc = "idle" /\ task[p] # "stopped"
  /\ reader' = [reader EXCEPT ![r] =
       [pc |-> "get", at |-> p, query |-> query,
        sees |-> 0, visible |-> 0, all |-> 0, was |-> 0]]
  /\ UNCHANGED <<table, unannounced, cache, tasks>>

(* Variant of Hit: a hit renews the expiry.                                *)
HitRenews(r) ==
  /\ reader[r].pc = "get" /\ KeyOf(r) \in Cached
  /\ Finish(r)
  /\ cache' = [cache EXCEPT ![KeyOf(r)].left = Ttl]
  /\ UNCHANGED <<table, unannounced, tasks>>

(* The entry is served as it is; its expiry stays.                         *)
Hit(r) ==
  /\ reader[r].pc = "get" /\ KeyOf(r) \in Cached
  /\ Finish(r)
  /\ UNCHANGED <<table, unannounced, cache, tasks>>

(* No entry; or Redis failed or returned something that is not JSON.       *)
Miss(r) ==
  /\ reader[r].pc = "get"
  /\ Goto(r, IF reader[r].query = "stats" THEN "visible" ELSE "list")
  /\ UNCHANGED <<table, unannounced, cache, tasks>>

(* The two counts of get_stats, in the order of the code.                  *)
CountVisible(r) ==
  /\ reader[r].pc = "visible"
  /\ reader' = [reader EXCEPT ![r].pc = "all", ![r].visible = live,
                              ![r].sees = writes, ![r].was = archived]
  /\ UNCHANGED <<table, unannounced, cache, tasks>>

(* Variant of CountAll: archived records are left out here too.            *)
CountVisibleAgain(r) ==
  /\ reader[r].pc = "all"
  /\ reader' = [reader EXCEPT ![r].pc = "list", ![r].all = live]
  /\ UNCHANGED <<table, unannounced, cache, tasks>>

CountAll(r) ==
  /\ reader[r].pc = "all"
  /\ reader' = [reader EXCEPT ![r].pc = "list", ![r].all = live + archived]
  /\ UNCHANGED <<table, unannounced, cache, tasks>>

(* The records themselves: the last read of /stats, the only one of        *)
(* /predict.                                                               *)
ListRecords(r) ==
  /\ reader[r].pc = "list"
  /\ reader' = [reader EXCEPT ![r].pc = "set",
                  ![r].sees = IF reader[r].query = "stats" THEN @ ELSE writes]
  /\ UNCHANGED <<table, unannounced, cache, tasks>>

(* SET ... EX; a read that raced a write stores what no task will drop.    *)
Set(r) ==
  /\ reader[r].pc = "set"
  /\ Finish(r)
  /\ cache' = [cache EXCEPT ![KeyOf(r)] =
                 [sees |-> reader[r].sees, left |-> Ttl,
                  missed |-> IF reader[r].sees = writes THEN {} ELSE Replicas]]
  /\ UNCHANGED <<table, unannounced, tasks>>

(* SET failed, a statement failed, the history is too short to forecast,   *)
(* or the client went away: nothing is stored.                             *)
GiveUp(r) ==
  /\ reader[r].pc \in {"get", "visible", "all", "list", "set"}
  /\ Finish(r)
  /\ UNCHANGED <<table, unannounced, cache, tasks>>

(* Variant of Tick: an entry lives one tick too long.                      *)
TickLate ==
  /\ Cached # {}
  /\ cache' = [k \in Keys |->
       IF cache[k] = NoEntry \/ cache[k].left = 0 THEN NoEntry
       ELSE [cache[k] EXCEPT !.left = @ - 1]]
  /\ UNCHANGED <<table, unannounced, reader, tasks>>

(* Time passes; Redis drops the entries whose EX has run out.              *)
Tick ==
  /\ Cached # {}
  /\ cache' = [k \in Keys |->
       IF cache[k] = NoEntry \/ cache[k].left = 1 THEN NoEntry
       ELSE [cache[k] EXCEPT !.left = @ - 1]]
  /\ UNCHANGED <<table, unannounced, reader, tasks>>

-----------------------------------------------------------------------------
(* run_invalidation of replica p.                                          *)

StepTask(p, place) == task' = [task EXCEPT ![p] = place]

(* The SCAN starts: every key it finds now is returned sooner or later,    *)
(* whatever its version.                                                   *)
StartScan(p) == StepTask(p, "scan") /\ todo' = [todo EXCEPT ![p] = Cached]

(* Variant of Subscribe: no invalidation after it.                         *)
ResubscribeQuietly(p) ==
  /\ task[p] = "subscribe"
  /\ \/ StepTask(p, "listen") /\ up' = [up EXCEPT ![p] = TRUE] /\ UNCHANGED todo
     \/ StepTask(p, "sleep") /\ UNCHANGED <<todo, up>>
  /\ UNCHANGED <<table, unannounced, cache, reader, queue, shutdown>>

(* A subscription that is made is followed by one invalidation.            *)
Subscribe(p) ==
  /\ task[p] = "subscribe"
  /\ \/ StartScan(p) /\ up' = [up EXCEPT ![p] = TRUE]
     \/ StepTask(p, "sleep") /\ UNCHANGED <<todo, up>>
  /\ UNCHANGED <<table, unannounced, cache, reader, queue, shutdown>>

(* One SCAN reply and the UNLINK of its keys.                              *)
Unlink(p) ==
  /\ task[p] = "scan"
  /\ \E batch \in SUBSET todo[p] \ {{}} :
       /\ cache' = [k \in Keys |-> IF k \in batch THEN NoEntry ELSE cache[k]]
       /\ todo' = [todo EXCEPT ![p] = @ \ batch]
  /\ UNCHANGED <<table, unannounced, reader, task, queue, up, shutdown>>

(* The cursor came back to 0; or a command failed, which is logged, and    *)
(* what the SCAN had yet to return stays.                                  *)
EndScan(p) ==
  /\ task[p] = "scan"
  /\ StepTask(p, "listen")
  /\ todo' = [todo EXCEPT ![p] = {}]
  /\ cache' = Missed(todo[p], {p})
  /\ UNCHANGED <<table, unannounced, reader, queue, up, shutdown>>

NextEvent(p) ==
  /\ task[p] = "listen" /\ queue[p] > 0
  /\ queue' = [queue EXCEPT ![p] = @ - 1]
  /\ StartScan(p)
  /\ UNCHANGED <<table, unannounced, cache, reader, up, shutdown>>

(* The broker connection breaks, at any time.                              *)
Disconnect(p) ==
  /\ up[p]
  /\ up' = [up EXCEPT ![p] = FALSE]
  /\ UNCHANGED <<table, unannounced, cache, reader, task, todo, queue, shutdown>>

(* next_event returns None; what was buffered is gone with the stream.     *)
StreamEnds(p) ==
  /\ task[p] = "listen" /\ ~up[p]
  /\ StepTask(p, "sleep")
  /\ queue' = [queue EXCEPT ![p] = 0]
  /\ UNCHANGED <<table, unannounced, cache, reader, todo, up, shutdown>>

Wake(p) ==
  /\ task[p] = "sleep"
  /\ StepTask(p, "subscribe")
  /\ UNCHANGED <<table, unannounced, cache, reader, todo, queue, up, shutdown>>

CancelShutdown(p) ==
  /\ ~shutdown[p]
  /\ shutdown' = [shutdown EXCEPT ![p] = TRUE]
  /\ UNCHANGED <<table, unannounced, cache, reader, task, todo, queue, up>>

(* Variant of Stop: the wait for an event ignores the token.               *)
StopUnlessListening(p) ==
  /\ shutdown[p] /\ task[p] \in {"subscribe", "sleep"}
  /\ StepTask(p, "stopped")
  /\ queue' = [queue EXCEPT ![p] = 0]
  /\ up' = [up EXCEPT ![p] = FALSE]
  /\ UNCHANGED <<table, unannounced, cache, reader, todo, shutdown>>

(* The three selects on the token; a running invalidation has none.        *)
Stop(p) ==
  /\ shutdown[p] /\ task[p] \in {"subscribe", "listen", "sleep"}
  /\ StepTask(p, "stopped")
  /\ queue' = [queue EXCEPT ![p] = 0]
  /\ up' = [up EXCEPT ![p] = FALSE]
  /\ UNCHANGED <<table, unannounced, cache, reader, todo, shutdown>>

(* A new process takes the replica's place.                                *)
Restart(p) ==
  /\ task[p] = "stopped"
  /\ StepTask(p, "subscribe")
  /\ shutdown' = [shutdown EXCEPT ![p] = FALSE]
  /\ UNCHANGED <<table, unannounced, cache, reader, todo, queue, up>>

Next ==
  \/ Write \/ Publish \/ LoseEvent \/ Tick
  \/ \E r \in Readers :
       \/ \E p \in Replicas, query \in Queries : Ask(r, p, query)
       \/ Hit(r) \/ Miss(r) \/ CountVisible(r) \/ CountAll(r)
       \/ ListRecords(r) \/ Set(r) \/ GiveUp(r)
  \/ \E p \in Replicas :
       \/ Subscribe(p) \/ Unlink(p) \/ EndScan(p) \/ NextEvent(p)
       \/ Disconnect(p) \/ StreamEnds(p) \/ Wake(p)
       \/ CancelShutdown(p) \/ Stop(p) \/ Restart(p)

Spec == Init /\ [][Next]_vars

(* Time passes.  A running invalidation ends, every Redis command having a *)
(* timeout; and a select that keeps finding the token cancelled takes that *)
(* branch in the end.                                                      *)
FairSpec ==
  /\ Spec
  /\ WF_vars(Tick)
  /\ \A p \in Replicas : WF_vars(EndScan(p)) /\ SF_vars(Stop(p))

-----------------------------------------------------------------------------
(* Properties.                                                             *)

(* /stats subtracts the visible count from the total as unsigned numbers:  *)
(* read in this order the difference never goes below the number of        *)
(* records archived when the read began, so never below zero either.       *)
ArchivedNeverUndercounts ==
  \A r \in Readers :
    reader[r].pc \in {"list", "set"} /\ reader[r].query = "stats" =>
      reader[r].visible + reader[r].was <= reader[r].all

(* A stale entry that a running task has not missed (a lost event, a Redis *)
(* failure, a build that raced the write) will be dropped by that task: an *)
(* event is on its way, the task is about to scan, or its scan has yet to  *)
(* return the key.  Subscribing before the first invalidation, and         *)
(* invalidating once on every resubscribe, leave no gap; nor does a full   *)
(* buffer.                                                                 *)
StaleWillBeDropped ==
  \A p \in Replicas : \A k \in Stale :
    task[p] # "stopped" /\ p \notin cache[k].missed =>
      \/ unannounced > 0
      \/ queue[p] > 0
      \/ task[p] \in {"subscribe", "sleep"}
      \/ ~up[p]
      \/ k \in todo[p]

(* Once writes stop, stale answers stop too, whatever failed: the TTL is   *)
(* the net under every lost invalidation.                                  *)
EventuallyFresh == <>[](Stale = {})

(* main awaits the task at shutdown: it ends whatever it is doing.         *)
TaskStops == \A p \in Replicas : shutdown[p] ~> task[p] = "stopped"
=============================================================================
