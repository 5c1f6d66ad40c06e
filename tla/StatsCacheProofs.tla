--------------------------- MODULE StatsCacheProofs ---------------------------
(***************************************************************************)
(* The cache of the aggregates, for any number of replicas, readers and    *)
(* queries: types, the two counts of a body, and the entries the           *)
(* invalidation tasks still have in sight.                                 *)
(***************************************************************************)
EXTENDS StatsCache, TLAPS

(* Unannounced writes are among the committed ones, which the bound of     *)
(* their number rests on.                                                  *)
Typed == TypeOK /\ unannounced <= writes

(* A reader that has counted the visible records has an archived count     *)
(* beside it that live and archived together never fall below: a delete    *)
(* moves a record from one to the other, and nothing removes one.          *)
CountsKeepUp ==
  \A r \in Readers :
    /\ reader[r].pc = "all" => reader[r].visible + reader[r].was <= live + archived
    /\ reader[r].pc \in {"list", "set"} /\ reader[r].query = "stats" =>
         reader[r].visible + reader[r].was <= reader[r].all

-----------------------------------------------------------------------------

(* The initial state is well-typed.                                        *)
LEMMA TypedInit == Init => Typed
  BY StatsCacheAssumption DEF Init, Typed, TypeOK

(* Marking entries as missed leaves a cache a cache.                       *)
LEMMA MissedTyped ==
  ASSUME Typed, NEW S, NEW P \in SUBSET Replicas
  PROVE  Missed(S, P) \in [Keys -> {NoEntry} \cup Entry]
<1> SUFFICES ASSUME NEW k \in Keys, k \in S \cap Stale
             PROVE  [cache[k] EXCEPT !.missed = @ \cup P] \in Entry
    BY DEF Missed, Typed, TypeOK
<1>1. cache[k] \in Entry  BY DEF Stale, Cached, Typed, TypeOK
<1> QED  BY <1>1 DEF Entry

(* The key a reader asks for is one of the cache's.                        *)
LEMMA KeyOfTyped ==
  ASSUME Typed, NEW r \in Readers, reader[r] \in Reader
  PROVE  KeyOf(r) \in Keys
  BY DEF KeyOf, Keys, Versions, Reader

(* Writes and their announcements preserve the types.                      *)
LEMMA TypedWrites ==
  ASSUME Typed, Write \/ Publish \/ LoseEvent \/ Tick
  PROVE  Typed'
<1> USE StatsCacheAssumption
<1>1. CASE Write
  <2>1. live' \in Nat /\ archived' \in Nat
      BY <1>1 DEF Write, Typed, TypeOK
  <2>2. writes' \in 0..MaxWrites /\ unannounced' \in 0..MaxWrites /\ unannounced' <= writes'
      BY <1>1 DEF Write, Typed, TypeOK
  <2> QED  BY <1>1, <2>1, <2>2 DEF Write, Typed, TypeOK, tasks
<1>2. CASE Publish
  <2>1. queue' \in [Replicas -> 0..QueueCap]  BY <1>2 DEF Publish, Typed, TypeOK
  <2> QED  BY <1>2, <2>1 DEF Publish, Typed, TypeOK, table
<1>3. CASE LoseEvent
  BY <1>3, MissedTyped DEF LoseEvent, Typed, TypeOK, table, tasks
<1>4. CASE Tick
  <2>1. ASSUME NEW k \in Keys, cache[k] # NoEntry, cache[k].left # 1
        PROVE  [cache[k] EXCEPT !.left = @ - 1] \in Entry
    <3>1. cache[k] \in Entry  BY <2>1 DEF Typed, TypeOK
    <3> QED  BY <2>1, <3>1 DEF Entry
  <2>2. cache' \in [Keys -> {NoEntry} \cup Entry]  BY <1>4, <2>1 DEF Tick
  <2> QED  BY <1>4, <2>2 DEF Tick, Typed, TypeOK, table, tasks
<1> QED  BY <1>1, <1>2, <1>3, <1>4

(* A step of a read preserves the types.                                   *)
LEMMA TypedReads ==
  ASSUME Typed, NEW r \in Readers,
         \/ \E p \in Replicas, query \in Queries : Ask(r, p, query)
         \/ Hit(r) \/ Miss(r) \/ CountVisible(r) \/ CountAll(r)
         \/ ListRecords(r) \/ Set(r) \/ GiveUp(r)
  PROVE  Typed'
<1> USE StatsCacheAssumption
<1>0. reader[r].pc \notin {"idle"} => reader[r] \in Reader  BY DEF Typed, TypeOK, Idle
<1>1. reader' \in [Readers -> {Idle} \cup Reader]
  <2>1. CASE \E p \in Replicas, query \in Queries : Ask(r, p, query)
    <3> PICK p \in Replicas, query \in Queries : Ask(r, p, query)  BY <2>1
    <3>1. [pc |-> "get", at |-> p, query |-> query,
           sees |-> 0, visible |-> 0, all |-> 0, was |-> 0] \in Reader
        BY DEF Reader
    <3> QED  BY <3>1 DEF Ask, Typed, TypeOK
  <2>2. CASE Hit(r) \/ Set(r) \/ GiveUp(r)
      BY <2>2 DEF Hit, Set, GiveUp, Finish, Typed, TypeOK
  <2>3. CASE Miss(r) \/ CountVisible(r) \/ CountAll(r) \/ ListRecords(r)
    <3>1. reader[r] \in Reader
        BY <1>0, <2>3 DEF Miss, CountVisible, CountAll, ListRecords
    <3>2. reader'[r] \in Reader
      <4>1. CASE Miss(r)  BY <3>1, <4>1 DEF Miss, Goto, Reader, Typed, TypeOK
      <4>2. CASE CountVisible(r)  BY <3>1, <4>2 DEF CountVisible, Reader, Typed, TypeOK
      <4>3. CASE CountAll(r)
        <5>1. live + archived \in Nat  BY DEF Typed, TypeOK
        <5>2. reader'[r] = [[reader[r] EXCEPT !.pc = "list"] EXCEPT !.all = live + archived]
            BY <4>3 DEF CountAll, Typed, TypeOK
        <5> QED  BY <3>1, <5>1, <5>2 DEF Reader
      <4>4. CASE ListRecords(r)  BY <3>1, <4>4 DEF ListRecords, Reader, Typed, TypeOK
      <4> QED  BY <2>3, <4>1, <4>2, <4>3, <4>4
    <3>3. /\ reader' = [reader EXCEPT ![r] = reader'[r]]
      <4>1. CASE Miss(r)  BY <4>1 DEF Miss, Goto, Typed, TypeOK
      <4>2. CASE CountVisible(r)  BY <4>2 DEF CountVisible, Typed, TypeOK
      <4>3. CASE CountAll(r)  BY <4>3 DEF CountAll, Typed, TypeOK
      <4>4. CASE ListRecords(r)  BY <4>4 DEF ListRecords, Typed, TypeOK
      <4> QED  BY <2>3, <4>1, <4>2, <4>3, <4>4
    <3> QED  BY <3>2, <3>3 DEF Typed, TypeOK
  <2> QED  BY <2>1, <2>2, <2>3
<1>2. cache' \in [Keys -> {NoEntry} \cup Entry]
  <2>1. CASE Set(r)
    <3>1. reader[r] \in Reader  BY <1>0, <2>1 DEF Set
    <3>2. [sees |-> reader[r].sees, left |-> Ttl,
           missed |-> IF reader[r].sees = writes THEN {} ELSE Replicas] \in Entry
        BY <3>1 DEF Entry, Reader
    <3> QED  BY <2>1, <3>2, KeyOfTyped, <3>1 DEF Set, Typed, TypeOK
  <2>2. CASE ~Set(r)
      BY <2>2 DEF Ask, Hit, Miss, CountVisible, CountAll, ListRecords, GiveUp, Typed, TypeOK
  <2> QED  BY <2>1, <2>2
<1>3. UNCHANGED <<table, unannounced, tasks>>
    BY DEF Ask, Hit, Miss, CountVisible, CountAll, ListRecords, Set, GiveUp
<1> QED  BY <1>1, <1>2, <1>3 DEF Typed, TypeOK, table, tasks

(* A step of a replica's task preserves the types.                         *)
LEMMA TypedTasks ==
  ASSUME Typed, NEW p \in Replicas,
         \/ Subscribe(p) \/ Unlink(p) \/ EndScan(p) \/ NextEvent(p)
         \/ Disconnect(p) \/ StreamEnds(p) \/ Wake(p)
         \/ CancelShutdown(p) \/ Stop(p) \/ Restart(p)
  PROVE  Typed'
<1> USE StatsCacheAssumption DEF StepTask
<1>0. Cached \in SUBSET Keys  BY DEF Cached
<1>1. CASE Subscribe(p)
    BY <1>0, <1>1 DEF Subscribe, StartScan, Typed, TypeOK, table
<1>2. CASE Unlink(p)
  <2>1. PICK batch \in SUBSET todo[p] \ {{}} :
          /\ cache' = [k \in Keys |-> IF k \in batch THEN NoEntry ELSE cache[k]]
          /\ todo' = [todo EXCEPT ![p] = @ \ batch]
      BY <1>2 DEF Unlink
  <2>2. cache' \in [Keys -> {NoEntry} \cup Entry]  BY <2>1 DEF Typed, TypeOK
  <2>3. todo' \in [Replicas -> SUBSET Keys]  BY <2>1 DEF Typed, TypeOK
  <2> QED  BY <1>2, <2>2, <2>3 DEF Unlink, Typed, TypeOK, table
<1>3. CASE EndScan(p)
  <2>1. Missed(todo[p], {p}) \in [Keys -> {NoEntry} \cup Entry]  BY MissedTyped
  <2> QED  BY <1>3, <2>1 DEF EndScan, Typed, TypeOK, table
<1>4. CASE NextEvent(p)
  <2>1. queue' \in [Replicas -> 0..QueueCap]  BY <1>4 DEF NextEvent, Typed, TypeOK
  <2> QED  BY <1>0, <1>4, <2>1 DEF NextEvent, StartScan, Typed, TypeOK, table
<1>5. CASE Disconnect(p)  BY <1>5 DEF Disconnect, Typed, TypeOK, table
<1>6. CASE StreamEnds(p)  BY <1>6 DEF StreamEnds, Typed, TypeOK, table
<1>7. CASE Wake(p)  BY <1>7 DEF Wake, Typed, TypeOK, table
<1>8. CASE CancelShutdown(p)  BY <1>8 DEF CancelShutdown, Typed, TypeOK, table
<1>9. CASE Stop(p)  BY <1>9 DEF Stop, Typed, TypeOK, table
<1>10. CASE Restart(p)  BY <1>10 DEF Restart, Typed, TypeOK, table
<1> QED  BY <1>1, <1>2, <1>3, <1>4, <1>5, <1>6, <1>7, <1>8, <1>9, <1>10

(* Every step preserves the types.                                         *)
LEMMA TypedNext == Typed /\ [Next]_vars => Typed'
<1> SUFFICES ASSUME Typed, [Next]_vars PROVE Typed'  OBVIOUS
<1>1. CASE UNCHANGED vars  BY <1>1 DEF vars, table, tasks, Typed, TypeOK
<1>2. CASE Next  BY <1>2, TypedWrites, TypedReads, TypedTasks DEF Next
<1> QED  BY <1>1, <1>2

(* All variables keep their types: entries expire within the TTL, readers  *)
(* are where get_or_build can be, buffers stay within their capacity.      *)
THEOREM TypeCorrect == Spec => []TypeOK
<1>1. Spec => []Typed  BY TypedInit, TypedNext, PTL DEF Spec
<1> QED  BY <1>1, PTL DEF Typed

-----------------------------------------------------------------------------

(* A step of any reader keeps every archived count below what the table    *)
(* and the reader's own total have.                                        *)
LEMMA CountsNext == Typed /\ CountsKeepUp /\ [Next]_vars => CountsKeepUp'
<1> SUFFICES ASSUME Typed, CountsKeepUp, [Next]_vars, NEW r \in Readers
             PROVE  /\ reader'[r].pc = "all" =>
                         reader'[r].visible + reader'[r].was <= live' + archived'
                    /\ reader'[r].pc \in {"list", "set"} /\ reader'[r].query = "stats" =>
                         reader'[r].visible + reader'[r].was <= reader'[r].all
    BY DEF CountsKeepUp
<1>0. /\ live \in Nat /\ archived \in Nat
      /\ reader[r] \in {Idle} \cup Reader
      /\ reader[r] \in Reader =>
           reader[r].visible \in Nat /\ reader[r].was \in Nat /\ reader[r].all \in Nat
    BY DEF Typed, TypeOK, Reader
<1>1. CASE UNCHANGED <<reader, live, archived>>  BY <1>1 DEF CountsKeepUp
<1>2. CASE Write
  <2>1. live' + archived' >= live + archived  BY <1>0, <1>2 DEF Write
  <2>2. reader' = reader  BY <1>2 DEF Write
  <2>3. live' \in Nat /\ archived' \in Nat  BY <1>0, <1>2 DEF Write
  <2>4. reader[r].pc = "all" => reader[r] \in Reader  BY <1>0 DEF Idle
  <2>5. reader[r].pc = "all" => reader[r].visible + reader[r].was <= live' + archived'
    <3> HAVE reader[r].pc = "all"
    <3>1. reader[r].visible + reader[r].was \in Nat  BY <1>0, <2>4
    <3>2. reader[r].visible + reader[r].was <= live + archived  BY DEF CountsKeepUp
    <3>3. live + archived \in Nat  BY DEF Typed, TypeOK
    <3>4. live' + archived' \in Nat  BY <2>3
    <3> QED  BY <3>1, <3>2, <3>3, <3>4, <2>1
  <2> QED  BY <2>2, <2>5 DEF CountsKeepUp
<1>3. ASSUME NEW q \in Readers,
             \/ \E p \in Replicas, query \in Queries : Ask(q, p, query)
             \/ Hit(q) \/ Miss(q) \/ CountVisible(q) \/ CountAll(q)
             \/ ListRecords(q) \/ Set(q) \/ GiveUp(q),
             r # q
      PROVE  UNCHANGED <<reader[r], live, archived>>
    BY <1>3 DEF Ask, Hit, Miss, CountVisible, CountAll, ListRecords, Set, GiveUp,
                Goto, Finish, table, Typed, TypeOK
<1>4. CASE \E p \in Replicas, query \in Queries : Ask(r, p, query)
    BY <1>4 DEF Ask, Typed, TypeOK
<1>5. CASE Hit(r) \/ Set(r) \/ GiveUp(r)
    BY <1>5 DEF Hit, Set, GiveUp, Finish, Idle, Typed, TypeOK
<1>6. CASE Miss(r)
  <2>1. reader[r] \in Reader  BY <1>0, <1>6 DEF Miss, Idle
  <2>2. reader'[r] = [reader[r] EXCEPT !.pc =
          IF reader[r].query = "stats" THEN "visible" ELSE "list"]
      BY <1>6 DEF Miss, Goto, Typed, TypeOK
  <2> QED  BY <2>1, <2>2 DEF Reader
<1>7. CASE CountVisible(r)
  <2>1. reader[r] \in Reader  BY <1>0, <1>7 DEF CountVisible, Idle
  <2>2. /\ reader'[r].pc = "all" /\ reader'[r].visible = live /\ reader'[r].was = archived
        /\ live' = live /\ archived' = archived
      BY <1>7, <2>1 DEF CountVisible, table, Typed, TypeOK, Reader
  <2> QED  BY <1>0, <2>2
<1>8. CASE CountAll(r)
  <2>1. reader[r] \in Reader  BY <1>0, <1>8 DEF CountAll, Idle
  <2>2. /\ reader'[r].pc = "list" /\ reader'[r].visible = reader[r].visible
        /\ reader'[r].was = reader[r].was /\ reader'[r].all = live + archived
      BY <1>8, <2>1 DEF CountAll, Typed, TypeOK, Reader
  <2> QED  BY <1>8, <2>2 DEF CountAll, CountsKeepUp
<1>9. CASE ListRecords(r)
  <2>1. reader[r] \in Reader  BY <1>0, <1>9 DEF ListRecords, Idle
  <2>2. /\ reader'[r].pc = "set" /\ reader'[r].visible = reader[r].visible
        /\ reader'[r].was = reader[r].was /\ reader'[r].all = reader[r].all
        /\ reader'[r].query = reader[r].query
      BY <1>9, <2>1 DEF ListRecords, Typed, TypeOK, Reader
  <2> QED  BY <1>9, <2>2 DEF ListRecords, CountsKeepUp
<1>10. CASE Next
  <2>1. CASE Write  BY <2>1, <1>2
  <2>2. CASE Publish \/ LoseEvent \/ Tick
      BY <2>2, <1>1 DEF Publish, LoseEvent, Tick, table
  <2>3. ASSUME NEW p \in Replicas,
               \/ Subscribe(p) \/ Unlink(p) \/ EndScan(p) \/ NextEvent(p)
               \/ Disconnect(p) \/ StreamEnds(p) \/ Wake(p)
               \/ CancelShutdown(p) \/ Stop(p) \/ Restart(p)
        PROVE  UNCHANGED <<reader, live, archived>>
      BY <2>3 DEF Subscribe, Unlink, EndScan, NextEvent, Disconnect, StreamEnds, Wake,
                  CancelShutdown, Stop, Restart, table
  <2>4. ASSUME NEW q \in Readers,
               \/ \E p \in Replicas, query \in Queries : Ask(q, p, query)
               \/ Hit(q) \/ Miss(q) \/ CountVisible(q) \/ CountAll(q)
               \/ ListRecords(q) \/ Set(q) \/ GiveUp(q)
        PROVE  \/ UNCHANGED <<reader[r], live, archived>>
               \/ q = r
      BY <2>4, <1>3
  <2>5. CASE UNCHANGED <<reader[r], live, archived>>  BY <2>5 DEF CountsKeepUp
  <2> QED  BY <1>10, <2>1, <2>2, <2>3, <2>4, <2>5, <1>1, <1>4, <1>5, <1>6, <1>7, <1>8, <1>9
           DEF Next
<1>11. CASE UNCHANGED vars  BY <1>11, <1>1 DEF vars, table
<1> QED  BY <1>10, <1>11

(* heroes.rs:498 subtracts one unsigned count from another, made by two    *)
(* statements with writes between them: in this order it cannot wrap.      *)
THEOREM CountsNeverWrap == Spec => []ArchivedNeverUndercounts
<1>1. Init => CountsKeepUp  BY DEF Init, CountsKeepUp, Idle
<1>2. CountsKeepUp => ArchivedNeverUndercounts
    BY DEF CountsKeepUp, ArchivedNeverUndercounts
<1>3. Spec => [](Typed /\ CountsKeepUp)
    BY <1>1, TypedInit, TypedNext, CountsNext, PTL DEF Spec
<1> QED  BY <1>2, <1>3, PTL

-----------------------------------------------------------------------------

(* Why the task of p will come to key k.                                   *)
InSight(p, k) ==
  \/ unannounced > 0
  \/ queue[p] > 0
  \/ task[p] \in {"subscribe", "sleep"}
  \/ ~up[p]
  \/ k \in todo[p]

(* What a step of the writers and of time does to stale entries: a write   *)
(* makes them and is announced, a lost announcement is a miss.             *)
LEMMA SightWrites ==
  ASSUME Typed, StaleWillBeDropped, Write \/ Publish \/ LoseEvent \/ Tick,
         NEW p \in Replicas, NEW k \in Stale', task'[p] # "stopped", p \notin cache'[k].missed
  PROVE  InSight(p, k)'
<1> USE StatsCacheAssumption DEF InSight
<1>0. k \in Keys  BY DEF Stale, Cached
<1>1. CASE Write
  <2>1. unannounced' > 0  BY <1>1 DEF Write, Typed, TypeOK
  <2> QED  BY <2>1
<1>2. CASE Publish
  <2>1. CASE queue[p] > 0 \/ up[p]
    <3>1. queue'[p] = IF up[p] /\ queue[p] < QueueCap THEN queue[p] + 1 ELSE queue[p]
        BY <1>2 DEF Publish
    <3>2. queue[p] \in 0..QueueCap  BY DEF Typed, TypeOK
    <3>3. queue'[p] > 0  BY <2>1, <3>1, <3>2
    <3> QED  BY <3>3
  <2>2. CASE ~up[p]  BY <2>2, <1>2 DEF Publish
  <2> QED  BY <2>1, <2>2
<1>3. CASE LoseEvent
  <2>1. cache'[k] = IF k \in Stale THEN [cache[k] EXCEPT !.missed = @ \cup Replicas] ELSE cache[k]
      BY <1>0, <1>3 DEF LoseEvent, Missed, Stale, Cached
  <2>2. cache[k] \in {NoEntry} \cup Entry  BY <1>0 DEF Typed, TypeOK
  <2>3. k \in Stale
      BY <1>3, <2>1, <1>0 DEF LoseEvent, table, Stale, Cached
  <2>4. cache[k] \in Entry  BY <2>2, <2>3 DEF Stale, Cached
  <2>5. p \in cache'[k].missed  BY <2>1, <2>3, <2>4 DEF Entry
  <2> QED  BY <2>5
<1>4. CASE Tick
  <2>1. cache'[k] = IF cache[k] = NoEntry \/ cache[k].left = 1 THEN NoEntry
                    ELSE [cache[k] EXCEPT !.left = @ - 1]
      BY <1>0, <1>4 DEF Tick
  <2>2. cache[k] # NoEntry /\ cache'[k] = [cache[k] EXCEPT !.left = @ - 1]
      BY <2>1 DEF Stale, Cached
  <2>3. cache[k] \in Entry  BY <1>0, <2>2 DEF Typed, TypeOK
  <2>4. cache'[k].sees = cache[k].sees /\ cache'[k].missed = cache[k].missed
      BY <2>2, <2>3 DEF Entry
  <2>5. k \in Stale /\ task[p] # "stopped" /\ p \notin cache[k].missed
      BY <1>0, <1>4, <2>2, <2>4 DEF Tick, table, tasks, Stale, Cached
  <2> QED  BY <1>4, <2>5 DEF Tick, table, tasks, StaleWillBeDropped
<1> QED  BY <1>1, <1>2, <1>3, <1>4

(* Reads: what a SET stores is fresh, or counted as missed by every task.  *)
LEMMA SightReads ==
  ASSUME Typed, StaleWillBeDropped, NEW r \in Readers,
         \/ \E q \in Replicas, query \in Queries : Ask(r, q, query)
         \/ Hit(r) \/ Miss(r) \/ CountVisible(r) \/ CountAll(r)
         \/ ListRecords(r) \/ Set(r) \/ GiveUp(r),
         NEW p \in Replicas, NEW k \in Stale', task'[p] # "stopped", p \notin cache'[k].missed
  PROVE  InSight(p, k)'
<1> USE DEF InSight
<1>1. UNCHANGED <<table, unannounced, tasks>>
    BY DEF Ask, Hit, Miss, CountVisible, CountAll, ListRecords, Set, GiveUp
<1>2. CASE UNCHANGED cache
    BY <1>1, <1>2 DEF table, tasks, StaleWillBeDropped, Stale, Cached
<1>3. CASE Set(r)
  <2>1. k \in Keys  BY DEF Stale, Cached
  <2>2. CASE k = KeyOf(r)
    <3>1. cache'[k] = [sees |-> reader[r].sees, left |-> Ttl,
                       missed |-> IF reader[r].sees = writes THEN {} ELSE Replicas]
        BY <1>3, <2>1, <2>2 DEF Set, Typed, TypeOK
    <3>2. reader[r].sees # writes  BY <1>1, <3>1 DEF table, Stale
    <3> QED  BY <3>1, <3>2
  <2>3. CASE k # KeyOf(r)
    <3>1. cache'[k] = cache[k]  BY <1>3, <2>1, <2>3 DEF Set, Typed, TypeOK
    <3>2. k \in Stale  BY <1>1, <2>1, <3>1 DEF table, Stale, Cached
    <3> QED  BY <1>1, <3>1, <3>2 DEF table, tasks, StaleWillBeDropped
  <2> QED  BY <2>2, <2>3
<1> QED  BY <1>2, <1>3 DEF Ask, Hit, Miss, CountVisible, CountAll, ListRecords, GiveUp

(* A task that gives a key up has missed it; one that starts a scan has    *)
(* every key ahead of it; one that is down subscribes again.               *)
LEMMA SightTasks ==
  ASSUME Typed, StaleWillBeDropped, NEW q \in Replicas,
         \/ Subscribe(q) \/ Unlink(q) \/ EndScan(q) \/ NextEvent(q)
         \/ Disconnect(q) \/ StreamEnds(q) \/ Wake(q)
         \/ CancelShutdown(q) \/ Stop(q) \/ Restart(q),
         NEW p \in Replicas, NEW k \in Stale', task'[p] # "stopped", p \notin cache'[k].missed
  PROVE  InSight(p, k)'
<1> USE DEF InSight, StepTask, Typed, TypeOK
<1>0. k \in Keys  BY DEF Stale, Cached
<1>1. UNCHANGED <<writes, unannounced>>
    BY DEF Subscribe, Unlink, EndScan, NextEvent, Disconnect, StreamEnds, Wake,
           CancelShutdown, Stop, Restart, table
<1>2. CASE Unlink(q)
  <2>1. PICK batch \in SUBSET todo[q] \ {{}} :
          /\ cache' = [x \in Keys |-> IF x \in batch THEN NoEntry ELSE cache[x]]
          /\ todo' = [todo EXCEPT ![q] = @ \ batch]
      BY <1>2 DEF Unlink
  <2>2. k \notin batch /\ cache'[k] = cache[k]  BY <1>0, <2>1 DEF Stale, Cached
  <2>3. k \in Stale  BY <1>0, <1>1, <2>2 DEF Stale, Cached
  <2>4. task' = task  BY <1>2 DEF Unlink
  <2>5. InSight(p, k)  BY <2>2, <2>3, <2>4 DEF StaleWillBeDropped
  <2> QED  BY <1>2, <2>1, <2>2, <2>5 DEF Unlink
<1>3. CASE EndScan(q)
  <2>1. cache'[k] = IF k \in todo[q] \cap Stale
                    THEN [cache[k] EXCEPT !.missed = @ \cup {q}] ELSE cache[k]
      BY <1>0, <1>3 DEF EndScan, Missed
  <2>2. cache[k] # NoEntry  BY <2>1 DEF Stale, Cached
  <2>3. cache[k] \in Entry  BY <1>0, <2>2
  <2>4. cache'[k].sees = cache[k].sees /\ cache[k].missed \subseteq cache'[k].missed
      BY <2>1, <2>3 DEF Entry
  <2>5. k \in Stale  BY <1>0, <1>1, <2>2, <2>4 DEF Stale, Cached
  <2>6. k \in todo[q] => q # p  BY <2>1, <2>3, <2>5 DEF Entry
  <2>7. InSight(p, k)  BY <1>3, <2>4, <2>5 DEF EndScan, StaleWillBeDropped
  <2> QED  BY <1>3, <2>6, <2>7 DEF EndScan
<1>4. CASE ~Unlink(q) /\ ~EndScan(q)
  <2>1. cache' = cache /\ k \in Stale /\ k \in Cached
      BY <1>1, <1>4 DEF Subscribe, NextEvent, Disconnect, StreamEnds, Wake,
           CancelShutdown, Stop, Restart, Stale, Cached
  <2>2. CASE p # q
    <3>1. UNCHANGED <<task[p], queue[p], up[p], todo[p]>>
        BY <1>4, <2>2 DEF Subscribe, StartScan, NextEvent, Disconnect, StreamEnds, Wake,
           CancelShutdown, Stop, Restart
    <3>2. InSight(p, k)  BY <2>1, <3>1 DEF StaleWillBeDropped
    <3> QED  BY <1>1, <3>1, <3>2
  <2>3. CASE p = q
    <3>1. CASE Subscribe(q)  BY <2>1, <2>3, <3>1 DEF Subscribe, StartScan
    <3>2. CASE NextEvent(q)  BY <2>1, <2>3, <3>2 DEF NextEvent, StartScan
    <3>3. CASE Disconnect(q)  BY <2>3, <3>3 DEF Disconnect
    <3>4. CASE StreamEnds(q)  BY <2>3, <3>4 DEF StreamEnds
    <3>5. CASE Wake(q)  BY <2>3, <3>5 DEF Wake
    <3>6. CASE CancelShutdown(q)
        BY <2>1, <3>6 DEF CancelShutdown, StaleWillBeDropped
    <3>7. CASE Stop(q)  BY <2>3, <3>7 DEF Stop
    <3>8. CASE Restart(q)  BY <2>3, <3>8 DEF Restart
    <3> QED  BY <1>4, <3>1, <3>2, <3>3, <3>4, <3>5, <3>6, <3>7, <3>8
  <2> QED  BY <2>2, <2>3
<1> QED  BY <1>2, <1>3, <1>4

(* cache.rs:219-248: subscribing before the first invalidation, one        *)
(* invalidation on every subscription and one on every event leave no gap, *)
(* whatever the number of replicas and the size of a buffer.               *)
THEOREM NothingStaleIsForgotten == Spec => []StaleWillBeDropped
<1>1. Init => StaleWillBeDropped  BY DEF Init, StaleWillBeDropped, Stale, Cached
<1>2. Typed /\ StaleWillBeDropped /\ [Next]_vars => StaleWillBeDropped'
  <2> SUFFICES ASSUME Typed, StaleWillBeDropped, [Next]_vars PROVE StaleWillBeDropped'
      OBVIOUS
  <2>1. CASE UNCHANGED vars
      BY <2>1 DEF vars, table, tasks, StaleWillBeDropped, Stale, Cached
  <2>2. CASE Next
    <3> SUFFICES ASSUME NEW p \in Replicas, NEW k \in Stale', task'[p] # "stopped",
                        p \notin cache'[k].missed
                 PROVE  InSight(p, k)'
        BY DEF StaleWillBeDropped, InSight
    <3> QED  BY <2>2, SightWrites, SightReads, SightTasks DEF Next
  <2> QED  BY <2>1, <2>2
<1>3. Spec => [](Typed /\ StaleWillBeDropped)
    BY <1>1, <1>2, TypedInit, TypedNext, PTL DEF Spec
<1> QED  BY <1>3, PTL
=============================================================================
