------------------------------ MODULE HeroMemory -------------------------------
(***************************************************************************)
(* HeroMemoryRepository, the store of mock mode: a map behind one mutex    *)
(* and the id counter behind another, called from the threads of the       *)
(* runtime.  What happens under the map's lock is one step.  A creation    *)
(* reads the clock before it takes a lock, and holds the counter's lock    *)
(* until its record is in the map.                                         *)
(***************************************************************************)
EXTENDS HeroViews, FiniteSets

CONSTANTS
  Threads,     (* the callers                                              *)
  MaxId,       (* bound on the records                                     *)
  Subjects,    (* `sub` claims of the callers                              *)
  Absent,      (* what the map holds under an id that has no record        *)
  Nobody       (* the holder of a free lock                                *)

Ids == 1..MaxId

(* archived is 0 where archived_at is None.                                *)
Row == [owner: Subjects, value: Content, created: Nat, updated: Nat, archived: Nat]

ASSUME MemoryAssumption == MaxId \in Nat /\ Nobody \notin Threads

(* An empty place of the map is no record, nor what a reader sees of one.  *)
ASSUME AbsentAssumption ==
  /\ Absent \notin Row
  /\ Absent \notin [owner: Subjects, value: Content, updated: Nat, live: BOOLEAN]

Kinds == {"create", "update", "update_many", "delete", "delete_many"}

(* A call: the id of a write by id, the caller, what is written, and the   *)
(* power levels a bulk filter asks for.                                    *)
Call == [kind: Kinds, id: 0..MaxId, owner: Subjects, data: Content, filter: SUBSET Int]

VARIABLES
  records,     (* the map                                                  *)
  nextId,      (* the counter                                              *)
  counting,    (* who holds the counter's lock                             *)
  clock,       (* the wall clock; two readings of it differ                *)
  at,          (* where each thread is                                     *)
  call,        (* what it was called for                                   *)
  stamp,       (* the reading a creation took                              *)
  hits         (* the ids a call returned                                  *)

store == <<records, nextId, counting, clock, at, call, stamp, hits>>

NoCall ==
  [kind |-> "update", id |-> 0, owner |-> CHOOSE s \in Subjects : TRUE,
   data |-> Contents(Null, Null, Null), filter |-> {}]

MemoryTypeOK ==
  /\ records \in [Ids -> {Absent} \cup Row]
  /\ nextId \in 1 .. MaxId + 1
  /\ counting \in Threads \cup {Nobody}
  /\ clock \in Nat \ {0}
  /\ at \in [Threads -> {"idle", "called", "stamped", "counted", "returned"}]
  /\ call \in [Threads -> Call]
  /\ stamp \in [Threads -> Nat]
  /\ hits \in [Threads -> SUBSET Ids]

MemoryInit ==
  /\ records = [i \in Ids |-> Absent]
  /\ nextId = 1 /\ counting = Nobody /\ clock = 1
  /\ at = [t \in Threads |-> "idle"]
  /\ call = [t \in Threads |-> NoCall]
  /\ stamp = [t \in Threads |-> 0]
  /\ hits = [t \in Threads |-> {}]

-----------------------------------------------------------------------------
Creating == {t \in Threads : at[t] \in {"called", "stamped"} /\ call[t].kind = "create"}

(* MaxId bounds the creations of the model.                                *)
Begin(t, c) ==
  /\ at[t] = "idle"
  /\ c.kind = "create" => nextId + Cardinality(Creating) <= MaxId
  /\ at' = [at EXCEPT ![t] = "called"]
  /\ call' = [call EXCEPT ![t] = c]
  /\ UNCHANGED <<records, nextId, counting, clock, stamp, hits>>

(* create: Utc::now(), before any lock.                                    *)
ReadClock(t) ==
  /\ at[t] = "called" /\ call[t].kind = "create"
  /\ at' = [at EXCEPT ![t] = "stamped"]
  /\ stamp' = [stamp EXCEPT ![t] = clock]
  /\ clock' = clock + 1
  /\ UNCHANGED <<records, nextId, counting, call, hits>>

(* Variant of TakeId: the lock is gone before the record is in the map.    *)
TakeIdOnly(t) ==
  /\ at[t] = "stamped" /\ counting = Nobody
  /\ at' = [at EXCEPT ![t] = "counted"]
  /\ hits' = [hits EXCEPT ![t] = {nextId}]
  /\ nextId' = nextId + 1
  /\ UNCHANGED <<records, counting, clock, call, stamp>>

(* create: the id, under the counter's lock.                               *)
TakeId(t) ==
  /\ at[t] = "stamped" /\ counting = Nobody
  /\ at' = [at EXCEPT ![t] = "counted"]
  /\ counting' = t
  /\ hits' = [hits EXCEPT ![t] = {nextId}]
  /\ nextId' = nextId + 1
  /\ UNCHANGED <<records, clock, call, stamp>>

Created(t) ==
  [owner |-> call[t].owner, value |-> call[t].data,
   created |-> stamp[t], updated |-> stamp[t], archived |-> 0]

(* create: the record, under the map's lock; then both locks are freed.    *)
Insert(t) ==
  /\ at[t] = "counted"
  /\ records' = [i \in Ids |-> IF i \in hits[t] THEN Created(t) ELSE records[i]]
  /\ counting' = Nobody
  /\ at' = [at EXCEPT ![t] = "returned"]
  /\ UNCHANGED <<nextId, clock, call, stamp, hits>>

Live(i) == records[i] # Absent /\ records[i].archived = 0

ById(c) == c.kind \in {"update", "delete"}

(* Variant of Hits: the bulk writes forget who asks.                       *)
HitsOfAll(c) ==
  {i \in Ids : Live(i) /\ IF ById(c) THEN i = c.id /\ records[i].owner = c.owner
                                     ELSE records[i].value.level \in c.filter}

(* By id the owner is compared; a bulk filter holds an owner clause, which *)
(* resolve_update and resolve_delete add.                                  *)
Hits(c) ==
  {i \in Ids :
     /\ Live(i) /\ records[i].owner = c.owner
     /\ IF ById(c) THEN i = c.id ELSE records[i].value.level \in c.filter}

(* How many readings before that of record i a pass over S took.           *)
Before(S, i) == Cardinality({j \in S : j < i})

(* apply_update reads the clock once for each record, delete once for each *)
(* of its two stamps, and delete_many once for all.                        *)
Stamped(c, S, i) ==
  CASE c.kind \in {"update", "update_many"} ->
         [records[i] EXCEPT !.value = ApplyUpdate(records[i].value, c.data),
                            !.updated = clock + Before(S, i)]
    [] c.kind = "delete" -> [records[i] EXCEPT !.archived = clock, !.updated = clock + 1]
    [] c.kind = "delete_many" -> [records[i] EXCEPT !.archived = clock, !.updated = clock]

(* Variant of Write: the stamp is the thread's last reading.               *)
WriteStampedEarly(t) ==
  /\ at[t] = "called" /\ call[t].kind # "create"
  /\ LET S == Hits(call[t])
     IN  /\ records' = [i \in Ids |-> IF i \in S
                          THEN [Stamped(call[t], S, i) EXCEPT !.updated = stamp[t]]
                          ELSE records[i]]
         /\ clock' = clock + 2 + Cardinality(S)
         /\ hits' = [hits EXCEPT ![t] = S]
  /\ at' = [at EXCEPT ![t] = "returned"]
  /\ UNCHANGED <<nextId, counting, call, stamp>>

(* update, update_many, delete, delete_many: one hold of the map's lock.   *)
Write(t) ==
  /\ at[t] = "called" /\ call[t].kind # "create"
  /\ LET S == Hits(call[t])
     IN  /\ records' = [i \in Ids |-> IF i \in S THEN Stamped(call[t], S, i) ELSE records[i]]
         /\ clock' = clock + (IF S = {} THEN 0 ELSE 1 + Cardinality(S))
         /\ hits' = [hits EXCEPT ![t] = S]
  /\ at' = [at EXCEPT ![t] = "returned"]
  /\ UNCHANGED <<nextId, counting, call, stamp>>

(* What the thread held is gone.                                           *)
Return(t) ==
  /\ at[t] = "returned"
  /\ at' = [at EXCEPT ![t] = "idle"]
  /\ call' = [call EXCEPT ![t] = NoCall]
  /\ stamp' = [stamp EXCEPT ![t] = 0]
  /\ hits' = [hits EXCEPT ![t] = {}]
  /\ UNCHANGED <<records, nextId, counting, clock>>

Work(t) == ReadClock(t) \/ TakeId(t) \/ Insert(t) \/ Write(t)

-----------------------------------------------------------------------------
(* Properties.                                                             *)

(* The map never shows a record while one with a smaller id is still on    *)
(* its way in, so a client that pages by id misses none: the counter's     *)
(* lock is held across both steps of a creation.                           *)
IdsHaveNoGaps ==
  \A i, j \in Ids : records[i] # Absent /\ j < i => records[j] # Absent

(* A record's updated_at never goes back, and no version of it has the     *)
(* stamp of another: unlike the handlers over PostgreSQL, the clock is     *)
(* read under the lock that orders the writes.                             *)
StampsFollowCommits ==
  [][\A i \in Ids : records[i] # Absent /\ records'[i] # records[i] =>
       records'[i].updated > records[i].updated]_store

(* What the store shows of a record, see HeroStore.                        *)
Shown(row) ==
  IF row = Absent THEN Absent
  ELSE [owner |-> row.owner, value |-> row.value, updated |-> row.updated,
        live |-> row.archived = 0]

Store == INSTANCE HeroStore WITH
  heroes <- [i \in Ids |-> Shown(records[i])], announced <- {}, Values <- Content

(* The store of mock mode keeps the promises the handlers over PostgreSQL  *)
(* keep: fresh ids, changes by the owner only, nothing after archiving.    *)
ImplementsStore == Store!Spec
=============================================================================
