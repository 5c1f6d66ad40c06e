--------------------------- MODULE HeroMemoryProofs ---------------------------
(***************************************************************************)
(* The store of mock mode under any calls of any threads: its ids have no  *)
(* gaps, its stamps follow its commits, and it implements HeroStore.  Then *)
(* the people and programs that edit it: what they save is whole, and      *)
(* what they are shown may be sent back.                                   *)
(***************************************************************************)
EXTENDS HeroEditors, RecursionLemmas

(* Any thread may make any call.                                           *)
MemoryNext ==
  \E t \in Threads : (\E c \in Call : Begin(t, c)) \/ Work(t) \/ Return(t)

MemorySpec == MemoryInit /\ [][MemoryNext]_store

-----------------------------------------------------------------------------
(* Types.  A thread that is not at work holds no call; the ids of a call   *)
(* are numbers, which is all the argument needs of them.                   *)
AtWork == {"called", "stamped", "counted"}

MemoryTyped ==
  /\ records \in [Ids -> {Absent} \cup Row]
  /\ nextId \in Nat \ {0}
  /\ counting \in Threads \cup {Nobody}
  /\ clock \in Nat \ {0}
  /\ at \in [Threads -> {"idle", "returned"} \cup AtWork]
  /\ call \in [Threads -> {NoCall} \cup Call]
  /\ \A t \in Threads : at[t] \in AtWork => call[t] \in Call
  /\ stamp \in [Threads -> Nat]
  /\ hits \in [Threads -> SUBSET Nat]

(* The bound is a number; kept apart from the other assumptions.           *)
LEMMA Bound == MaxId \in Nat /\ Nobody \notin Threads
  BY Zenon, MemoryAssumption

(* An empty place is neither a record nor what is shown of one.            *)
LEMMA NoRow ==
  /\ Absent \notin Row
  /\ Absent \notin [owner: Subjects, value: Content, updated: Nat, live: BOOLEAN]
  BY Zenon, AbsentAssumption

(* An update of a content is a content: a field that is None stays as it   *)
(* was.                                                                    *)
LEMMA UpdateTyped ==
  ASSUME NEW c \in Content, NEW u \in Content PROVE ApplyUpdate(c, u) \in Content
<1> DEFINE F(f) == IF u[f] = Null THEN c[f] ELSE u[f]
<1>1. DOMAIN c = {"name", "powers", "level"}  BY DEF Content
<1>2. F("name") \in Text \cup {Null}  BY DEF Content
<1>3. F("powers") \in Seq(Text) \cup {Null}  BY DEF Content
<1>4. F("level") \in Levels  BY DEF Content
<1>5. ApplyUpdate(c, u) = [name |-> F("name"), powers |-> F("powers"), level |-> F("level")]
    BY <1>1 DEF ApplyUpdate
<1> HIDE DEF F
<1> QED  BY <1>2, <1>3, <1>4, <1>5 DEF Content

(* The records of a call are finitely many.                                *)
LEMMA Finitely ==
  ASSUME NEW S \in SUBSET Ids
  PROVE  /\ IsFiniteSet(S) /\ Cardinality(S) \in Nat
         /\ \A i \in S : /\ Before(S, i) \in Nat /\ Before(S, i) < Cardinality(S)
<1>1. IsFiniteSet(Ids)  BY Bound, FS_Interval DEF Ids
<1>2. IsFiniteSet(S) /\ Cardinality(S) \in Nat
    BY <1>1, FS_Subset, FS_CardinalityType
<1>3. ASSUME NEW i \in S PROVE Before(S, i) \in Nat /\ Before(S, i) < Cardinality(S)
  <2> DEFINE B == {j \in S : j < i}
  <2>1. i \in Int  BY <1>3 DEF Ids
  <2>2. i \notin B /\ B \cup {i} \subseteq S  BY <2>1
  <2>3. IsFiniteSet(B) /\ Cardinality(B) \in Nat  BY <1>2, FS_Subset, FS_CardinalityType
  <2>4. Cardinality(B \cup {i}) = Cardinality(B) + 1  BY <2>2, <2>3, FS_AddElement
  <2>5. Cardinality(B \cup {i}) <= Cardinality(S)  BY <1>2, <2>2, FS_Subset
  <2>6. Before(S, i) = Cardinality(B)  BY DEF Before
  <2> HIDE DEF B
  <2> QED  BY <1>2, <2>3, <2>4, <2>5, <2>6
<1> QED  BY <1>2, <1>3

(* What a creation inserts is a record.                                    *)
LEMMA CreatedTyped ==
  ASSUME MemoryTyped, NEW t \in Threads, at[t] = "counted" PROVE Created(t) \in Row
<1>1. call[t] \in Call /\ stamp[t] \in Nat  BY DEF MemoryTyped, AtWork
<1>2. call[t].owner \in Subjects /\ call[t].data \in Content  BY <1>1 DEF Call
<1> QED  BY <1>1, <1>2 DEF Created, Row

(* What a write leaves is a record of the same owner, stamped no earlier   *)
(* than the call and before the clock it leaves.                           *)
LEMMA StampedTyped ==
  ASSUME MemoryTyped, NEW c \in Call, c.kind # "create", NEW i \in Hits(c)
  PROVE  LET row == Stamped(c, Hits(c), i)
         IN  /\ row \in Row /\ row.owner = records[i].owner
             /\ clock <= row.updated /\ row.updated < clock + 1 + Cardinality(Hits(c))
<1> DEFINE S == Hits(c)
<1>1. S \in SUBSET Ids /\ i \in S  BY DEF Hits
<1>2. /\ Before(S, i) \in Nat /\ Before(S, i) < Cardinality(S) /\ Cardinality(S) \in Nat
    BY <1>1, Finitely
<1>3. records[i] \in Row
  <2>1. records[i] # Absent  BY DEF Hits, Live
  <2> QED  BY <1>1, <2>1 DEF MemoryTyped
<1>4. clock \in Nat  BY DEF MemoryTyped
<1>5. records[i].value \in Content /\ c.data \in Content  BY <1>3 DEF Row, Call
<1>6. ApplyUpdate(records[i].value, c.data) \in Content  BY <1>5, UpdateTyped
<1>7. CASE c.kind \in {"update", "update_many"}
  <2>1. Stamped(c, S, i) = [[records[i] EXCEPT !.value = ApplyUpdate(records[i].value, c.data)]
                              EXCEPT !.updated = clock + Before(S, i)]
      BY <1>3, <1>7 DEF Stamped, Row
  <2>2. clock + Before(S, i) \in Nat /\ clock <= clock + Before(S, i)
        /\ clock + Before(S, i) < clock + 1 + Cardinality(S)
      BY <1>2, <1>4
  <2> HIDE DEF S
  <2> QED  BY <1>3, <1>6, <2>1, <2>2 DEF Row, S
<1>8. CASE c.kind = "delete"
  <2>1. Stamped(c, S, i) = [[records[i] EXCEPT !.archived = clock] EXCEPT !.updated = clock + 1]
      BY <1>3, <1>8 DEF Stamped, Row
  <2>2. clock + 1 \in Nat /\ clock <= clock + 1 /\ clock + 1 < clock + 1 + Cardinality(S)
      BY <1>2, <1>4
  <2> HIDE DEF S
  <2> QED  BY <1>3, <1>4, <2>1, <2>2 DEF Row, S
<1>9. CASE c.kind = "delete_many"
  <2>1. Stamped(c, S, i) = [[records[i] EXCEPT !.archived = clock] EXCEPT !.updated = clock]
      BY <1>3, <1>9 DEF Stamped, Row
  <2>2. clock <= clock /\ clock < clock + 1 + Cardinality(S)
      BY <1>2, <1>4
  <2> HIDE DEF S
  <2> QED  BY <1>3, <1>4, <2>1, <2>2 DEF Row, S
<1> QED  BY <1>7, <1>8, <1>9 DEF Call, Kinds

(* Every step keeps the types.                                             *)
LEMMA TypedStep == MemoryTyped /\ [MemoryNext]_store => MemoryTyped'
<1> SUFFICES ASSUME MemoryTyped, [MemoryNext]_store PROVE MemoryTyped'  OBVIOUS
<1>1. CASE UNCHANGED store  BY <1>1 DEF store, MemoryTyped
<1>2. ASSUME NEW t \in Threads, NEW c \in Call, Begin(t, c) PROVE MemoryTyped'
    BY <1>2 DEF Begin, MemoryTyped, AtWork
<1>3. ASSUME NEW t \in Threads, ReadClock(t) PROVE MemoryTyped'
  <2>1. clock' \in Nat \ {0} /\ clock \in Nat  BY <1>3 DEF ReadClock, MemoryTyped
  <2> QED  BY <1>3, <2>1 DEF ReadClock, MemoryTyped, AtWork
<1>4. ASSUME NEW t \in Threads, TakeId(t) PROVE MemoryTyped'
  <2>1. nextId' \in Nat \ {0} /\ {nextId} \in SUBSET Nat  BY <1>4 DEF TakeId, MemoryTyped
  <2> QED  BY <1>4, <2>1 DEF TakeId, MemoryTyped, AtWork
<1>5. ASSUME NEW t \in Threads, Insert(t) PROVE MemoryTyped'
  <2>1. Created(t) \in Row  BY <1>5, CreatedTyped DEF Insert
  <2>2. records' \in [Ids -> {Absent} \cup Row]  BY <1>5, <2>1 DEF Insert, MemoryTyped
  <2> QED  BY <1>5, <2>2 DEF Insert, MemoryTyped, AtWork
<1>6. ASSUME NEW t \in Threads, Write(t) PROVE MemoryTyped'
  <2> DEFINE S == Hits(call[t])
  <2>1. call[t] \in Call /\ call[t].kind # "create"  BY <1>6 DEF Write, MemoryTyped, AtWork
  <2>2. \A i \in S : Stamped(call[t], S, i) \in Row  BY <2>1, StampedTyped
  <2>3. S \in SUBSET Ids  BY DEF Hits
  <2>4. Cardinality(S) \in Nat  BY <2>3, Finitely
  <2>5. /\ records' = [i \in Ids |-> IF i \in S THEN Stamped(call[t], S, i) ELSE records[i]]
        /\ clock' = clock + (IF S = {} THEN 0 ELSE 1 + Cardinality(S))
        /\ hits' = [hits EXCEPT ![t] = S]
      BY <1>6 DEF Write
  <2>6. S \in SUBSET Nat  BY <2>3 DEF Ids
  <2> HIDE DEF S
  <2>7. records' \in [Ids -> {Absent} \cup Row]  BY <2>2, <2>5 DEF MemoryTyped
  <2>8. clock' \in Nat \ {0}
    <3>1. clock \in Nat \ {0}  BY DEF MemoryTyped
    <3> QED  BY <2>4, <2>5, <3>1
  <2>9. hits' \in [Threads -> SUBSET Nat]  BY <2>5, <2>6 DEF MemoryTyped
  <2> QED  BY <1>6, <2>7, <2>8, <2>9 DEF Write, MemoryTyped, AtWork
<1>7. ASSUME NEW t \in Threads, Return(t) PROVE MemoryTyped'
    BY <1>7 DEF Return, MemoryTyped, AtWork
<1> QED  BY <1>1, <1>2, <1>3, <1>4, <1>5, <1>6, <1>7 DEF MemoryNext, Work

(* The empty store is typed.                                               *)
LEMMA TypedInit == MemoryInit => MemoryTyped
  BY DEF MemoryInit, MemoryTyped, AtWork

-----------------------------------------------------------------------------
(* Ids.                                                                    *)

(* The records are those with the ids handed out, but for the one of the   *)
(* creation that holds the counter's lock.                                 *)
Handed == IF counting = Nobody THEN nextId ELSE nextId - 1

Gapless ==
  /\ \A t \in Threads : at[t] = "counted" <=> counting = t
  /\ \A t \in Threads : at[t] = "counted" => hits[t] = {nextId - 1}
  /\ \A i \in Ids : records[i] # Absent <=> i < Handed

(* A thread that takes or frees no lock and makes no record.               *)
LEMMA GaplessElsewhere ==
  ASSUME MemoryTyped, Gapless, NEW t \in Threads, at[t] # "counted", at'[t] # "counted",
         UNCHANGED <<nextId, counting>>,
         \A s \in Threads \ {t} : at'[s] = at[s] /\ hits'[s] = hits[s],
         \A i \in Ids : records'[i] = Absent <=> records[i] = Absent
  PROVE  Gapless'
  BY DEF Gapless, Handed

(* Every step keeps the ids below the counter filled.                      *)
LEMMA GaplessStep == MemoryTyped /\ Gapless /\ [MemoryNext]_store => Gapless'
<1> SUFFICES ASSUME MemoryTyped, Gapless, [MemoryNext]_store PROVE Gapless'  OBVIOUS
<1>0. nextId \in Nat \ {0} /\ \A i \in Ids : i \in Int  BY DEF MemoryTyped, Ids
<1>1. CASE UNCHANGED store  BY <1>1 DEF store, Gapless, Handed
<1>2. ASSUME NEW t \in Threads, NEW c \in Call, Begin(t, c) PROVE Gapless'
    BY <1>2, GaplessElsewhere DEF Begin, MemoryTyped
<1>3. ASSUME NEW t \in Threads, ReadClock(t) PROVE Gapless'
    BY <1>3, GaplessElsewhere DEF ReadClock, MemoryTyped
<1>4. ASSUME NEW t \in Threads, TakeId(t) PROVE Gapless'
  <2>1. counting = Nobody /\ counting' = t /\ t # Nobody /\ nextId' = nextId + 1
      BY <1>4, Bound DEF TakeId
  <2>2. Handed' = Handed  BY <1>0, <2>1 DEF Handed
  <2>3. \A s \in Threads : at'[s] = "counted" <=> s = t
      BY <1>4, <2>1, Bound DEF TakeId, Gapless, MemoryTyped
  <2>4. hits'[t] = {nextId' - 1}
    <3>1. nextId' - 1 = nextId  BY <1>0, <2>1
    <3> QED  BY <1>4, <3>1 DEF TakeId, MemoryTyped
  <2>5. records' = records  BY <1>4 DEF TakeId
  <2> QED  BY <2>1, <2>2, <2>3, <2>4, <2>5 DEF Gapless
<1>5. ASSUME NEW t \in Threads, Insert(t) PROVE Gapless'
  <2>1. counting = t /\ t # Nobody /\ hits[t] = {nextId - 1} /\ counting' = Nobody
        /\ nextId' = nextId
      BY <1>5, Bound DEF Insert, Gapless
  <2>2. Handed = nextId - 1 /\ Handed' = nextId  BY <2>1 DEF Handed
  <2>3. \A s \in Threads : at'[s] # "counted" /\ counting' # s
      BY <1>5, <2>1, Bound DEF Insert, Gapless, MemoryTyped
  <2>4. Created(t) # Absent
      BY <1>5, CreatedTyped, NoRow DEF Insert
  <2>5. ASSUME NEW i \in Ids PROVE records'[i] # Absent <=> i < Handed'
    <3>1. records'[i] = IF i = nextId - 1 THEN Created(t) ELSE records[i]
        BY <1>5, <2>1 DEF Insert
    <3>2. records[i] # Absent <=> i < nextId - 1  BY <2>2 DEF Gapless
    <3>3. i < nextId <=> i < nextId - 1 \/ i = nextId - 1  BY <1>0
    <3> QED  BY <2>2, <2>4, <3>1, <3>2, <3>3
  <2> QED  BY <2>3, <2>5 DEF Gapless
<1>6. ASSUME NEW t \in Threads, Write(t) PROVE Gapless'
  <2>1. call[t] \in Call /\ call[t].kind # "create"  BY <1>6 DEF Write, MemoryTyped, AtWork
  <2>2. \A i \in Hits(call[t]) : records[i] # Absent /\ Stamped(call[t], Hits(call[t]), i) # Absent
      BY <2>1, StampedTyped, NoRow DEF Hits, Live
  <2>3. \A i \in Ids : records'[i] = Absent <=> records[i] = Absent
      BY <1>6, <2>2 DEF Write
  <2> QED  BY <1>6, <2>3, GaplessElsewhere DEF Write, MemoryTyped
<1>7. ASSUME NEW t \in Threads, Return(t) PROVE Gapless'
    BY <1>7, GaplessElsewhere DEF Return, MemoryTyped
<1> QED  BY <1>1, <1>2, <1>3, <1>4, <1>5, <1>6, <1>7 DEF MemoryNext, Work

(* The ids of the map have no gaps: the counter's lock is held until the   *)
(* record is there, so no later creation overtakes it.                     *)
THEOREM NoGaps == MemorySpec => []IdsHaveNoGaps
<1>1. MemoryInit => Gapless
  <2> SUFFICES ASSUME MemoryInit PROVE Gapless  OBVIOUS
  <2>1. \A i \in Ids : records[i] = Absent /\ ~(i < 1)  BY DEF MemoryInit, Ids
  <2>2. \A t \in Threads : at[t] = "idle" /\ counting # t  BY Bound DEF MemoryInit
  <2> QED  BY <2>1, <2>2 DEF MemoryInit, Gapless, Handed
<1>2. MemoryTyped /\ Gapless => IdsHaveNoGaps
  <2> SUFFICES ASSUME MemoryTyped, Gapless, NEW i \in Ids, NEW j \in Ids,
                      records[i] # Absent, j < i
               PROVE  records[j] # Absent
      BY DEF IdsHaveNoGaps
  <2>1. Handed \in Int  BY DEF Handed, MemoryTyped
  <2>2. i < Handed /\ i \in Int /\ j \in Int  BY DEF Gapless, Ids
  <2>3. j < Handed  BY <2>1, <2>2
  <2> QED  BY <2>3 DEF Gapless
<1> QED  BY <1>1, <1>2, TypedInit, TypedStep, GaplessStep, PTL DEF MemorySpec

-----------------------------------------------------------------------------
(* Stamps.                                                                 *)

(* Every stamp there is was read from the clock before now.                *)
Past ==
  /\ \A i \in Ids : records[i] # Absent => records[i].updated < clock
  /\ \A t \in Threads : at[t] \in {"stamped", "counted"} => stamp[t] < clock

(* A version of a record after a step is newer than the one before.        *)
Newer ==
  \A i \in Ids : records[i] # Absent /\ records'[i] # records[i] =>
    records'[i].updated > records[i].updated

(* A step that makes no version and takes no stamp.                        *)
LEMMA PastElsewhere ==
  ASSUME MemoryTyped, Past, UNCHANGED <<records, clock>>,
         \A t \in Threads : at'[t] \in {"stamped", "counted"} =>
           at[t] \in {"stamped", "counted"} /\ stamp'[t] = stamp[t]
  PROVE  Past' /\ Newer
  BY DEF Past, Newer

(* Every step keeps stamps behind the clock and makes newer versions.      *)
LEMMA PastStep == MemoryTyped /\ Gapless /\ Past /\ [MemoryNext]_store => Past' /\ Newer
<1> SUFFICES ASSUME MemoryTyped, Gapless, Past, [MemoryNext]_store PROVE Past' /\ Newer
    OBVIOUS
<1>0. clock \in Nat  BY DEF MemoryTyped
<1>a. \A i \in Ids : records[i] # Absent => records[i].updated \in Nat
    BY DEF MemoryTyped, Row
<1>1. CASE UNCHANGED store  BY <1>1, PastElsewhere DEF store
<1>2. ASSUME NEW t \in Threads, NEW c \in Call, Begin(t, c) PROVE Past' /\ Newer
    BY <1>2, PastElsewhere DEF Begin, MemoryTyped
<1>3. ASSUME NEW t \in Threads, ReadClock(t) PROVE Past' /\ Newer
  <2>1. /\ records' = records /\ clock' = clock + 1
        /\ stamp' = [stamp EXCEPT ![t] = clock] /\ at' = [at EXCEPT ![t] = "stamped"]
      BY <1>3 DEF ReadClock
  <2>2. \A i \in Ids : records'[i] # Absent => records'[i].updated < clock'
      BY <1>0, <1>a, <2>1 DEF Past
  <2>3. ASSUME NEW s \in Threads, at'[s] \in {"stamped", "counted"}
        PROVE  stamp'[s] < clock'
    <3>1. stamp[s] \in Nat  BY DEF MemoryTyped
    <3>2. CASE s = t
      <4>1. stamp'[s] = clock  BY <2>1, <3>2 DEF MemoryTyped
      <4> QED  BY <1>0, <2>1, <4>1
    <3>3. CASE s # t
      <4>1. stamp'[s] = stamp[s] /\ stamp[s] < clock  BY <2>1, <2>3, <3>3 DEF MemoryTyped, Past
      <4> QED  BY <1>0, <2>1, <3>1, <4>1
    <3> QED  BY <3>2, <3>3
  <2> QED  BY <2>1, <2>2, <2>3 DEF Past, Newer
<1>4. ASSUME NEW t \in Threads, TakeId(t) PROVE Past' /\ Newer
    BY <1>4, PastElsewhere DEF TakeId, MemoryTyped
<1>5. ASSUME NEW t \in Threads, Insert(t) PROVE Past' /\ Newer
  <2>1. /\ records' = [i \in Ids |-> IF i \in hits[t] THEN Created(t) ELSE records[i]]
        /\ UNCHANGED <<clock, stamp>> /\ at' = [at EXCEPT ![t] = "returned"]
      BY <1>5 DEF Insert
  <2>2. Created(t).updated = stamp[t] /\ stamp[t] < clock  BY <1>5 DEF Created, Insert, Past
  <2>3. \A i \in Ids : i \in hits[t] => records[i] = Absent
    <3>1. hits[t] = {nextId - 1} /\ counting = t /\ t # Nobody
        BY <1>5, Bound DEF Insert, Gapless
    <3>2. nextId \in Nat  BY DEF MemoryTyped
    <3>3. ~(nextId - 1 < Handed)  BY <3>1, <3>2 DEF Handed
    <3> QED  BY <3>1, <3>3 DEF Gapless
  <2>4. Newer  BY <2>1, <2>3 DEF Newer
  <2>5. Past'  BY <2>1, <2>2 DEF Past, MemoryTyped
  <2> QED  BY <2>4, <2>5
<1>6. ASSUME NEW t \in Threads, Write(t) PROVE Past' /\ Newer
  <2> DEFINE S == Hits(call[t])
             new(i) == Stamped(call[t], S, i)
  <2>1. call[t] \in Call /\ call[t].kind # "create"  BY <1>6 DEF Write, MemoryTyped, AtWork
  <2>2. Cardinality(S) \in Nat /\ S \subseteq Ids  BY Finitely DEF Hits
  <2>3. \A i \in S : /\ new(i) \in Row /\ clock <= new(i).updated
                     /\ new(i).updated < clock + 1 + Cardinality(S)
      BY <2>1, StampedTyped
  <2>4. \A i \in S : new(i).updated \in Nat  BY <2>3 DEF Row
  <2>5. /\ records' = [i \in Ids |-> IF i \in S THEN new(i) ELSE records[i]]
        /\ clock' = clock + (IF S = {} THEN 0 ELSE 1 + Cardinality(S))
        /\ at' = [at EXCEPT ![t] = "returned"] /\ UNCHANGED stamp
      BY <1>6 DEF Write
  <2> HIDE DEF S, new
  <2>6. clock <= clock' /\ clock' \in Nat
        /\ (S # {} => clock' = clock + 1 + Cardinality(S))
      BY <1>0, <2>2, <2>5
  <2>7. ASSUME NEW i \in Ids, records'[i] # Absent PROVE records'[i].updated < clock'
    <3>1. CASE i \in S
      <4>1. records'[i] = new(i) /\ S # {}  BY <2>5, <3>1
      <4> QED  BY <2>3, <2>6, <3>1, <4>1
    <3>2. CASE i \notin S
      <4>1. records'[i] = records[i]  BY <2>5, <3>2
      <4>2. records[i].updated < clock /\ records[i].updated \in Nat
          BY <1>a, <2>7, <4>1 DEF Past
      <4> QED  BY <1>0, <2>6, <4>1, <4>2
    <3> QED  BY <3>1, <3>2
  <2>8. ASSUME NEW s \in Threads, at'[s] \in {"stamped", "counted"}
        PROVE  stamp'[s] < clock'
    <3>1. at[s] \in {"stamped", "counted"} /\ stamp'[s] = stamp[s]
        BY <2>5, <2>8 DEF MemoryTyped
    <3>2. stamp[s] < clock /\ stamp[s] \in Nat  BY <3>1 DEF Past, MemoryTyped
    <3> QED  BY <1>0, <2>6, <3>1, <3>2
  <2>9. ASSUME NEW i \in Ids, records[i] # Absent, records'[i] # records[i]
        PROVE  records'[i].updated > records[i].updated
    <3>1. i \in S /\ records'[i] = new(i)  BY <2>5, <2>9
    <3>2. records[i].updated < clock /\ records[i].updated \in Nat
        BY <1>a, <2>9 DEF Past
    <3>3. clock <= new(i).updated /\ new(i).updated \in Nat  BY <2>3, <2>4, <3>1
    <3>4. records[i].updated < new(i).updated  BY <1>0, <3>2, <3>3
    <3> QED  BY <3>1, <3>2, <3>3, <3>4
  <2> QED  BY <2>7, <2>8, <2>9 DEF Past, Newer
<1>7. ASSUME NEW t \in Threads, Return(t) PROVE Past' /\ Newer
    BY <1>7, PastElsewhere DEF Return, MemoryTyped
<1> QED  BY <1>1, <1>2, <1>3, <1>4, <1>5, <1>6, <1>7 DEF MemoryNext, Work

(* The empty store has neither gaps nor stamps.                            *)
LEMMA PastInit == MemoryInit => Gapless /\ Past
<1> SUFFICES ASSUME MemoryInit PROVE Gapless /\ Past  OBVIOUS
<1>1. \A i \in Ids : records[i] = Absent /\ ~(i < 1)  BY DEF MemoryInit, Ids
<1>2. \A t \in Threads : at[t] = "idle" /\ counting # t  BY Bound DEF MemoryInit
<1> QED  BY <1>1, <1>2 DEF MemoryInit, Gapless, Handed, Past

(* A record's updated_at never goes back or repeats: the clock is read     *)
(* under the lock that orders the writes.                                  *)
THEOREM StampsAdvance == MemorySpec => StampsFollowCommits
<1>1. MemoryTyped /\ Gapless /\ Past /\ [MemoryNext]_store => [Newer]_store
    BY PastStep
<1> QED
  BY <1>1, TypedInit, TypedStep, PastInit, GaplessStep, PastStep, PTL
  DEF MemorySpec, StampsFollowCommits, Newer

-----------------------------------------------------------------------------
(* The store implements HeroStore.                                         *)

heroes == [i \in Ids |-> Shown(records[i])]

(* What is shown of a record is a row, and of an empty place nothing.      *)
LEMMA ShownTyped ==
  /\ Shown(Absent) = Absent
  /\ \A row \in Row :
       /\ Shown(row) \in Store!Row /\ Shown(row) # Absent
       /\ Shown(row).owner = row.owner /\ Shown(row).updated = row.updated
       /\ Shown(row).live <=> row.archived = 0
<1>1. Shown(Absent) = Absent  BY DEF Shown
<1>2. ASSUME NEW row \in Row
      PROVE  /\ Shown(row) \in Store!Row /\ Shown(row) # Absent
             /\ Shown(row).owner = row.owner /\ Shown(row).updated = row.updated
             /\ Shown(row).live <=> row.archived = 0
  <2> DEFINE live == row.archived = 0
  <2>1. Shown(row) = [owner |-> row.owner, value |-> row.value, updated |-> row.updated,
                      live |-> live]
      BY NoRow DEF Shown
  <2>2. live \in BOOLEAN  BY Zenon
  <2>3. row.owner \in Subjects /\ row.value \in Content /\ row.updated \in Nat
      BY DEF Row
  <2>4. live <=> row.archived = 0  OBVIOUS
  <2> HIDE DEF live
  <2>5. Shown(row) \in Store!Row  BY <2>1, <2>2, <2>3 DEF Store!Row
  <2>6. Shown(row) # Absent  BY <2>5, NoRow DEF Store!Row
  <2> QED  BY <2>1, <2>4, <2>5, <2>6
<1> QED  BY <1>1, <1>2

(* What the store shows is a table of HeroStore.                           *)
LEMMA HeroesTyped ==
  ASSUME MemoryTyped PROVE heroes \in [Ids -> {Absent} \cup Store!Row]
  BY ShownTyped DEF MemoryTyped, heroes

(* A creation shows one fresh, live row.                                   *)
LEMMA InsertMaps ==
  ASSUME MemoryTyped, Gapless, NEW t \in Threads, Insert(t)
  PROVE  heroes' = heroes \/ \E i \in Ids : Store!Create(i)
<1> DEFINE n == nextId - 1
<1>1. hits[t] = {n} /\ counting = t /\ t # Nobody
    BY Bound DEF Insert, Gapless
<1>2. Created(t) \in Row /\ Created(t).archived = 0
    BY CreatedTyped DEF Insert, Created
<1>3. \A i \in Ids : heroes'[i] = IF i = n THEN Shown(Created(t)) ELSE heroes[i]
  <2>1. \A i \in Ids : records'[i] = IF i = n THEN Created(t) ELSE records[i]
      BY <1>1 DEF Insert
  <2> HIDE DEF n
  <2> QED  BY <2>1 DEF heroes
<1>4. heroes' = [i \in Ids |-> heroes'[i]] /\ heroes = [i \in Ids |-> heroes[i]]
    BY DEF heroes
<1>5. CASE n \notin Ids
  <2> HIDE DEF n
  <2>1. \A i \in Ids : heroes'[i] = heroes[i]  BY <1>3, <1>5
  <2> QED  BY <1>4, <2>1
<1>6. CASE n \in Ids
  <2>1. records[n] = Absent
    <3>1. ~(n < Handed)  BY <1>1 DEF Handed, MemoryTyped
    <3> QED  BY <1>6, <3>1 DEF Gapless
  <2>2. heroes[n] = Absent  BY <1>6, <2>1, ShownTyped DEF heroes
  <2> HIDE DEF n
  <2>3. heroes'[n] = Shown(Created(t))  BY <1>3, <1>6
  <2>4. heroes'[n] \in Store!Row /\ heroes'[n].live  BY <1>2, <2>3, ShownTyped
  <2>5. heroes' = [heroes EXCEPT ![n] = heroes'[n]]  BY <1>3, <1>4, <2>3
  <2>6. Store!Create(n)
      BY <2>2, <2>4, <2>5 DEF Store!Create, Store!Exists, heroes
  <2> QED  BY <1>6, <2>6
<1> QED  BY <1>5, <1>6

(* A write changes live rows of its caller, and every one it hits.         *)
LEMMA WriteMaps ==
  ASSUME MemoryTyped, Past, NEW t \in Threads, Write(t)
  PROVE  \E S \in SUBSET Ids, sub \in Subjects : Store!Change(S, sub)
<1> DEFINE S == Hits(call[t])
           sub == call[t].owner
           new(i) == Stamped(call[t], S, i)
<1>1. call[t] \in Call /\ call[t].kind # "create"  BY DEF Write, MemoryTyped, AtWork
<1>2. S \in SUBSET Ids /\ sub \in Subjects  BY <1>1 DEF Hits, Call
<1>3. records' = [i \in Ids |-> IF i \in S THEN new(i) ELSE records[i]]  BY DEF Write
<1>4. MemoryTyped'  BY TypedStep DEF MemoryNext, Work
<1>5. heroes' \in [Ids -> {Absent} \cup Store!Row]
  <2>1. records' \in [Ids -> {Absent} \cup Row]  BY <1>4 DEF MemoryTyped
  <2> QED  BY <2>1, ShownTyped DEF heroes
<1>6. ASSUME NEW i \in S PROVE Store!OwnedLive(i, sub)
  <2>1. records[i] \in Row /\ records[i].archived = 0 /\ records[i].owner = sub
      BY DEF Hits, Live, MemoryTyped
  <2>2. heroes[i] = Shown(records[i])  BY <1>2 DEF heroes
  <2>3. heroes[i] # Absent /\ heroes[i].live /\ heroes[i].owner = sub
      BY <2>1, <2>2, ShownTyped
  <2> QED  BY <2>3 DEF Store!OwnedLive, Store!Exists, heroes
<1>7. \A i \in Ids \ S : heroes'[i] = heroes[i]
  <2> HIDE DEF S
  <2> QED  BY <1>3 DEF heroes
<1>8. ASSUME NEW i \in S
      PROVE  heroes'[i] # Absent /\ heroes'[i].owner = sub
               /\ heroes'[i].updated # heroes[i].updated
  <2>1. new(i) \in Row /\ new(i).owner = records[i].owner /\ clock <= new(i).updated
      BY <1>1, StampedTyped
  <2>2. /\ records[i] \in Row /\ records[i].owner = sub
        /\ records[i].updated < clock /\ records[i].updated \in Nat
    <3>1. records[i] \in Row /\ records[i].owner = sub  BY DEF Hits, Live, MemoryTyped
    <3>2. records[i].updated < clock  BY <1>2, <3>1, NoRow DEF Past
    <3> QED  BY <3>1, <3>2 DEF Row
  <2>3. new(i).updated \in Nat /\ clock \in Nat  BY <2>1 DEF Row, MemoryTyped
  <2>4. new(i).updated # records[i].updated  BY <2>1, <2>2, <2>3
  <2>5. heroes'[i] = Shown(new(i)) /\ heroes[i] = Shown(records[i])
    <3> HIDE DEF S, new
    <3> QED  BY <1>2, <1>3 DEF heroes
  <2> HIDE DEF S, new, sub
  <2> QED  BY <2>1, <2>2, <2>4, <2>5, ShownTyped
<1> HIDE DEF S, sub, new
<1>9. Store!Change(S, sub)
    BY <1>5, <1>6, <1>7, <1>8 DEF Store!Change, Store!Ids, Ids, heroes
<1> QED  BY <1>2, <1>9

(* The store of mock mode keeps the promises of the Hero resource: fresh   *)
(* ids, changes by the owner of live records only, a new stamp each time.  *)
THEOREM Refinement == MemorySpec => ImplementsStore
<1>1. MemoryInit => Store!Init
  <2> SUFFICES ASSUME MemoryInit PROVE Store!Init  OBVIOUS
  <2>1. heroes \in [Ids -> {Absent} \cup Store!Row]  BY TypedInit, HeroesTyped
  <2> QED  BY <2>1 DEF Store!Init, Store!Ids, Ids, heroes
<1>2. MemoryTyped /\ Gapless /\ Past /\ [MemoryNext]_store => [Store!Next]_(Store!vars)
  <2> SUFFICES ASSUME MemoryTyped, Gapless, Past, [MemoryNext]_store
               PROVE  [Store!Next]_(Store!vars)
      OBVIOUS
  <2>1. ASSUME heroes' = heroes PROVE UNCHANGED Store!vars
      BY <2>1 DEF Store!vars, heroes
  <2>2. ASSUME UNCHANGED records PROVE [Store!Next]_(Store!vars)
    <3>1. heroes' = heroes  BY <2>2 DEF heroes
    <3> QED  BY <2>1, <3>1
  <2>3. ASSUME NEW t \in Threads, Insert(t) PROVE [Store!Next]_(Store!vars)
      BY <2>1, <2>3, InsertMaps DEF Store!Next, Store!Ids, Ids
  <2>4. ASSUME NEW t \in Threads, Write(t) PROVE [Store!Next]_(Store!vars)
      BY <2>4, WriteMaps DEF Store!Next, Store!Ids, Ids
  <2> QED  BY <2>2, <2>3, <2>4
           DEF MemoryNext, Work, Begin, ReadClock, TakeId, Return, store
<1> QED
  BY <1>1, <1>2, TypedInit, TypedStep, PastInit, GaplessStep, PastStep, PTL
  DEF MemorySpec, ImplementsStore, Store!Spec
-----------------------------------------------------------------------------
(* Texts.                                                                  *)

(* What the pieces of a text of powers are trimmed to, but for blanks.     *)
Words == {<<"a">>, <<"b">>, <<"long">>}

(* Powers that fit a list the page may show and read again.                *)
Clean == Seq({<<"a">>, <<"b">>}) \ {<<>>}

(* A piece makes a word, or none.                                          *)
LEMMA WordTyped ==
  /\ \A piece \in Pieces : Word(piece) \in Seq(Words)
  /\ \A power \in {<<"a">>, <<"b">>} :
       /\ power[1] \in Pieces /\ Spaced(power[1]) \in Pieces
       /\ Word(power[1]) = <<power>> /\ Word(Spaced(power[1])) = <<power>>
  BY DEF Pieces, Trim, Word, Words, Spaced

(* What is parsed is a list of words.                                      *)
LEMMA ParseTyped == ASSUME NEW text \in Text PROVE ParsePowers(text) \in Seq(Words)
<1> DEFINE s == [k \in 1..Len(text) |-> Word(text[k])]
<1>1. Len(text) \in Nat \ {0} /\ \A k \in 1..Len(text) : text[k] \in Pieces  BY DEF Text
<1>2. s \in [1..Len(text) -> Seq(Words)]
  <2> HIDE DEF Words
  <2> QED  BY <1>1, WordTyped
<1>3. ParsePowers(text) = FlattenSeq(s)  BY DEF ParsePowers
<1> HIDE DEF s, Words
<1>4. PICK f \in [1..Len(text) -> Seq(Words)] : Flattens(f, s, Len(text))
    BY <1>1, <1>2, Flattening
<1>5. Len(text) \in 1..Len(text)  BY <1>1
<1> QED  BY <1>3, <1>4, <1>5 DEF Flattens

(* A list of powers is joined to a text.                                   *)
LEMMA JoinTyped == ASSUME NEW powers \in Seq(Text) \ {<<>>} PROVE Join(powers) \in Text
<1> DEFINE part(k) == IF k = 1 THEN powers[k]
                      ELSE <<Spaced(Head(powers[k]))>> \o Tail(powers[k])
           s == [k \in 1..Len(powers) |-> part(k)]
<1>1. Len(powers) \in Nat \ {0} /\ \A k \in 1..Len(powers) : powers[k] \in Text
    OBVIOUS
<1>2. ASSUME NEW k \in 1..Len(powers) PROVE part(k) \in Seq(Pieces) \ {<<>>}
  <2>1. CASE k = 1  BY <1>1, <2>1 DEF Text
  <2>2. CASE k # 1
    <3>1. powers[k] \in Seq(Pieces) /\ powers[k] # <<>>  BY <1>1 DEF Text
    <3>2. Head(powers[k]) \in Pieces /\ Tail(powers[k]) \in Seq(Pieces)  BY <3>1
    <3>3. Spaced(Head(powers[k])) \in Pieces  BY <3>2 DEF Spaced, Pieces
    <3> DEFINE x == <<Spaced(Head(powers[k]))>>
               y == Tail(powers[k])
    <3>4. x \in Seq(Pieces) /\ y \in Seq(Pieces) /\ Len(x) = 1  BY <3>2, <3>3
    <3>5. part(k) = x \o y  BY <2>2
    <3> HIDE DEF x, y, part
    <3>6. x \o y \in Seq(Pieces) /\ Len(x \o y) = Len(x) + Len(y) /\ Len(y) \in Nat
      <4>1. \A u, v \in Seq(Pieces) :
              u \o v \in Seq(Pieces) /\ Len(u \o v) = Len(u) + Len(v) /\ Len(v) \in Nat
          OBVIOUS
      <4> QED  BY <3>4, <4>1, Zenon
    <3> QED  BY <3>4, <3>5, <3>6
  <2> QED  BY <2>1, <2>2
<1>3. s \in [1..Len(powers) -> Seq(Pieces) \ {<<>>}]
  <2> HIDE DEF part
  <2> QED  BY <1>2
<1>4. Join(powers) = FlattenSeq(s)  BY DEF Join
<1> HIDE DEF s
<1>5. FlattenSeq(s) \in Seq(Pieces) \ {<<>>}  BY <1>1, <1>3, FlattenTyped
<1> QED  BY <1>4, <1>5 DEF Text

(* A list the page has made is joined to a text that is parsed to it.      *)
LEMMA Settles ==
  ASSUME NEW powers \in Clean PROVE ParsePowers(Join(powers)) = powers
<1> DEFINE n == Len(powers)
           q == [k \in 1..n |-> IF k = 1 THEN powers[k][1] ELSE Spaced(powers[k][1])]
<1>1. n \in Nat \ {0} /\ powers \in [1..n -> {<<"a">>, <<"b">>}]  BY DEF Clean
<1> HIDE DEF n
<1>2. q \in [1..n -> Pieces] /\ \A k \in 1..n : Word(q[k]) = <<powers[k]>>
    BY <1>1, WordTyped
<1>3. \A k \in 1..n :
        <<q[k]>> = IF k = 1 THEN powers[k] ELSE <<Spaced(Head(powers[k]))>> \o Tail(powers[k])
  <2> TAKE k \in 1..n
  <2>0. powers[k] = <<"a">> \/ powers[k] = <<"b">>  BY <1>1
  <2>1. powers[k] = <<powers[k][1]>> /\ Head(powers[k]) = powers[k][1] /\ Tail(powers[k]) = <<>>
    <3>1. CASE powers[k] = <<"a">>  BY <3>1
    <3>2. CASE powers[k] = <<"b">>  BY <3>2
    <3> QED  BY <2>0, <3>1, <3>2
  <2>2. <<Spaced(powers[k][1])>> \o <<>> = <<Spaced(powers[k][1])>>  OBVIOUS
  <2> QED  BY <2>1, <2>2
<1> HIDE DEF q
<1>4. Join(powers) = FlattenSeq([k \in 1..n |-> <<q[k]>>])
    BY <1>3 DEF Join, n
<1>5. Join(powers) = q  BY <1>1, <1>2, <1>4, FlattenSingles
<1>6. Len(q) = n  BY <1>1, <1>2
<1>7. ParsePowers(q) = FlattenSeq([k \in 1..n |-> <<powers[k]>>])
    BY <1>2, <1>6 DEF ParsePowers
<1>8. FlattenSeq([k \in 1..n |-> <<powers[k]>>]) = powers  BY <1>1, FlattenSingles
<1> QED  BY <1>5, <1>7, <1>8

-----------------------------------------------------------------------------
(* Contents, and what is read of them.                                     *)

(* What a record always holds.                                             *)
Whole(c) == c \in Content /\ c.name # Null /\ c.powers # Null /\ ValidCreate(c)

(* Null is no text, no list and no number; the special levels differ.      *)
LEMMA Nulls ==
  /\ Null \notin Int /\ Null \notin Text /\ Null \notin Seq(Text)
  /\ Blank \notin Int /\ Exponent \notin Int /\ Blank # Exponent
  /\ Half \in Nat /\ Half > 10
  BY ViewsAssumption, TextAssumption, Zenon

(* An i32 is an integer.                                                   *)
LEMMA LevelsTyped == Levels \subseteq Int \cup {Null} /\ Null \in Levels
<1>1. \A n \in -Half .. Half - 1 : n \in Int  BY Nulls
<1> QED  BY <1>1 DEF Levels

(* A whole content has a valid name and a list of valid powers.            *)
LEMMA WholeFields ==
  ASSUME NEW c, Whole(c)
  PROVE  /\ c = Contents(c.name, c.powers, c.level)
         /\ c.name \in Text /\ ValidText(c.name)
         /\ c.powers \in Seq(Text) /\ c.powers # <<>>
         /\ \A k \in 1..Len(c.powers) : ValidText(c.powers[k])
         /\ c.level \in Levels /\ c.level \in Int \cup {Null}
         /\ ValidUpdate(c) /\ AcceptsUpdate(c)
<1>1. c = Contents(c.name, c.powers, c.level)  BY DEF Whole, Content, Contents
<1>2. c.name \in Text /\ c.powers \in Seq(Text) /\ c.level \in Levels
    BY DEF Whole, Content
<1>3. ValidText(c.name) /\ c.powers # <<>>  BY DEF Whole, ValidCreate, ValidPowers
<1>4. \A p \in Range(c.powers) : ValidText(p)  BY DEF Whole, ValidCreate, ValidPowers
<1>5. \A k \in 1..Len(c.powers) : ValidText(c.powers[k])
    BY <1>2, <1>4 DEF Range
<1>6. ValidUpdate(c)  BY DEF Whole, ValidCreate, ValidUpdate
<1> QED  BY <1>1, <1>2, <1>3, <1>5, <1>6, LevelsTyped DEF AcceptsUpdate

(* A valid update of a whole content leaves it whole, with the powers that *)
(* were sent.                                                              *)
LEMMA UpdateWhole ==
  ASSUME NEW c, Whole(c), NEW u \in Content, ValidUpdate(u)
  PROVE  /\ Whole(ApplyUpdate(c, u))
         /\ u.powers # Null => ApplyUpdate(c, u).powers = u.powers
<1> DEFINE new == ApplyUpdate(c, u)
<1>1. c \in Content /\ DOMAIN c = {"name", "powers", "level"}  BY DEF Whole, Content
<1>2. new \in Content  BY <1>1, UpdateTyped
<1>3. /\ new.name = IF u.name = Null THEN c.name ELSE u.name
      /\ new.powers = IF u.powers = Null THEN c.powers ELSE u.powers
    BY <1>1 DEF ApplyUpdate
<1> HIDE DEF new
<1> QED  BY <1>2, <1>3 DEF Whole, ValidCreate, ValidUpdate, new

(* What the script makes of a form is a body with a name and words for     *)
(* powers, and what the browser's form is turned into is the same and as   *)
(* acceptable, but for a level only the script reads.                      *)
LEMMA SavedTyped ==
  ASSUME NEW fields \in Fields
  PROVE  /\ FromScript(fields) \in Body
         /\ fields.level # Exponent =>
              /\ FromForm(fields) = FromScript(fields)
              /\ FormAccepted(fields) <=> AcceptsCreate(FromScript(fields))
         /\ FormAccepted(fields) => fields.level # Exponent
         /\ FromScript(fields).name = fields.name /\ fields.name \in Text
         /\ FromScript(fields).powers = ParsePowers(fields.powers)
         /\ ParsePowers(fields.powers) \in Seq(Words)
         /\ ParsePowers(fields.powers) \in Seq(Text)
<1>1. /\ fields.name \in Text /\ fields.powers \in Text
      /\ fields.level \in Int \cup {Blank, Exponent}
    BY DEF Fields
<1>2. ParsePowers(fields.powers) \in Seq(Words)  BY <1>1, ParseTyped
<1>3. ParsePowers(fields.powers) \in Seq(Text)
  <2>1. Words \subseteq Text
    <3>1. \A w \in Pieces : <<w>> \in Seq(Pieces) /\ <<w>> # <<>>  OBVIOUS
    <3>2. {"a", "b", "long"} \subseteq Pieces  BY DEF Pieces
    <3> QED  BY <3>1, <3>2 DEF Words, Text
  <2> HIDE DEF Words
  <2> QED  BY <1>2, <2>1
<1>4. ScriptLevel(fields) \in Int \cup {Null}  BY <1>1 DEF ScriptLevel
<1>5. FromScript(fields) \in Body
    BY <1>1, <1>3, <1>4 DEF FromScript, Contents, Body
<1>6. ASSUME fields.level # Exponent
      PROVE  /\ FormLevel(fields) = ScriptLevel(fields)
             /\ FormLevelParses(fields) <=> ScriptLevel(fields) \in Levels
  <2>1. CASE fields.level = Blank
    <3>1. FormLevel(fields) = Null /\ ScriptLevel(fields) = Null
        BY <2>1, Nulls DEF FormLevel, ScriptLevel
    <3>2. FormLevelParses(fields)  BY <2>1 DEF FormLevelParses
    <3> QED  BY <3>1, <3>2, LevelsTyped
  <2>2. CASE fields.level # Blank
    <3>1. FormLevel(fields) = fields.level /\ ScriptLevel(fields) = fields.level
        BY <1>6, <2>2 DEF FormLevel, ScriptLevel
    <3>2. fields.level \in Int /\ fields.level # Null  BY <1>1, <1>6, <2>2, Nulls
    <3> QED  BY <2>2, <3>1, <3>2 DEF FormLevelParses
  <2> QED  BY <2>1, <2>2
<1>7. ASSUME fields.level # Exponent
      PROVE  /\ FromForm(fields) = FromScript(fields)
             /\ FormAccepted(fields) <=> AcceptsCreate(FromScript(fields))
  <2>1. FromForm(fields) = FromScript(fields)  BY <1>6, <1>7 DEF FromForm, FromScript
  <2>2. /\ FromScript(fields).name # Null /\ FromScript(fields).powers # Null
        /\ FromScript(fields).level = ScriptLevel(fields)
      BY <1>1, <1>3, Nulls DEF FromScript, Contents
  <2> QED  BY <1>6, <1>7, <2>1, <2>2 DEF FormAccepted, AcceptsCreate
<1>8. FormAccepted(fields) => fields.level # Exponent
  <2>1. Exponent \notin Levels \ {Null}  BY LevelsTyped, Nulls
  <2> QED  BY <2>1, Nulls DEF FormAccepted, FormLevelParses
<1> QED  BY <1>1, <1>2, <1>3, <1>5, <1>7, <1>8 DEF FromScript, Contents

(* A body that is accepted is whole, if it creates, and a valid content.   *)
LEMMA AcceptedWhole ==
  /\ \A body \in Body : AcceptsCreate(body) => Whole(body)
  /\ \A body \in Body : AcceptsUpdate(body) => body \in Content /\ ValidUpdate(body)
<1>1. ASSUME NEW body \in Body, body.level \in Levels PROVE body \in Content
    BY <1>1 DEF Body, Content
<1> QED  BY <1>1 DEF AcceptsCreate, AcceptsUpdate, Whole

(* What is accepted is whole, and its powers are clean.                    *)
LEMMA SavedWhole ==
  ASSUME NEW fields \in Fields, AcceptsCreate(FromScript(fields))
  PROVE  Whole(FromScript(fields)) /\ FromScript(fields).powers \in Clean
<1> DEFINE c == FromScript(fields)
<1>1. c \in Body /\ c.name \in Text /\ c.powers \in Seq(Text) /\ c.powers \in Seq(Words)
    BY SavedTyped
<1>2. AcceptsCreate(c)  OBVIOUS
<1> HIDE DEF c
<1>3. Whole(c)  BY <1>1, <1>2, AcceptedWhole
<1>4. \A k \in 1..Len(c.powers) : ValidText(c.powers[k]) /\ c.powers # <<>>
    BY <1>3, WholeFields
<1>5. ASSUME NEW k \in 1..Len(c.powers) PROVE c.powers[k] \in {<<"a">>, <<"b">>}
  <2>1. c.powers[k] \in Words  BY <1>1
  <2>2. "long" \notin Range(c.powers[k])  BY <1>4 DEF ValidText
  <2>3. c.powers[k] # <<"long">>
    <3>1. "long" \in Range(<<"long">>)  BY DEF Range
    <3> QED  BY <2>2, <3>1
  <2> QED  BY <2>1, <2>3 DEF Words
<1>6. c.powers # <<>>  BY <1>3, WholeFields
<1>7. c.powers \in [1..Len(c.powers) -> {<<"a">>, <<"b">>}] /\ Len(c.powers) \in Nat
    BY <1>1, <1>5
<1>8. c.powers \in Seq({<<"a">>, <<"b">>})  BY <1>7
<1> QED  BY <1>3, <1>6, <1>8 DEF Clean, c

(* The form of a whole content.                                            *)
LEMMA FormFields ==
  ASSUME NEW c, Whole(c)
  PROVE  /\ FormOf(c) = [name |-> c.name, powers |-> Join(c.powers),
                         level |-> IF c.level = Null THEN Blank ELSE c.level]
         /\ FormOf(c) \in Fields
<1>1. /\ c.name \in Text /\ c.powers \in Seq(Text) \ {<<>>} /\ c.level \in Int \cup {Null}
    BY WholeFields
<1>2. Join(c.powers) \in Text  BY <1>1, JoinTyped
<1>3. c.name # Null /\ c.powers \notin {Null, <<>>}  BY <1>1, Nulls
<1> QED  BY <1>1, <1>2, <1>3 DEF FormOf, Fields

(* A form that shows clean powers is accepted untouched, and changes       *)
(* nothing.                                                                *)
LEMMA FormKeeps ==
  ASSUME NEW c, Whole(c), c.powers \in Clean
  PROVE  /\ FormAccepted(FormOf(c))
         /\ ApplyUpdate(c, FromForm(FormOf(c))) = c
<1> DEFINE form == FormOf(c)
<1>1. /\ form.name = c.name /\ form.powers = Join(c.powers) /\ form \in Fields
      /\ form.level = IF c.level = Null THEN Blank ELSE c.level
    BY FormFields
<1>2. c.level \in Levels /\ c.level \in Int \cup {Null}  BY WholeFields
<1> HIDE DEF form
<1>3. FormLevel(form) = c.level /\ FormLevelParses(form)
    BY <1>1, <1>2, Nulls DEF FormLevel, FormLevelParses
<1>4. ParsePowers(form.powers) = c.powers  BY <1>1, Settles
<1>5. FromForm(form) = c
    BY <1>1, <1>3, <1>4, WholeFields DEF FromForm
<1>6. ValidCreate(c)  BY DEF Whole
<1>7. c = [field \in DOMAIN c |-> c[field]]  BY DEF Whole, Content
<1>8. ApplyUpdate(c, c) = c  BY <1>7 DEF ApplyUpdate
<1> QED  BY <1>3, <1>5, <1>6, <1>8 DEF FormAccepted, form

(* Whatever goes to XML and back, the fields left out included, is as it   *)
(* was.                                                                    *)
LEMMA XmlKeeps ==
  ASSUME NEW view, view = [field \in DOMAIN view |-> view[field]]
  PROVE  FromXml(ToXml(view), DOMAIN view) = view
<1> DEFINE told == {field \in DOMAIN view : view[field] # Null}
<1>1. DOMAIN ToXml(view) = told /\ \A field \in told : ToXml(view)[field] = view[field]
    BY DEF ToXml, Restrict
<1>2. \A field \in DOMAIN view :
        (IF field \in DOMAIN ToXml(view) THEN ToXml(view)[field] ELSE Null) = view[field]
    BY <1>1
<1> HIDE DEF told
<1> QED  BY <1>2 DEF FromXml

(* What is read of a whole content may be written back.                    *)
LEMMA WritesBack ==
  ASSUME NEW hero, Whole(hero)
  PROVE  LET v2 == ReadV2(hero)
             v1 == ReadV1(hero)
             old == ApplyUpdate(hero, UpdateFromV1(FromXml(ToXml(v1), DOMAIN v1)))
         IN  /\ AcceptsUpdate(v2) /\ AcceptsUpdateV1(v1)
             /\ ApplyUpdate(hero, FromXml(ToXml(v2), DOMAIN v2)) = hero
             /\ ReadV1(old) = v1 /\ FirstOf(hero.powers) = old.powers[1]
<1> DEFINE v1 == ReadV1(hero)
           u == UpdateFromV1(v1)
           old == ApplyUpdate(hero, u)
<1>1. /\ hero = Contents(hero.name, hero.powers, hero.level)
      /\ hero.name \in Text /\ ValidText(hero.name)
      /\ hero.powers \in Seq(Text) /\ hero.powers # <<>>
      /\ \A k \in 1..Len(hero.powers) : ValidText(hero.powers[k])
      /\ AcceptsUpdate(hero) /\ hero.level \in Levels
    BY WholeFields
<1>2. /\ FirstOf(hero.powers) = hero.powers[1] /\ hero.powers[1] \in Text
      /\ ValidText(hero.powers[1])
    <2>1. hero.powers \notin {Null, <<>>} /\ 1 \in 1..Len(hero.powers)  BY <1>1, Nulls
    <2> QED  BY <1>1, <2>1 DEF FirstOf
<1>3. v1 = [name |-> hero.name, superpower |-> hero.powers[1], level |-> hero.level]
    BY <1>2 DEF ReadV1
<1>4. hero.powers[1] # Null /\ hero.name # Null  BY <1>1, <1>2, Nulls
<1>5. AcceptsUpdateV1(v1)  BY <1>1, <1>2, <1>3 DEF ValidV1, AcceptsUpdateV1
<1>6. FromXml(ToXml(v1), DOMAIN v1) = v1
  <2>1. v1 = [field \in DOMAIN v1 |-> v1[field]]  BY <1>3
  <2> HIDE DEF v1
  <2> QED  BY <2>1, XmlKeeps
<1>7. u = Contents(hero.name, <<hero.powers[1]>>, hero.level)
    BY <1>3, <1>4 DEF UpdateFromV1
<1>8. DOMAIN hero = {"name", "powers", "level"}  BY <1>1 DEF Contents
<1>9. <<hero.powers[1]>> \in Seq(Text) /\ <<hero.powers[1]>> # <<>>  BY <1>2
<1>10. /\ old.name = hero.name /\ old.powers = <<hero.powers[1]>> /\ old.level = hero.level
  <2>1. u.name = hero.name /\ u.powers = <<hero.powers[1]>> /\ u.level = hero.level
      BY <1>7 DEF Contents
  <2>2. u.name # Null /\ u.powers # Null  BY <1>4, <1>9, <2>1, Nulls
  <2> HIDE DEF u
  <2>3. old = [field \in {"name", "powers", "level"} |->
                IF u[field] = Null THEN hero[field] ELSE u[field]]
      BY <1>8 DEF ApplyUpdate
  <2> HIDE DEF old
  <2> QED  BY <2>1, <2>2, <2>3
<1>11. ReadV1(old) = v1 /\ FirstOf(hero.powers) = old.powers[1]
  <2> HIDE DEF old, v1
  <2>1. FirstOf(old.powers) = hero.powers[1]
    <3>1. <<hero.powers[1]>> \notin {Null, <<>>}  BY <1>9, Nulls
    <3>2. Head(<<hero.powers[1]>>) = hero.powers[1]  OBVIOUS
    <3> QED  BY <1>10, <3>1, <3>2 DEF FirstOf
  <2> QED  BY <1>2, <1>3, <1>10, <2>1 DEF ReadV1
<1>12. hero = [field \in DOMAIN hero |-> hero[field]]  BY <1>1 DEF Contents
<1>13. ApplyUpdate(hero, FromXml(ToXml(hero), DOMAIN hero)) = hero
  <2>1. FromXml(ToXml(hero), DOMAIN hero) = hero  BY <1>12, XmlKeeps
  <2> QED  BY <1>12, <2>1 DEF ApplyUpdate
<1> HIDE DEF old, u, v1
<1> QED  BY <1>1, <1>5, <1>6, <1>11, <1>13 DEF ReadV2, old, u, v1

(* The schemas' lengths are those the validators accept.                   *)
LEMMA Lengths ==
  ASSUME NEW text \in Text PROVE LengthOf(text) \in 1..200 <=> ValidText(text)
<1>1. Len(text) \in Nat /\ Len(text) >= 1  BY DEF Text
<1>2. CASE "long" \in Range(text)
  <2>1. LengthOf(text) = 201 /\ ~ValidText(text)  BY <1>2, Zenon DEF LengthOf, ValidText
  <2> QED  BY <2>1
<1>3. CASE "long" \notin Range(text) /\ text = <<"">>
  <2>1. LengthOf(text) = 0 /\ ~ValidText(text)  BY <1>3, Zenon DEF LengthOf, ValidText
  <2> QED  BY <2>1
<1>4. CASE "long" \notin Range(text) /\ text # <<"">>
  <2>1. LengthOf(text) = Len(text) /\ (ValidText(text) <=> Len(text) <= 200)
      BY <1>4, Zenon DEF LengthOf, ValidText
  <2>2. \A n \in Nat : n >= 1 => (n \in 1..200 <=> n <= 200)  OBVIOUS
  <2> QED  BY <1>1, <2>1, <2>2, Zenon
<1> QED  BY <1>2, <1>3, <1>4

(* Texts are of the schemas' lengths if and only if they are valid.        *)
LEMMA AllLengths ==
  ASSUME NEW S \in SUBSET Text
  PROVE  (\A text \in S : LengthOf(text) \in 1..200) <=> (\A text \in S : ValidText(text))
  BY Lengths, ZenonT(40)

(* A body is accepted by v2 if and only if it conforms to the schema of v2 *)
(* and its level fits.                                                     *)
LEMMA SchemaV2 ==
  ASSUME NEW c \in Body
  PROVE  /\ AcceptsCreate(c) <=> Conforms(c, BodySchema("v2", TRUE)) /\ c.level \in Levels
         /\ AcceptsUpdate(c) <=> Conforms(c, BodySchema("v2", FALSE)) /\ c.level \in Levels
<1> DEFINE create == BodySchema("v2", TRUE)
           update == BodySchema("v2", FALSE)
           Fit(schema) == \A text \in TextsOf(c) : LengthOf(text) \in schema.lengths
           Items(schema) == c.powers # Null => Len(c.powers) >= schema.minItems
<1>1. /\ c.name \in Text \cup {Null} /\ c.powers \in Seq(Text) \cup {Null}
      /\ c.level \in Int \cup {Null} /\ DOMAIN c = {"name", "powers", "level"}
    BY DEF Body
<1>2. /\ create.lengths = 1..200 /\ create.minItems = 1 /\ create.levels = Int \cup {Null}
      /\ create.required = {"name", "powers"}
      /\ update.lengths = 1..200 /\ update.minItems = 1 /\ update.levels = Int \cup {Null}
      /\ update.required = {}
    BY DEF BodySchema, PowerKey
<1> HIDE DEF create, update
<1>3. /\ TextsOf(c) \subseteq Text
      /\ (\A text \in TextsOf(c) : ValidText(text)) <=>
           /\ c.name # Null => ValidText(c.name)
           /\ c.powers # Null => \A p \in Range(c.powers) : ValidText(p)
  <2>1. CASE c.powers = Null
    <3>1. TextsOf(c) = {c.name} \ {Null}  BY <1>1, <2>1 DEF TextsOf
    <3> QED  BY <1>1, <2>1, <3>1
  <2>2. CASE c.powers # Null
    <3>1. TextsOf(c) = ({c.name} \cup Range(c.powers)) \ {Null}
        BY <1>1, <2>2 DEF TextsOf
    <3>2. Range(c.powers) \subseteq Text  BY <1>1, <2>2 DEF Range
    <3> QED  BY <1>1, <2>2, <3>1, <3>2, Nulls
  <2> QED  BY <2>1, <2>2
<1>4. /\ Fit(create) <=> \A text \in TextsOf(c) : ValidText(text)
      /\ Fit(update) <=> \A text \in TextsOf(c) : ValidText(text)
    BY <1>2, <1>3, AllLengths
<1>5. /\ Items(create) <=> (c.powers # Null => c.powers # <<>>)
      /\ Items(update) <=> (c.powers # Null => c.powers # <<>>)
    BY <1>1, <1>2
<1>6. /\ Conforms(c, create) <=> c.name # Null /\ c.powers # Null /\ Fit(create) /\ Items(create)
      /\ Conforms(c, update) <=> Fit(update) /\ Items(update)
  <2>1. \A schema :
          Conforms(c, schema) <=>
            /\ c.level \in schema.levels /\ \A field \in schema.required : c[field] # Null
            /\ Fit(schema) /\ Items(schema)
      BY <1>1 DEF Conforms
  <2> HIDE DEF Fit, Items
  <2> QED  BY <1>1, <1>2, <2>1
<1> HIDE DEF Fit, Items
<1>7. ValidUpdate(c) <=> Fit(update) /\ Items(update)
    BY <1>3, <1>4, <1>5 DEF ValidUpdate, ValidPowers
<1>8. c.name # Null /\ c.powers # Null =>
        (ValidCreate(c) <=> Fit(create) /\ Items(create))
    BY <1>3, <1>4, <1>5 DEF ValidCreate, ValidPowers
<1> QED  BY <1>6, <1>7, <1>8 DEF AcceptsCreate, AcceptsUpdate, create, update

(* So it is with v1 and its schema.                                        *)
LEMMA SchemaV1 ==
  ASSUME NEW c \in BodyV1
  PROVE  /\ AcceptsCreateV1(c) <=> Conforms(c, BodySchema("v1", TRUE)) /\ c.level \in Levels
         /\ AcceptsUpdateV1(c) <=> Conforms(c, BodySchema("v1", FALSE)) /\ c.level \in Levels
<1> DEFINE create == BodySchema("v1", TRUE)
           update == BodySchema("v1", FALSE)
           Fit(schema) == \A text \in TextsOf(c) : LengthOf(text) \in schema.lengths
<1>1. /\ c.name \in Text \cup {Null} /\ c.superpower \in Text \cup {Null}
      /\ c.level \in Int \cup {Null} /\ DOMAIN c = {"name", "superpower", "level"}
    BY DEF BodyV1
<1>2. /\ create.lengths = 1..200 /\ create.levels = Int \cup {Null}
      /\ create.required = {"name", "superpower"}
      /\ update.lengths = 1..200 /\ update.levels = Int \cup {Null} /\ update.required = {}
    BY DEF BodySchema, PowerKey
<1> HIDE DEF create, update
<1>3. TextsOf(c) = {c.name, c.superpower} \ {Null}  BY <1>1 DEF TextsOf
<1>4. TextsOf(c) \subseteq Text  BY <1>1, <1>3
<1>5. (\A text \in TextsOf(c) : ValidText(text)) <=> ValidV1(c)  BY <1>3 DEF ValidV1
<1>6. (Fit(create) <=> ValidV1(c)) /\ (Fit(update) <=> ValidV1(c))
    BY <1>2, <1>4, <1>5, AllLengths
<1>7. /\ Conforms(c, create) <=> c.name # Null /\ c.superpower # Null /\ Fit(create)
      /\ Conforms(c, update) <=> Fit(update)
  <2>1. \A schema :
          Conforms(c, schema) <=>
            /\ c.level \in schema.levels /\ \A field \in schema.required : c[field] # Null
            /\ Fit(schema)
      BY <1>1 DEF Conforms
  <2> HIDE DEF Fit
  <2> QED  BY <1>1, <1>2, <2>1
<1> HIDE DEF Fit
<1> QED  BY <1>6, <1>7 DEF AcceptsCreateV1, AcceptsUpdateV1, create, update

(* What either version shows of a whole content is one of its bodies.      *)
LEMMA Showing ==
  ASSUME NEW c, Whole(c) PROVE ReadV2(c) \in Body /\ ReadV1(c) \in BodyV1
<1>1. /\ c \in Content /\ c.name \in Text /\ c.powers \in Seq(Text) /\ c.powers # <<>>
      /\ c.level \in Int \cup {Null}
    BY WholeFields DEF Whole
<1>2. c \in Body  BY <1>1 DEF Content, Body
<1>3. FirstOf(c.powers) \in Text
  <2>1. c.powers \notin {Null, <<>>}  BY <1>1, Nulls
  <2> QED  BY <1>1, <2>1 DEF FirstOf
<1> QED  BY <1>1, <1>2, <1>3 DEF ReadV2, ReadV1, BodyV1

-----------------------------------------------------------------------------
(* The calls of those who edit.                                            *)

(* A call creates what is whole, or updates with what is valid.            *)
Fits(c) == IF c.kind = "create" THEN Whole(c.data) ELSE ValidUpdate(c.data)

(* A call of the page saves a list of powers it will show alike.           *)
Paged(c) == c.kind \in {"create", "update"} /\ c.data.powers \in Clean

Page == [id: 0..MaxId, fields: Fields, sent: {"no", "form", "script"}]

(* The parts of the assumption on those who edit.                          *)
LEMMA Editing ==
  /\ Subjects # {} /\ Tokens \in [Threads -> SUBSET Subjects]
  /\ \A field \in DOMAIN Typed : field \in {"name", "powers", "level"}
  /\ \A field \in DOMAIN Typed : \A input \in Typed[field] :
       [EmptyForm EXCEPT ![field] = input] \in Fields
  /\ \A b \in Bodies : b \in Body
  /\ \A b \in OldBodies : b \in BodyV1
  /\ Filters \subseteq SUBSET Int
  /\ NoPage \notin Page
  BY EditorsAssumption, Zenon DEF Page

(* A body of v1 that is accepted is turned into a content as valid.        *)
LEMMA FromV1 ==
  ASSUME NEW b \in BodyV1
  PROVE  /\ AcceptsUpdateV1(b) => UpdateFromV1(b) \in Content /\ ValidUpdate(UpdateFromV1(b))
         /\ AcceptsCreateV1(b) => Whole(CreateFromV1(b))
<1> SUFFICES ASSUME ValidV1(b), b.level \in Levels
             PROVE  /\ UpdateFromV1(b) \in Content /\ ValidUpdate(UpdateFromV1(b))
                    /\ b.name # Null /\ b.superpower # Null => Whole(CreateFromV1(b))
    BY DEF AcceptsUpdateV1, AcceptsCreateV1
<1>1. /\ b.name \in Text \cup {Null} /\ b.superpower \in Text \cup {Null}
      /\ b.level \in Levels
    BY DEF BodyV1
<1>2. ASSUME b.superpower # Null
      PROVE  /\ <<b.superpower>> \in Seq(Text) /\ <<b.superpower>> # Null
             /\ ValidPowers(<<b.superpower>>)
  <2>1. b.superpower \in Text /\ ValidText(b.superpower)  BY <1>1, <1>2 DEF ValidV1
  <2>2. <<b.superpower>> \in Seq(Text) /\ <<b.superpower>> # <<>>  BY <2>1
  <2>3. Range(<<b.superpower>>) = {b.superpower}  BY DEF Range
  <2> QED  BY <2>1, <2>2, <2>3, Nulls DEF ValidPowers
<1>3. UpdateFromV1(b) \in Content /\ ValidUpdate(UpdateFromV1(b))
  <2>1. CASE b.superpower = Null
    <3>1. UpdateFromV1(b) = Contents(b.name, Null, b.level)  BY <2>1 DEF UpdateFromV1
    <3> QED  BY <1>1, <3>1 DEF Contents, Content, ValidUpdate, ValidV1
  <2>2. CASE b.superpower # Null
    <3>1. UpdateFromV1(b) = Contents(b.name, <<b.superpower>>, b.level)
        BY <2>2 DEF UpdateFromV1
    <3> QED  BY <1>1, <1>2, <2>2, <3>1 DEF Contents, Content, ValidUpdate, ValidV1
  <2> QED  BY <2>1, <2>2
<1>4. ASSUME b.name # Null, b.superpower # Null PROVE Whole(CreateFromV1(b))
  <2>1. CreateFromV1(b) = Contents(b.name, <<b.superpower>>, b.level)  BY DEF CreateFromV1
  <2>2. ValidText(b.name)  BY <1>4 DEF ValidV1
  <2> QED  BY <1>1, <1>2, <1>4, <2>1, <2>2 DEF Contents, Content, Whole, ValidCreate
<1> QED  BY <1>3, <1>4

(* What the clients send is valid.                                         *)
LEMMA DataFit ==
  /\ \A d \in Data : d \in Content /\ ValidUpdate(d)
  /\ \A d \in NewData : Whole(d)
  /\ NoData \in Content /\ ValidUpdate(NoData)
<1>1. ASSUME NEW d \in Data PROVE d \in Content /\ ValidUpdate(d)
  <2>1. CASE d \in {b \in Bodies : AcceptsUpdate(b)}  BY <2>1, Editing, AcceptedWhole
  <2>2. CASE d \in {UpdateFromV1(b) : b \in {b \in OldBodies : AcceptsUpdateV1(b)}}
    <3>1. PICK b \in OldBodies : AcceptsUpdateV1(b) /\ d = UpdateFromV1(b)  BY <2>2
    <3> QED  BY <3>1, Editing, FromV1
  <2> QED  BY <2>1, <2>2 DEF Data
<1>2. ASSUME NEW d \in NewData PROVE Whole(d)
  <2>1. CASE d \in {b \in Bodies : AcceptsCreate(b)}  BY <2>1, Editing, AcceptedWhole
  <2>2. CASE d \in {CreateFromV1(b) : b \in {b \in OldBodies : AcceptsCreateV1(b)}}
    <3>1. PICK b \in OldBodies : AcceptsCreateV1(b) /\ d = CreateFromV1(b)  BY <2>2
    <3> QED  BY <3>1, Editing, FromV1
  <2> QED  BY <2>1, <2>2 DEF NewData
<1>3. NoData \in Content /\ ValidUpdate(NoData)
    BY LevelsTyped DEF NoData, Contents, Content, ValidUpdate
<1> QED  BY <1>1, <1>2, <1>3

(* The calls by id and by filter.                                          *)
ByIdAs(kind, id, who, data) == [Saving(id, who, data) EXCEPT !.kind = kind]
ByFilterAs(kind, who, data, filter) ==
  [Saving(0, who, data) EXCEPT !.kind = kind, !.filter = filter]

CallTyped(c, kind, data) == c \in Call /\ c.kind = kind /\ c.data = data

(* They are calls, with the data they are made for.                        *)
LEMMA SavingTyped ==
  ASSUME NEW who \in Subjects, NEW data \in Content
  PROVE  /\ \A id \in 0..MaxId :
              CallTyped(Saving(id, who, data), IF id = 0 THEN "create" ELSE "update", data)
         /\ \A id \in 0..MaxId, kind \in Kinds :
              CallTyped(ByIdAs(kind, id, who, data), kind, data)
         /\ \A kind \in Kinds, filter \in SUBSET Int :
              CallTyped(ByFilterAs(kind, who, data, filter), kind, data)
<1> DEFINE c(kind, id, filter) ==
             [kind |-> kind, id |-> id, owner |-> who, data |-> data, filter |-> filter]
<1>1. \A kind \in Kinds, id \in 0..MaxId, filter \in SUBSET Int :
        CallTyped(c(kind, id, filter), kind, data)
    BY DEF CallTyped, Call
<1>2. {} \in SUBSET Int /\ 0 \in 0..MaxId  BY Bound
<1>3. \A id : Saving(id, who, data) = c(IF id = 0 THEN "create" ELSE "update", id, {})
    BY DEF Saving
<1>4. \A old, kind, id : [c(old, id, {}) EXCEPT !.kind = kind] = c(kind, id, {})  OBVIOUS
<1>5. \A kind, id, filter : [c(kind, id, {}) EXCEPT !.filter = filter] = c(kind, id, filter)
    OBVIOUS
<1> HIDE DEF c
<1>6. ASSUME NEW id, NEW kind PROVE ByIdAs(kind, id, who, data) = c(kind, id, {})
    BY <1>3, <1>4 DEF ByIdAs
<1>7. ASSUME NEW filter, NEW kind PROVE ByFilterAs(kind, who, data, filter) = c(kind, 0, filter)
  <2> DEFINE one == ByIdAs(kind, 0, who, data)
  <2>1. one = c(kind, 0, {})  BY <1>6
  <2>2. ByFilterAs(kind, who, data, filter) = [one EXCEPT !.filter = filter]
      BY Zenon DEF ByFilterAs, ByIdAs
  <2> HIDE DEF one
  <2> QED  BY <1>5, <2>1, <2>2
<1>8. \A id \in 0..MaxId : (IF id = 0 THEN "create" ELSE "update") \in Kinds  BY DEF Kinds
<1>9. \A id \in 0..MaxId :
        CallTyped(Saving(id, who, data), IF id = 0 THEN "create" ELSE "update", data)
    BY <1>1, <1>2, <1>3, <1>8
<1>10. \A id \in 0..MaxId, kind \in Kinds : CallTyped(ByIdAs(kind, id, who, data), kind, data)
    BY <1>1, <1>2, <1>6
<1>11. \A kind \in Kinds, filter \in SUBSET Int :
         CallTyped(ByFilterAs(kind, who, data, filter), kind, data)
    BY <1>1, <1>2, <1>7
<1> QED  BY <1>9, <1>10, <1>11

-----------------------------------------------------------------------------
(* The invariant of those who edit.                                        *)

(* A page is at work while the form it has sent is.                        *)
PagesMatch ==
  \A t \in Threads : page[t] # NoPage =>
    t \in Tabs /\ (page[t].sent = "no" <=> at[t] = "idle")

(* What is on its way is whole or valid, and clean if a page has sent it.  *)
CallsFit ==
  \A t \in Threads : at[t] \in AtWork =>
    /\ Fits(call[t])
    /\ page[t] # NoPage => Paged(call[t])
    /\ at[t] # "called" => call[t].kind = "create"

(* What is in the store is whole, and clean if a page has written it.      *)
RecordsWhole ==
  \A i \in Ids :
    /\ records[i] # Absent => Whole(records[i].value)
    /\ wrote[i].via \in {"form", "script"} =>
         records[i] # Absent /\ records[i].value.powers \in Clean

Edited ==
  /\ page \in [Threads -> {NoPage} \cup Page]
  /\ wrote \in [Ids -> Writings]
  /\ PagesMatch /\ CallsFit /\ RecordsWhole

(* An open page is that of a tab whose thread is idle.                     *)
LEMMA Opened ==
  ASSUME Edited, NEW t \in Threads, IsOpen(t)
  PROVE  /\ page[t] \in Page /\ page[t].fields \in Fields /\ page[t].id \in 0..MaxId
         /\ t \in Tabs /\ at[t] = "idle"
<1>1. page[t] # NoPage /\ page[t].sent = "no"  BY DEF IsOpen
<1>2. page[t] \in Page  BY <1>1 DEF Edited
<1>3. t \in Tabs /\ at[t] = "idle"  BY <1>1 DEF Edited, PagesMatch
<1> QED  BY <1>2, <1>3 DEF Page

(* A page that is opened, filled in or closed.                             *)
LEMMA PageKeeps ==
  ASSUME MemoryTyped, Edited, NEW t \in Threads, at[t] = "idle",
         NEW p \in {NoPage} \cup Page, p # NoPage => t \in Tabs /\ p.sent = "no",
         page' = [page EXCEPT ![t] = p], UNCHANGED <<store, wrote>>
  PROVE  Edited'
<1>1. UNCHANGED <<records, at, call>>  BY DEF store
<1>2. page' \in [Threads -> {NoPage} \cup Page]  BY DEF Edited
<1>3. PagesMatch'  BY <1>1 DEF Edited, PagesMatch
<1>4. CallsFit'
  <2>1. \A s \in Threads : at[s] \in AtWork => page'[s] = page[s]
      BY DEF AtWork, Edited
  <2> QED  BY <1>1, <2>1 DEF Edited, CallsFit, Fits, Paged
<1>5. RecordsWhole'  BY <1>1 DEF Edited, RecordsWhole, Whole
<1> QED  BY <1>2, <1>3, <1>4, <1>5 DEF Edited

(* A call that fits, of a client or of an open page.                       *)
LEMMA BeginKeeps ==
  ASSUME MemoryTyped, Edited, NEW t \in Threads, NEW c \in Call, Begin(t, c), Fits(c),
         UNCHANGED wrote,
         \/ page[t] = NoPage /\ UNCHANGED page
         \/ \E how \in {"form", "script"} : IsOpen(t) /\ Paged(c) /\ Sent(t, how)
  PROVE  Edited'
<1>1. /\ at' = [at EXCEPT ![t] = "called"] /\ call' = [call EXCEPT ![t] = c]
      /\ UNCHANGED records
    BY DEF Begin
<1>2. at'[t] = "called" /\ call'[t] = c /\ \A s \in Threads \ {t} : at'[s] = at[s] /\ call'[s] = call[s]
    BY <1>1 DEF MemoryTyped
<1>3. /\ page' \in [Threads -> {NoPage} \cup Page]
      /\ \A s \in Threads \ {t} : page'[s] = page[s]
      /\ page'[t] # NoPage => Paged(c) /\ t \in Tabs /\ page'[t].sent # "no"
  <2>1. CASE page[t] = NoPage /\ UNCHANGED page  BY <2>1 DEF Edited
  <2>2. ASSUME NEW how \in {"form", "script"}, IsOpen(t), Paged(c), Sent(t, how)
        PROVE  /\ page' \in [Threads -> {NoPage} \cup Page]
               /\ \A s \in Threads \ {t} : page'[s] = page[s]
               /\ page'[t] # NoPage => Paged(c) /\ t \in Tabs /\ page'[t].sent # "no"
    <3> DEFINE p == [page[t] EXCEPT !.sent = how]
    <3>1. page[t] \in Page /\ t \in Tabs  BY <2>2, Opened
    <3>2. p \in Page /\ p.sent = how  BY <3>1 DEF Page
    <3>3. page' = [page EXCEPT ![t] = p]  BY <2>2 DEF Sent
    <3> HIDE DEF p
    <3> QED  BY <2>2, <3>1, <3>2, <3>3 DEF Edited
  <2> QED  BY <2>1, <2>2
<1>4. PagesMatch'  BY <1>2, <1>3 DEF Edited, PagesMatch
<1>5. CallsFit'
  <2> SUFFICES ASSUME NEW s \in Threads, at'[s] \in AtWork
               PROVE  /\ Fits(call'[s])
                      /\ page'[s] # NoPage => Paged(call'[s])
                      /\ at'[s] # "called" => call'[s].kind = "create"
      BY DEF CallsFit, Fits, Paged, Whole
  <2>1. CASE s = t  BY <1>2, <1>3, <2>1
  <2>2. CASE s # t  BY <1>2, <1>3, <2>2 DEF Edited, CallsFit
  <2> QED  BY <2>1, <2>2
<1>6. RecordsWhole'  BY <1>1 DEF Edited, RecordsWhole, Whole
<1> QED  BY <1>3, <1>4, <1>5, <1>6 DEF Edited

(* Clean powers are a list of texts.                                       *)
LEMMA CleanList == \A powers \in Clean : powers \in Seq(Text) /\ powers # Null
<1>1. {<<"a">>, <<"b">>} \subseteq Text
  <2>1. \A w \in Pieces : <<w>> \in Seq(Pieces) /\ <<w>> # <<>>  OBVIOUS
  <2>2. {"a", "b"} \subseteq Pieces  BY DEF Pieces
  <2> QED  BY <2>1, <2>2 DEF Text
<1>2. Clean \subseteq Seq(Text)  BY <1>1 DEF Clean
<1> QED  BY <1>2, Nulls

(* What a thread at work leaves in the store.                              *)
LEMMA WorkLeaves ==
  ASSUME MemoryTyped, Edited, NEW t \in Threads, Work(t), NEW i \in Ids,
         records'[i] # records[i]
  PROVE  /\ records'[i] # Absent /\ Whole(records'[i].value)
         /\ page[t] # NoPage => records'[i].value.powers \in Clean
<1>1. at[t] \in AtWork  BY DEF Work, ReadClock, TakeId, Insert, Write, AtWork
<1>2. /\ call[t] \in Call /\ call[t].data \in Content
      /\ Fits(call[t]) /\ (page[t] # NoPage => Paged(call[t]))
      /\ at[t] # "called" => call[t].kind = "create"
    BY <1>1 DEF MemoryTyped, Edited, CallsFit, Call
<1>3. CASE ReadClock(t) \/ TakeId(t)  BY <1>3 DEF ReadClock, TakeId
<1>4. CASE Insert(t)
  <2>1. records'[i] = Created(t) /\ at[t] = "counted"  BY <1>4 DEF Insert
  <2>2. Created(t) \in Row /\ Created(t).value = call[t].data
      BY <2>1, CreatedTyped DEF Created
  <2>3. call[t].kind = "create"  BY <1>2, <2>1
  <2> QED  BY <1>2, <2>1, <2>2, <2>3, NoRow DEF Fits, Paged
<1>5. CASE Write(t)
  <2> DEFINE c == call[t]
             S == Hits(c)
             old == records[i].value
  <2>1. c.kind \in Kinds /\ c.kind # "create"  BY <1>2, <1>5 DEF Write, Call
  <2>2. records'[i] = Stamped(c, S, i) /\ i \in S  BY <1>5 DEF Write
  <2>3. records'[i] # Absent  BY <1>2, <2>1, <2>2, StampedTyped, NoRow
  <2>4. records[i] \in Row /\ Whole(old)
      BY <2>2 DEF Hits, Live, MemoryTyped, Edited, RecordsWhole
  <2>5. CASE c.kind \in {"update", "update_many"}
    <3>1. records'[i].value = ApplyUpdate(old, c.data)  BY <2>2, <2>4, <2>5 DEF Stamped, Row
    <3>2. ValidUpdate(c.data)  BY <1>2, <2>1 DEF Fits
    <3>3. /\ Whole(ApplyUpdate(old, c.data))
          /\ c.data.powers # Null => ApplyUpdate(old, c.data).powers = c.data.powers
        BY <1>2, <2>4, <3>2, UpdateWhole
    <3> QED  BY <1>2, <2>3, <3>1, <3>3, CleanList DEF Paged
  <2>6. CASE c.kind \in {"delete", "delete_many"}
    <3>1. records'[i].value = old  BY <2>2, <2>4, <2>6 DEF Stamped, Row
    <3>2. page[t] = NoPage  BY <1>2, <2>6 DEF Paged
    <3> QED  BY <2>3, <2>4, <3>1, <3>2
  <2> QED  BY <2>1, <2>5, <2>6 DEF Kinds
<1> QED  BY <1>3, <1>4, <1>5 DEF Work

(* A step of the store; the history follows what it writes.                *)
LEMMA ProceedKeeps ==
  ASSUME MemoryTyped, Edited, NEW t \in Threads, Proceed(t)
  PROVE  Edited'
<1>1. /\ Work(t) /\ UNCHANGED <<page, call>>
      /\ wrote' = [i \in Ids |-> IF records'[i] # records[i] THEN Writing(t) ELSE wrote[i]]
    BY DEF Proceed, Work, ReadClock, TakeId, Insert, Write
<1>2. /\ at[t] \in AtWork /\ at'[t] # "idle" /\ \A s \in Threads \ {t} : at'[s] = at[s]
      /\ at'[t] \in AtWork => call[t].kind = "create"
    BY <1>1 DEF Work, ReadClock, TakeId, Insert, Write, AtWork, MemoryTyped, Edited, CallsFit
<1>3. PagesMatch'  BY <1>1, <1>2 DEF AtWork, Edited, PagesMatch
<1>4. CallsFit'
  <2> SUFFICES ASSUME NEW s \in Threads, at'[s] \in AtWork
               PROVE  /\ Fits(call[s])
                      /\ page[s] # NoPage => Paged(call[s])
                      /\ at'[s] # "called" => call[s].kind = "create"
      BY <1>1 DEF CallsFit, Fits, Paged, Whole
  <2> QED  BY <1>2 DEF Edited, CallsFit
<1>5. Writing(t) \in Writings
         /\ (Writing(t).via \in {"form", "script"} => page[t] # NoPage)
  <2>1. CASE page[t] = NoPage  BY <2>1 DEF Writing, Unwritten, Writings
  <2>2. CASE page[t] # NoPage
    <3>1. page[t] \in Page /\ page[t].sent # "no"
        BY <1>2, <2>2 DEF Edited, PagesMatch, AtWork
    <3> DEFINE blank == page[t].fields.level = Blank
    <3>2. blank \in BOOLEAN  BY Zenon
    <3> HIDE DEF blank
    <3>3. Writing(t) = [via |-> page[t].sent, blank |-> blank]  BY <2>2 DEF Writing, blank
    <3>4. page[t].sent \in {"form", "script"}  BY <3>1 DEF Page
    <3> QED  BY <2>2, <3>2, <3>3, <3>4 DEF Writings
  <2> QED  BY <2>1, <2>2
<1>6. wrote' \in [Ids -> Writings]  BY <1>1, <1>5 DEF Edited
<1>7. RecordsWhole'
  <2> SUFFICES ASSUME NEW i \in Ids
               PROVE  /\ records'[i] # Absent => Whole(records'[i].value)
                      /\ wrote'[i].via \in {"form", "script"} =>
                           records'[i] # Absent /\ records'[i].value.powers \in Clean
      BY DEF RecordsWhole, Whole
  <2>1. CASE records'[i] = records[i]  BY <1>1, <2>1 DEF Edited, RecordsWhole
  <2>2. CASE records'[i] # records[i]
    <3>1. wrote'[i] = Writing(t)  BY <1>1, <2>2
    <3> QED  BY <1>1, <1>5, <2>2, <3>1, WorkLeaves
  <2> QED  BY <2>1, <2>2
<1> QED  BY <1>1, <1>3, <1>4, <1>6, <1>7 DEF Edited

(* The answer, after which the thread is idle.                             *)
LEMMA AnswerKeeps ==
  ASSUME MemoryTyped, Edited, NEW t \in Threads, Answer(t)
  PROVE  Edited'
<1>1. /\ at[t] = "returned" /\ at' = [at EXCEPT ![t] = "idle"]
      /\ call' = [call EXCEPT ![t] = NoCall] /\ UNCHANGED <<records, wrote>>
      /\ \/ page' = [page EXCEPT ![t] = NoPage]
         \/ page[t] # NoPage /\ Sent(t, "no")
    BY DEF Answer, Return
<1>2. /\ page' \in [Threads -> {NoPage} \cup Page]
      /\ \A s \in Threads \ {t} : page'[s] = page[s]
      /\ page'[t] # NoPage => t \in Tabs /\ page'[t].sent = "no"
  <2>1. CASE page' = [page EXCEPT ![t] = NoPage]  BY <2>1 DEF Edited
  <2>2. CASE page[t] # NoPage /\ Sent(t, "no")
    <3> DEFINE p == [page[t] EXCEPT !.sent = "no"]
    <3>1. page[t] \in Page /\ t \in Tabs  BY <2>2 DEF Edited, PagesMatch
    <3>2. p \in Page /\ p.sent = "no"  BY <3>1 DEF Page
    <3>3. page' = [page EXCEPT ![t] = p]  BY <2>2 DEF Sent
    <3> HIDE DEF p
    <3> QED  BY <3>1, <3>2, <3>3 DEF Edited
  <2> QED  BY <1>1, <2>1, <2>2
<1>3. at'[t] = "idle" /\ \A s \in Threads \ {t} : at'[s] = at[s] /\ call'[s] = call[s]
    BY <1>1 DEF MemoryTyped
<1>4. PagesMatch'  BY <1>2, <1>3 DEF Edited, PagesMatch
<1>5. CallsFit'
  <2> SUFFICES ASSUME NEW s \in Threads, at'[s] \in AtWork
               PROVE  /\ Fits(call'[s])
                      /\ page'[s] # NoPage => Paged(call'[s])
                      /\ at'[s] # "called" => call'[s].kind = "create"
      BY DEF CallsFit, Fits, Paged, Whole
  <2>1. s # t  BY <1>3 DEF AtWork
  <2> QED  BY <1>2, <1>3, <2>1 DEF Edited, CallsFit
<1>6. RecordsWhole'  BY <1>1 DEF Edited, RecordsWhole, Whole
<1> QED  BY <1>1, <1>2, <1>4, <1>5, <1>6 DEF Edited

(* Opening, filling in and closing a page.                                 *)
LEMMA PageSteps ==
  ASSUME MemoryTyped, Edited, NEW t \in Threads, OpenPage(t) \/ Type(t) \/ Close(t)
  PROVE  Edited'
<1>1. CASE OpenPage(t)
  <2>0. t \in Tabs /\ at[t] = "idle" /\ UNCHANGED <<store, wrote>>  BY <1>1 DEF OpenPage
  <2>1. CASE page' = [page EXCEPT ![t] = [id |-> 0, fields |-> EmptyForm, sent |-> "no"]]
    <3> DEFINE p == [id |-> 0, fields |-> EmptyForm, sent |-> "no"]
    <3>1. EmptyForm \in Fields
      <4>1. <<"">> \in Text  BY DEF Text, Pieces
      <4> QED  BY <4>1 DEF EmptyForm, Fields
    <3>2. p \in Page /\ p.sent = "no"  BY <3>1, Bound DEF Page
    <3> HIDE DEF p
    <3>3. page' = [page EXCEPT ![t] = p]  BY <2>1 DEF p
    <3> QED  BY <2>0, <3>2, <3>3, PageKeeps
  <2>2. ASSUME NEW i \in Ids, Live(i),
               page' = [page EXCEPT ![t] =
                 [id |-> i, fields |-> FormOf(records[i].value), sent |-> "no"]]
        PROVE  Edited'
    <3> DEFINE form == FormOf(records[i].value)
               p == [id |-> i, fields |-> form, sent |-> "no"]
    <3>1. Whole(records[i].value)  BY <2>2 DEF Live, Edited, RecordsWhole
    <3>2. form \in Fields  BY <3>1, FormFields
    <3>3. i \in 0..MaxId  BY Bound DEF Ids
    <3> HIDE DEF form
    <3>4. p \in Page /\ p.sent = "no"  BY <3>2, <3>3 DEF Page
    <3>5. page' = [page EXCEPT ![t] = p]  BY <2>2 DEF form
    <3> HIDE DEF p
    <3> QED  BY <2>0, <3>4, <3>5, PageKeeps
  <2> QED  BY <1>1, <2>1, <2>2 DEF OpenPage
<1>2. CASE Type(t)
  <2>1. PICK field \in DOMAIN Typed : \E input \in Typed[field] :
          page' = [page EXCEPT ![t].fields[field] = input]
      BY <1>2 DEF Type
  <2>2. PICK input \in Typed[field] : page' = [page EXCEPT ![t].fields[field] = input]
      BY <2>1
  <2> DEFINE old == page[t].fields
             new == [old EXCEPT ![field] = input]
             p == [page[t] EXCEPT !.fields = new]
  <2>3. /\ page[t] \in Page /\ old \in Fields /\ t \in Tabs /\ at[t] = "idle"
        /\ page[t].sent = "no" /\ UNCHANGED <<store, wrote>>
      BY <1>2, Opened DEF Type, IsOpen
  <2>4. field \in {"name", "powers", "level"} /\ [EmptyForm EXCEPT ![field] = input] \in Fields
      BY Editing
  <2>5. new \in Fields
    <3> DEFINE typed == [EmptyForm EXCEPT ![field] = input]
    <3>1. typed.name \in Text /\ typed.powers \in Text /\ typed.level \in Int \cup {Blank, Exponent}
        BY <2>4 DEF Fields
    <3>2. CASE field = "name"
      <4>1. typed.name = input  BY <3>2 DEF EmptyForm
      <4> HIDE DEF typed
      <4> QED  BY <2>3, <3>1, <3>2, <4>1 DEF Fields
    <3>3. CASE field = "powers"
      <4>1. typed.powers = input  BY <3>3 DEF EmptyForm
      <4> HIDE DEF typed
      <4> QED  BY <2>3, <3>1, <3>3, <4>1 DEF Fields
    <3>4. CASE field = "level"
      <4>1. typed.level = input  BY <3>4 DEF EmptyForm
      <4> HIDE DEF typed
      <4> QED  BY <2>3, <3>1, <3>4, <4>1 DEF Fields
    <3> QED  BY <2>4, <3>2, <3>3, <3>4
  <2>6. page' = [page EXCEPT ![t] = p]  BY <2>2
  <2> HIDE DEF new
  <2>7. p \in Page /\ p.sent = "no"  BY <2>3, <2>5 DEF Page
  <2> HIDE DEF p
  <2> QED  BY <2>3, <2>6, <2>7, PageKeeps
<1>3. CASE Close(t)
  <2>1. at[t] = "idle"  BY <1>3, Opened DEF Close
  <2> QED  BY <1>3, <2>1, PageKeeps DEF Close
<1> QED  BY <1>1, <1>2, <1>3

(* Submitting a page, with the script or without it.                       *)
LEMMA SubmitSteps ==
  ASSUME MemoryTyped, Edited, NEW t \in Threads, SubmitForm(t) \/ SubmitScript(t)
  PROVE  Edited' /\ (UNCHANGED store \/ \E c \in Call : Begin(t, c))
<1> DEFINE fields == page[t].fields
           id == page[t].id
           saved == FromScript(fields)
<1>1. /\ IsOpen(t) /\ page[t] \in Page /\ fields \in Fields /\ id \in 0..MaxId
      /\ t \in Tabs /\ at[t] = "idle"
    BY Opened DEF SubmitForm, SubmitScript
<1>2. FormAccepted(fields) => FromForm(fields) = saved /\ AcceptsCreate(saved)
    BY <1>1, SavedTyped
<1>3. ASSUME AcceptsCreate(saved), NEW who \in Tokens[t], NEW how \in {"form", "script"},
             Begin(t, Saving(id, who, saved)), Sent(t, how), UNCHANGED wrote
      PROVE  Edited' /\ \E c \in Call : Begin(t, c)
  <2> DEFINE c == Saving(id, who, saved)
  <2>1. Whole(saved) /\ saved.powers \in Clean  BY <1>1, <1>3, SavedWhole
  <2>2. who \in Subjects  BY <1>3, Editing
  <2> HIDE DEF id, saved
  <2>3. c \in Call /\ c.data = saved /\ c.kind \in {"create", "update"}
    <3>1. id \in 0..MaxId /\ saved \in Content  BY <1>1, <2>1 DEF id, Whole
    <3>2. CallTyped(c, IF id = 0 THEN "create" ELSE "update", saved)
        BY <2>2, <3>1, SavingTyped
    <3> QED  BY <3>2 DEF CallTyped
  <2> HIDE DEF c
  <2>4. Fits(c) /\ Paged(c)
    <3>1. ValidUpdate(saved)  BY <2>1, WholeFields
    <3> QED  BY <2>1, <2>3, <3>1 DEF Fits, Paged
  <2>5. Begin(t, c)  BY <1>3 DEF c, id
  <2> QED  BY <1>1, <1>3, <2>3, <2>4, <2>5, BeginKeeps
<1>4. CASE SubmitScript(t)
  <2>1. PICK who \in Tokens[t] : Begin(t, Saving(id, who, saved))  BY <1>4 DEF SubmitScript
  <2>2. AcceptsCreate(saved) /\ Sent(t, "script") /\ UNCHANGED wrote  BY <1>4 DEF SubmitScript
  <2> HIDE DEF fields, id, saved
  <2> QED  BY <1>3, <2>1, <2>2
<1>5. CASE SubmitForm(t) /\ FormAccepted(fields)
  <2>1. FromForm(fields) = saved /\ AcceptsCreate(saved)  BY <1>2, <1>5
  <2>2. PICK who \in Tokens[t] : Begin(t, Saving(id, who, saved))
      BY <1>5, <2>1 DEF SubmitForm
  <2>3. AcceptsCreate(saved) /\ Sent(t, "form") /\ UNCHANGED wrote
      BY <1>5, <2>1 DEF SubmitForm
  <2> HIDE DEF fields, id, saved
  <2> QED  BY <1>3, <2>2, <2>3
<1>6. CASE SubmitForm(t) /\ ~FormAccepted(fields)
  <2>1. page' = [page EXCEPT ![t] = NoPage] /\ UNCHANGED <<store, wrote>>
      BY <1>6 DEF SubmitForm
  <2> QED  BY <1>1, <2>1, PageKeeps
<1> QED  BY <1>4, <1>5, <1>6

(* Deleting, and what clients send.                                        *)
LEMMA SendSteps ==
  ASSUME MemoryTyped, Edited, NEW t \in Threads, Delete(t) \/ Send(t)
  PROVE  Edited' /\ \E c \in Call : Begin(t, c)
<1>1. page[t] = NoPage /\ UNCHANGED <<page, wrote>>
    BY DEF Delete, Send, Edited, PagesMatch
<1>2. ASSUME NEW c \in Call, Begin(t, c), Fits(c) PROVE Edited' /\ \E d \in Call : Begin(t, d)
    BY <1>1, <1>2, BeginKeeps
<1>3. MaxId \in Nat /\ 0 \in 0..MaxId /\ \A i \in Ids : i \in 0..MaxId /\ i # 0
    BY Bound DEF Ids
<1>4. \A who \in Tokens[t] : who \in Subjects  BY Editing
<1>5. \A f \in Filters : f \in SUBSET Int  BY Editing
<1>6. {"delete", "delete_many", "update_many"} \subseteq Kinds  BY DEF Kinds
<1>7. CASE Delete(t)
  <2>1. PICK who \in Tokens[t] :
          \/ \E i \in Ids : Begin(t, [Saving(i, who, NoData) EXCEPT !.kind = "delete"])
          \/ \E f \in Filters :
               Begin(t, [Saving(0, who, NoData) EXCEPT !.kind = "delete_many", !.filter = f])
      BY <1>7 DEF Delete
  <2>2. CASE \E i \in Ids : Begin(t, [Saving(i, who, NoData) EXCEPT !.kind = "delete"])
    <3>1. PICK i \in Ids : Begin(t, [Saving(i, who, NoData) EXCEPT !.kind = "delete"])
        BY <2>2
    <3> DEFINE c == ByIdAs("delete", i, who, NoData)
    <3>2. CallTyped(c, "delete", NoData)  BY <1>3, <1>4, <1>6, DataFit, SavingTyped
    <3>3. Begin(t, c)  BY <3>1, Zenon DEF ByIdAs
    <3> HIDE DEF c
    <3>4. c \in Call /\ Fits(c)  BY <3>2, DataFit DEF Fits, CallTyped
    <3> QED  BY <1>2, <3>3, <3>4
  <2>3. CASE \E f \in Filters :
               Begin(t, [Saving(0, who, NoData) EXCEPT !.kind = "delete_many", !.filter = f])
    <3>1. PICK f \in Filters :
            Begin(t, [Saving(0, who, NoData) EXCEPT !.kind = "delete_many", !.filter = f])
        BY <2>3
    <3> DEFINE c == ByFilterAs("delete_many", who, NoData, f)
    <3>2. CallTyped(c, "delete_many", NoData)
        BY <1>4, <1>5, <1>6, DataFit, SavingTyped
    <3>3. Begin(t, c)  BY <3>1, Zenon DEF ByFilterAs
    <3> HIDE DEF c
    <3>4. c \in Call /\ Fits(c)  BY <3>2, DataFit DEF Fits, CallTyped
    <3> QED  BY <1>2, <3>3, <3>4
  <2> QED  BY <2>1, <2>2, <2>3
<1>8. CASE Send(t)
  <2>1. PICK who \in Tokens[t] :
          \/ \E d \in NewData : Begin(t, Saving(0, who, d))
          \/ \E d \in Data, i \in Ids : Begin(t, Saving(i, who, d))
          \/ \E d \in Data, f \in Filters :
               Begin(t, [Saving(0, who, d) EXCEPT !.kind = "update_many", !.filter = f])
      BY <1>8 DEF Send
  <2>2. ASSUME NEW d \in NewData, Begin(t, Saving(0, who, d))
        PROVE  Edited' /\ \E e \in Call : Begin(t, e)
    <3> DEFINE c == Saving(0, who, d)
    <3>1. Whole(d) /\ d \in Content  BY DataFit DEF Whole
    <3>2. CallTyped(c, "create", d)  BY <1>3, <1>4, <3>1, SavingTyped
    <3>3. Begin(t, c)  BY <2>2
    <3> HIDE DEF c
    <3>4. c \in Call /\ Fits(c)  BY <3>1, <3>2 DEF Fits, CallTyped
    <3> QED  BY <1>2, <3>3, <3>4
  <2>3. ASSUME NEW d \in Data, NEW i \in Ids, Begin(t, Saving(i, who, d))
        PROVE  Edited' /\ \E e \in Call : Begin(t, e)
    <3> DEFINE c == Saving(i, who, d)
    <3>1. d \in Content /\ ValidUpdate(d)  BY DataFit
    <3>2. CallTyped(c, "update", d)  BY <1>3, <1>4, <3>1, SavingTyped
    <3>3. Begin(t, c)  BY <2>3
    <3> HIDE DEF c
    <3>4. c \in Call /\ Fits(c)  BY <3>1, <3>2 DEF Fits, CallTyped
    <3> QED  BY <1>2, <3>3, <3>4
  <2>4. ASSUME NEW d \in Data, NEW f \in Filters,
               Begin(t, [Saving(0, who, d) EXCEPT !.kind = "update_many", !.filter = f])
        PROVE  Edited' /\ \E e \in Call : Begin(t, e)
    <3> DEFINE c == ByFilterAs("update_many", who, d, f)
    <3>1. d \in Content /\ ValidUpdate(d)  BY DataFit
    <3>2. CallTyped(c, "update_many", d)  BY <1>4, <1>5, <1>6, <3>1, SavingTyped
    <3>3. Begin(t, c)  BY <2>4, Zenon DEF ByFilterAs
    <3> HIDE DEF c
    <3>4. c \in Call /\ Fits(c)  BY <3>1, <3>2 DEF Fits, CallTyped
    <3> QED  BY <1>2, <3>3, <3>4
  <2> QED  BY <2>1, <2>2, <2>3, <2>4
<1> QED  BY <1>7, <1>8

-----------------------------------------------------------------------------
(* The bounds of the types.                                                *)

(* The creations under way fit below the bound, ids and calls included.    *)
Room ==
  /\ IsFiniteSet(Creating)
  /\ nextId + Cardinality(Creating) <= MaxId + 1
  /\ call \in [Threads -> Call]
  /\ hits \in [Threads -> SUBSET Ids]

(* The call of a thread at rest is one, as there is a subject.             *)
LEMMA NoCallTyped == NoCall \in Call
<1>1. (CHOOSE s \in Subjects : TRUE) \in Subjects  BY Editing
<1>2. 0 \in 0..MaxId  BY Bound
<1> DEFINE some == CHOOSE s \in Subjects : TRUE
<1> HIDE DEF some
<1>3. NoCall = [kind |-> "update", id |-> 0, owner |-> some,
                data |-> Contents(Null, Null, Null), filter |-> {}]
    BY DEF NoCall, some
<1>4. some \in Subjects  BY <1>1 DEF some
<1> QED  BY <1>2, <1>3, <1>4, LevelsTyped DEF Call, Kinds, Contents, Content

(* How many are creating.                                                  *)
LEMMA RoomKept ==
  ASSUME MemoryTyped, Room, UNCHANGED nextId, Creating' = Creating,
         call' \in [Threads -> Call], hits' \in [Threads -> SUBSET Ids]
  PROVE  Room'
  BY DEF Room

(* Every step of the store leaves room for the creations under way.        *)
LEMMA RoomStep == MemoryTyped /\ Edited /\ Room /\ [MemoryNext]_store => Room'
<1> SUFFICES ASSUME MemoryTyped, Edited, Room, [MemoryNext]_store PROVE Room'  OBVIOUS
<1>0. /\ nextId \in Nat \ {0} /\ MaxId \in Nat
      /\ IsFiniteSet(Creating) /\ Cardinality(Creating) \in Nat
      /\ nextId + Cardinality(Creating) <= MaxId + 1
      /\ call \in [Threads -> Call] /\ hits \in [Threads -> SUBSET Ids]
    BY Bound, FS_CardinalityType DEF MemoryTyped, Room
<1>1. CASE UNCHANGED store
  <2>1. UNCHANGED <<nextId, at, call, hits>>  BY <1>1 DEF store
  <2>2. Creating' = Creating  BY <2>1 DEF Creating
  <2> QED  BY <1>0, <2>1, <2>2, RoomKept
<1>2. ASSUME NEW t \in Threads, NEW c \in Call, Begin(t, c) PROVE Room'
  <2>1. /\ at[t] = "idle" /\ at' = [at EXCEPT ![t] = "called"]
        /\ call' = [call EXCEPT ![t] = c] /\ UNCHANGED <<nextId, hits>>
        /\ c.kind = "create" => nextId + Cardinality(Creating) <= MaxId
      BY <1>2 DEF Begin
  <2>2. call' \in [Threads -> Call] /\ hits' \in [Threads -> SUBSET Ids]  BY <1>0, <2>1
  <2>3. \A s \in Threads : s \in Creating' <=> s \in Creating \/ (s = t /\ c.kind = "create")
      BY <1>0, <2>1 DEF Creating, MemoryTyped
  <2>4. t \notin Creating  BY <2>1 DEF Creating
  <2>5. CASE c.kind = "create"
    <3>1. Creating' = Creating \cup {t}  BY <2>3, <2>5 DEF Creating
    <3>2. IsFiniteSet(Creating') /\ Cardinality(Creating') = Cardinality(Creating) + 1
        BY <1>0, <2>4, <3>1, FS_AddElement
    <3>3. nextId' + Cardinality(Creating') <= MaxId + 1  BY <1>0, <2>1, <2>5, <3>2
    <3> QED  BY <2>2, <3>2, <3>3 DEF Room
  <2>6. CASE c.kind # "create"
    <3>1. Creating' = Creating  BY <2>3, <2>6 DEF Creating
    <3> QED  BY <2>1, <2>2, <3>1, RoomKept
  <2> QED  BY <2>5, <2>6
<1>3. ASSUME NEW t \in Threads, ReadClock(t) PROVE Room'
  <2>1. Creating' = Creating  BY <1>3 DEF ReadClock, Creating, MemoryTyped
  <2> QED  BY <1>0, <1>3, <2>1, RoomKept DEF ReadClock
<1>4. ASSUME NEW t \in Threads, TakeId(t) PROVE Room'
  <2>0. call[t].kind = "create"  BY <1>4 DEF TakeId, Edited, CallsFit, AtWork
  <2>1. t \in Creating /\ Creating' = Creating \ {t}
      BY <1>4, <2>0 DEF TakeId, Creating, MemoryTyped
  <2>2. IsFiniteSet(Creating') /\ Cardinality(Creating') = Cardinality(Creating) - 1
      BY <1>0, <2>1, FS_RemoveElement
  <2>3. nextId' = nextId + 1 /\ call' = call /\ hits' = [hits EXCEPT ![t] = {nextId}]
      BY <1>4 DEF TakeId
  <2>4. Cardinality(Creating') \in Nat  BY <2>2, FS_CardinalityType
  <2>5. nextId' + Cardinality(Creating') <= MaxId + 1  BY <1>0, <2>2, <2>3
  <2>6. nextId \in Ids
    <3>1. Cardinality(Creating) >= 1  BY <1>0, <2>2, <2>4
    <3> QED  BY <1>0, <3>1 DEF Ids
  <2> QED  BY <1>0, <2>2, <2>3, <2>5, <2>6 DEF Room
<1>5. ASSUME NEW t \in Threads, Insert(t) PROVE Room'
  <2>1. Creating' = Creating  BY <1>5 DEF Insert, Creating, MemoryTyped
  <2> QED  BY <1>0, <1>5, <2>1, RoomKept DEF Insert
<1>6. ASSUME NEW t \in Threads, Write(t) PROVE Room'
  <2>1. Creating' = Creating  BY <1>6 DEF Write, Creating, MemoryTyped
  <2>2. Hits(call[t]) \in SUBSET Ids  BY DEF Hits
  <2>3. hits' = [hits EXCEPT ![t] = Hits(call[t])]  BY <1>6 DEF Write
  <2> QED  BY <1>0, <1>6, <2>1, <2>2, <2>3, RoomKept DEF Write
<1>7. ASSUME NEW t \in Threads, Return(t) PROVE Room'
  <2>1. Creating' = Creating  BY <1>7 DEF Return, Creating, MemoryTyped
  <2> QED  BY <1>0, <1>7, <2>1, NoCallTyped, RoomKept DEF Return
<1> QED  BY <1>1, <1>2, <1>3, <1>4, <1>5, <1>6, <1>7 DEF MemoryNext, Work

(* Every step of those who edit keeps the invariant, and is a step of the  *)
(* store under some call or leaves it alone.                               *)
LEMMA EditStep ==
  MemoryTyped /\ Edited /\ [Next]_vars => Edited' /\ [MemoryNext]_store
<1> SUFFICES ASSUME MemoryTyped, Edited, [Next]_vars PROVE Edited' /\ [MemoryNext]_store
    OBVIOUS
<1>1. CASE UNCHANGED vars
  <2>1. UNCHANGED <<store, page, wrote, records, at, call>>  BY <1>1 DEF vars, store
  <2> QED  BY <2>1 DEF Edited, PagesMatch, CallsFit, RecordsWhole, Fits, Paged, Whole
<1>2. ASSUME NEW t \in Threads, OpenPage(t) \/ Type(t) \/ Close(t)
      PROVE  Edited' /\ [MemoryNext]_store
    BY <1>2, PageSteps DEF OpenPage, Type, Close
<1>3. ASSUME NEW t \in Threads, SubmitForm(t) \/ SubmitScript(t)
      PROVE  Edited' /\ [MemoryNext]_store
    BY <1>3, SubmitSteps DEF MemoryNext
<1>4. ASSUME NEW t \in Threads, Delete(t) \/ Send(t) PROVE Edited' /\ [MemoryNext]_store
    BY <1>4, SendSteps DEF MemoryNext
<1>5. ASSUME NEW t \in Threads, Proceed(t) PROVE Edited' /\ [MemoryNext]_store
    BY <1>5, ProceedKeeps DEF Proceed, MemoryNext
<1>6. ASSUME NEW t \in Threads, Answer(t) PROVE Edited' /\ [MemoryNext]_store
    BY <1>6, AnswerKeeps DEF Answer, MemoryNext
<1> QED  BY <1>1, <1>2, <1>3, <1>4, <1>5, <1>6 DEF Next

(* Nobody has a page open, and nothing has been written.                   *)
LEMMA EditInit == Init => MemoryTyped /\ Edited
<1> SUFFICES ASSUME Init PROVE Edited  BY TypedInit DEF Init
<1>1. page \in [Threads -> {NoPage} \cup Page]  BY DEF Init
<1>2. wrote \in [Ids -> Writings]  BY DEF Init, Unwritten, Writings
<1>3. PagesMatch  BY DEF Init, PagesMatch
<1>4. CallsFit  BY DEF Init, MemoryInit, CallsFit, AtWork
<1>5. RecordsWhole
  <2>1. \A i \in Ids : records[i] = Absent /\ wrote[i].via = "api"
      BY DEF Init, MemoryInit, Unwritten
  <2> QED  BY <2>1 DEF RecordsWhole
<1> QED  BY <1>1, <1>2, <1>3, <1>4, <1>5 DEF Edited

(* Editing keeps its invariant.                                            *)
LEMMA EditInvariant == Spec => [](MemoryTyped /\ Edited)
<1>1. MemoryTyped /\ Edited /\ [Next]_vars => (MemoryTyped /\ Edited)'
    BY EditStep, TypedStep
<1> QED  BY <1>1, EditInit, PTL DEF Spec

(* Whatever the tabs and the clients do, the store of mock mode takes the  *)
(* steps of its own specification: what is proved of it holds for them.    *)
THEOREM EditorsUseTheStore == Spec => MemorySpec
<1>1. Init => MemoryInit  BY DEF Init
<1>2. MemoryTyped /\ Edited /\ [Next]_vars => [MemoryNext]_store  BY EditStep
<1> QED  BY <1>1, <1>2, EditInvariant, PTL DEF Spec, MemorySpec

(* Every variable of HeroEditors keeps its type.                           *)
THEOREM TypeCorrect == Spec => []TypeOK
<1>1. Init => Room
  <2> SUFFICES ASSUME Init PROVE Room  OBVIOUS
  <2>1. Creating = {}  BY DEF Init, MemoryInit, Creating
  <2>2. nextId + 0 <= MaxId + 1 /\ MaxId \in Nat  BY Bound DEF Init, MemoryInit
  <2>3. IsFiniteSet(Creating) /\ Cardinality(Creating) = 0  BY <2>1, FS_EmptySet
  <2> QED  BY <2>2, <2>3, NoCallTyped DEF Init, MemoryInit, Room
<1>2. MemoryTyped /\ Edited /\ Room /\ [Next]_vars => Room'  BY EditStep, RoomStep
<1>3. MemoryTyped /\ Edited /\ Room => TypeOK
  <2> SUFFICES ASSUME MemoryTyped, Edited, Room PROVE TypeOK  OBVIOUS
  <2>1. /\ nextId \in Nat \ {0} /\ MaxId \in Nat /\ Cardinality(Creating) \in Nat
        /\ nextId + Cardinality(Creating) <= MaxId + 1
      BY Bound, FS_CardinalityType DEF MemoryTyped, Room
  <2>2. nextId \in 1 .. MaxId + 1  BY <2>1
  <2>3. MemoryTypeOK
    <3>1. /\ records \in [Ids -> {Absent} \cup Row] /\ counting \in Threads \cup {Nobody}
          /\ clock \in Nat \ {0}
          /\ at \in [Threads -> {"idle", "called", "stamped", "counted", "returned"}]
          /\ stamp \in [Threads -> Nat]
        BY DEF MemoryTyped, AtWork
    <3>2. call \in [Threads -> Call] /\ hits \in [Threads -> SUBSET Ids]  BY DEF Room
    <3> QED  BY <2>2, <3>1, <3>2, Zenon DEF MemoryTypeOK
  <2>4. page \in [Threads -> {NoPage} \cup Page] /\ wrote \in [Ids -> Writings]
      BY DEF Edited
  <2> QED  BY <2>3, <2>4, Zenon DEF TypeOK, Page
<1> QED  BY <1>1, <1>2, <1>3, EditInvariant, PTL DEF Spec

(* Ids without gaps, stamps that advance and the promises of HeroStore,    *)
(* for the editors' specification.                                         *)
THEOREM EditorsKeepThePromises ==
  Spec => []IdsHaveNoGaps /\ StampsFollowCommits /\ ImplementsStore
  BY EditorsUseTheStore, NoGaps, StampsAdvance, Refinement

(* With the script and without it a page saves the same or is refused,     *)
(* but for a level only the script reads.                                  *)
THEOREM ScriptIsTheForm == Spec => []ScriptAgreesWithForm
<1>1. MemoryTyped /\ Edited => ScriptAgreesWithForm
  <2> SUFFICES ASSUME MemoryTyped, Edited, NEW t \in Threads, IsOpen(t),
                      page[t].fields.level # Exponent
               PROVE  /\ FromScript(page[t].fields) = FromForm(page[t].fields)
                      /\ FormAccepted(page[t].fields)
                           <=> AcceptsCreate(FromScript(page[t].fields))
      BY DEF ScriptAgreesWithForm
  <2>1. page[t].fields \in Fields  BY Opened
  <2> QED  BY <2>1, SavedTyped
<1> QED  BY <1>1, EditInvariant, PTL

(* What any representation shows of a stored hero may be written back.     *)
THEOREM ViewsWriteBack == Spec => []EveryViewWritesBack
<1>1. MemoryTyped /\ Edited => EveryViewWritesBack
  <2> SUFFICES ASSUME Edited PROVE EveryViewWritesBack  OBVIOUS
  <2>1. \A i \in Stored : Whole(records[i].value)
      BY DEF Stored, Live, Edited, RecordsWhole
  <2> QED  BY <2>1, WritesBack DEF EveryViewWritesBack
<1> QED  BY <1>1, EditInvariant, PTL

(* The form of a hero the page has saved, submitted untouched, is accepted *)
(* and changes nothing.                                                    *)
THEOREM FormsSettle == Spec => []FormSettles
<1>1. MemoryTyped /\ Edited => FormSettles
  <2> SUFFICES ASSUME Edited, NEW i \in Stored, wrote[i].via \in {"form", "script"}
               PROVE  /\ FormAccepted(FormOf(records[i].value))
                      /\ ApplyUpdate(records[i].value, FromForm(FormOf(records[i].value)))
                           = records[i].value
      BY DEF FormSettles
  <2>1. i \in Ids /\ Whole(records[i].value)
      BY DEF Stored, Live, Edited, RecordsWhole
  <2>2. records[i].value.powers \in Clean  BY <2>1 DEF Edited, RecordsWhole
  <2> QED  BY <2>1, <2>2, FormKeeps
<1> QED  BY <1>1, EditInvariant, PTL

(* But for the width of a level, the manifest's schemas describe exactly   *)
(* the bodies of the clients and of the pages that the routes accept, and  *)
(* whatever the routes show conforms to them.                              *)
THEOREM SchemasDescribeBodies == Spec => []ManifestDescribesBodies
<1>1. MemoryTyped /\ Edited => ManifestDescribesBodies
  <2> SUFFICES ASSUME Edited PROVE ManifestDescribesBodies  OBVIOUS
  <2>1. \A body \in Bodies \cup Scripted : body \in Body
    <3>1. ASSUME NEW body \in Scripted PROVE body \in Body
      <4>1. PICK t \in Threads : IsOpen(t) /\ body = FromScript(page[t].fields)
          BY <3>1 DEF Scripted
      <4>2. page[t].fields \in Fields  BY <4>1, Opened
      <4> QED  BY <4>1, <4>2, SavedTyped
    <3> QED  BY <3>1, Editing
  <2>2. \A body \in OldBodies : body \in BodyV1  BY Editing
  <2>3. ASSUME NEW i \in Stored
        PROVE  /\ Conforms(ReadV2(records[i].value), BodySchema("v2", FALSE))
               /\ Conforms(ReadV1(records[i].value), BodySchema("v1", FALSE))
    <3> DEFINE c == records[i].value
    <3>1. Whole(c)  BY DEF Stored, Live, Edited, RecordsWhole
    <3> HIDE DEF c
    <3>2. ReadV2(c) \in Body /\ ReadV1(c) \in BodyV1  BY <3>1, Showing
    <3>3. AcceptsUpdate(ReadV2(c)) /\ AcceptsUpdateV1(ReadV1(c))  BY <3>1, WritesBack
    <3>4. Conforms(ReadV2(c), BodySchema("v2", FALSE))  BY <3>2, <3>3, SchemaV2
    <3>5. Conforms(ReadV1(c), BodySchema("v1", FALSE))  BY <3>2, <3>3, SchemaV1
    <3> QED  BY <3>4, <3>5 DEF c
  <2> QED  BY <2>1, <2>2, <2>3, SchemaV2, SchemaV1 DEF ManifestDescribesBodies
<1> QED  BY <1>1, EditInvariant, PTL
=============================================================================
