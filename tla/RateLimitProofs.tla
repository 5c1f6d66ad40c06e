---------------------------- MODULE RateLimitProofs ----------------------------
(***************************************************************************)
(* The rate limiter, for any callers, limits and window: types, that both  *)
(* backends implement the fixed window of FixedWindow, and what a span as  *)
(* long as a window admits.                                                *)
(***************************************************************************)
EXTENDS RateLimit, RecursionLemmas

USE RateLimitAssumption, CallersAssumption

(* The counters both backends may hold.                                    *)
RedisCounter == [hits: 1..MaxHits, left: 1..Window]
MockCounter == [hits: 1..MaxHits, age: 0..Window]

(* Callers do not share keys.                                              *)
LEMMA KeysApart ==
  \A c, d \in Callers : KeyOf(c) \in Keys /\ (KeyOf(c) = KeyOf(d) => c = d)
  BY DEF KeyOf, Keys

(* One more hit leaves a counter in its range.                             *)
LEMMA HitsTyped ==
  /\ \A x \in {NoCounter} \cup RedisCounter : Incr(x) \in RedisCounter
  /\ \A x \in {NoCounter} \cup MockCounter : Hit(x) \in MockCounter
<1>1. \A n \in 1..MaxHits : OneMore(n) \in 1..MaxHits  BY DEF OneMore
<1>2. ASSUME NEW x \in {NoCounter} \cup RedisCounter PROVE Incr(x) \in RedisCounter
    BY <1>1, <1>2 DEF Incr, RedisCounter
<1>3. ASSUME NEW x \in {NoCounter} \cup MockCounter PROVE Hit(x) \in MockCounter
    BY <1>1, <1>3 DEF Hit, MockCounter
<1> QED  BY <1>2, <1>3

(* An answer and the history it leaves are of their types.                 *)
LEMMA AnsweredTyped ==
  ASSUME TypeOK, NEW c \in Callers, NEW n, Answered(c, n)
  PROVE  /\ answer' \in {NoAnswer} \cup (Callers \X {"admitted", "429", "500"})
         /\ recent' \in [Callers -> [0..Window - 1 -> Nat]]
<1>1. Verdict(c, n) \in {"admitted", "429"}  BY DEF Verdict
<1>2. [recent EXCEPT ![c][0] = @ + 1] \in [Callers -> [0..Window - 1 -> Nat]]
  <2>1. recent[c] \in [0..Window - 1 -> Nat] /\ 0 \in 0..Window - 1  BY DEF TypeOK
  <2>2. [recent[c] EXCEPT ![0] = @ + 1] \in [0..Window - 1 -> Nat]  BY <2>1
  <2> QED  BY <2>2 DEF TypeOK
<1> QED  BY <1>1, <1>2 DEF Answered, TypeOK

(* Time preserves the types.                                               *)
LEMMA TickTyped == TypeOK /\ Tick => TypeOK'
<1> SUFFICES ASSUME TypeOK, Tick PROVE TypeOK'  OBVIOUS
<1>1. redis' \in [Keys -> {NoCounter} \cup RedisCounter]
  <2>1. ASSUME NEW k \in Keys, redis[k] # NoCounter, redis[k].left # 1
        PROVE  [redis[k] EXCEPT !.left = @ - 1] \in RedisCounter
    <3>1. redis[k] \in RedisCounter  BY <2>1 DEF TypeOK, RedisCounter
    <3> QED  BY <2>1, <3>1 DEF RedisCounter
  <2> QED  BY <2>1 DEF Tick
<1>2. entries' \in [Keys -> {NoCounter} \cup MockCounter]
  <2>1. ASSUME NEW k \in Keys, entries[k] # NoCounter, entries[k].age # Window
        PROVE  [entries[k] EXCEPT !.age = @ + 1] \in MockCounter
    <3>1. entries[k] \in MockCounter  BY <2>1 DEF TypeOK, MockCounter
    <3> QED  BY <2>1, <3>1 DEF MockCounter
  <2> QED  BY <2>1 DEF Tick, TypeOK, MockCounter
<1>3. recent' \in [Callers -> [0..Window - 1 -> Nat]]
  <2>1. \A c \in Callers, a \in 0..Window - 1 :
          (IF a = 0 THEN 0 ELSE recent[c][a - 1]) \in Nat
      BY DEF TypeOK
  <2> QED  BY <2>1 DEF Tick
<1> QED  BY <1>1, <1>2, <1>3 DEF Tick, TypeOK, RedisCounter, MockCounter

(* All variables keep their types: a key in Redis has time left to live,   *)
(* whatever the interleaving of requests and of lost answers.              *)
THEOREM TypeCorrect == Spec => []TypeOK
<1>1. Init => TypeOK  BY DEF Init, TypeOK
<1>2. TypeOK /\ [Next]_vars => TypeOK'
  <2> SUFFICES ASSUME TypeOK, [Next]_vars PROVE TypeOK'  OBVIOUS
  <2>1. CASE UNCHANGED vars  BY <2>1 DEF vars, TypeOK
  <2>2. CASE Tick  BY <2>2, TickTyped
  <2>3. CASE LoseCounters  BY <2>3 DEF LoseCounters, TypeOK
  <2>4. ASSUME NEW c \in Callers, CheckRedis(c) PROVE TypeOK'
      BY <2>4, KeysApart, HitsTyped, AnsweredTyped DEF CheckRedis, TypeOK, RedisCounter
  <2>5. ASSUME NEW c \in Callers, CheckFails(c) PROVE TypeOK'
    <3>1. redis' \in [Keys -> {NoCounter} \cup RedisCounter]
      <4>1. CASE UNCHANGED redis  BY <4>1 DEF TypeOK, RedisCounter
      <4>2. CASE redis' = [redis EXCEPT ![KeyOf(c)] = Incr(@)]
          BY <4>2, KeysApart, HitsTyped DEF TypeOK, RedisCounter
      <4> QED  BY <2>5, <4>1, <4>2 DEF CheckFails
    <3>2. answer' \in {NoAnswer} \cup (Callers \X {"admitted", "429", "500"})
        BY <2>5 DEF CheckFails
    <3> QED  BY <2>5, <3>1, <3>2 DEF CheckFails, TypeOK, RedisCounter
  <2>6. ASSUME NEW c \in Callers, CheckMock(c) PROVE TypeOK'
      BY <2>6, KeysApart, HitsTyped, AnsweredTyped DEF CheckMock, TypeOK, MockCounter
  <2> QED  BY <2>1, <2>2, <2>3, <2>4, <2>5, <2>6 DEF Next
<1> QED  BY <1>1, <1>2, PTL DEF Spec

-----------------------------------------------------------------------------

(* The backend in use counts a request of c.                               *)
Counts(c) ==
  \/ backend = "redis" /\ redis' = [redis EXCEPT ![KeyOf(c)] = Incr(@)]
  \/ backend = "mock" /\ entries' = [entries EXCEPT ![KeyOf(c)] = Hit(@)]

(* The number of hits a counted request is judged by.                      *)
CountOf(c) ==
  IF backend = "redis" THEN Incr(redis[KeyOf(c)]).hits ELSE Hit(entries[KeyOf(c)]).hits

(* What is mapped of a caller is a budget and a window.                    *)
LEMMA MappedTyped ==
  ASSUME TypeOK, NEW c \in Callers
  PROVE  LeftOf(c) \in 0..Window /\ UsedBy(c) \in 0..Limit[c]
<1>1. Counter(c) # NoCounter =>
        /\ backend = "redis" => Counter(c) \in RedisCounter
        /\ backend = "mock" => Counter(c) \in MockCounter
    BY KeysApart DEF TypeOK, Counter, RedisCounter, MockCounter
<1>2. Limit[c] \in Nat  OBVIOUS
<1>3. LeftOf(c) \in 0..Window
    BY <1>1 DEF LeftOf, RedisCounter, MockCounter, TypeOK
<1>4. UsedBy(c) \in 0..Limit[c]
    BY <1>1, <1>2 DEF UsedBy, LeftOf, RedisCounter, MockCounter, TypeOK
<1> QED  BY <1>3, <1>4

(* A counted request leaves every other caller's counter alone.            *)
LEMMA OthersKeepTheirs ==
  ASSUME TypeOK, NEW c \in Callers, Counts(c), UNCHANGED backend,
         NEW d \in Callers \ {c}
  PROVE  LeftOf(d)' = LeftOf(d) /\ UsedBy(d)' = UsedBy(d)
<1>1. KeyOf(d) # KeyOf(c) /\ KeyOf(d) \in Keys /\ KeyOf(c) \in Keys  BY KeysApart
<1>2. Counter(d)' = Counter(d)
  <2>1. CASE backend = "redis"  BY <1>1, <2>1 DEF Counts, Counter, TypeOK
  <2>2. CASE backend = "mock"  BY <1>1, <2>2 DEF Counts, Counter, TypeOK
  <2> QED  BY <2>1, <2>2 DEF TypeOK
<1>3. LeftOf(d)' = LeftOf(d)  BY <1>2 DEF LeftOf
<1> QED  BY <1>2, <1>3 DEF UsedBy

(* A counted request opens a window when none is open; in an open one it   *)
(* is one more hit, and the window closes when it would have.              *)
LEMMA CountedOpens ==
  ASSUME TypeOK, NEW c \in Callers, Counts(c), UNCHANGED backend
  PROVE  /\ Counter(c)' # NoCounter /\ Counter(c)'.hits = CountOf(c)
         /\ \/ LeftOf(c) = 0 /\ LeftOf(c)' = Window /\ CountOf(c) = 1
            \/ /\ LeftOf(c) \in 1..Window /\ LeftOf(c)' = LeftOf(c)
               /\ Counter(c) # NoCounter /\ Counter(c).hits \in 1..MaxHits
               /\ CountOf(c) = OneMore(Counter(c).hits)
<1>0. /\ NoCounter \notin RedisCounter /\ NoCounter \notin MockCounter
      /\ KeyOf(c) \in Keys
    BY KeysApart DEF RedisCounter, MockCounter
<1>1. CASE backend = "redis"
  <2>1. redis' = [redis EXCEPT ![KeyOf(c)] = Incr(@)] /\ backend' = "redis"
      BY <1>1 DEF Counts
  <2> DEFINE x == redis[KeyOf(c)]
  <2>2. Counter(c) = x /\ Counter(c)' = Incr(x) /\ x \in {NoCounter} \cup RedisCounter
      BY <1>0, <1>1, <2>1 DEF Counter, TypeOK, RedisCounter
  <2>3. CountOf(c) = Incr(x).hits  BY <1>1 DEF CountOf
  <2>4. LeftOf(c)' = IF Incr(x) = NoCounter THEN 0 ELSE Incr(x).left
      BY <2>1, <2>2 DEF LeftOf
  <2>5. LeftOf(c) = IF x = NoCounter THEN 0 ELSE x.left  BY <1>1, <2>2 DEF LeftOf
  <2>6. Incr(x) # NoCounter  BY <1>0, <2>2, HitsTyped
  <2> HIDE DEF x
  <2>7. CASE x = NoCounter
    <3>1. Incr(x).hits = 1 /\ Incr(x).left = Window  BY <2>7 DEF Incr
    <3> QED  BY <2>2, <2>3, <2>4, <2>5, <2>6, <2>7, <3>1
  <2>8. CASE x # NoCounter
    <3>1. x \in RedisCounter  BY <2>2, <2>8
    <3>2. Incr(x).hits = OneMore(x.hits) /\ Incr(x).left = x.left
        BY <2>8, <3>1 DEF Incr, RedisCounter
    <3>3. x.hits \in 1..MaxHits /\ x.left \in 1..Window  BY <3>1 DEF RedisCounter
    <3> QED  BY <2>2, <2>3, <2>4, <2>5, <2>6, <2>8, <3>2, <3>3
  <2> QED  BY <2>7, <2>8
<1>2. CASE backend = "mock"
  <2>1. entries' = [entries EXCEPT ![KeyOf(c)] = Hit(@)] /\ backend' = "mock"
      BY <1>2 DEF Counts
  <2> DEFINE x == entries[KeyOf(c)]
  <2>2. Counter(c) = x /\ Counter(c)' = Hit(x) /\ x \in {NoCounter} \cup MockCounter
      BY <1>0, <1>2, <2>1 DEF Counter, TypeOK, MockCounter
  <2>3. CountOf(c) = Hit(x).hits  BY <1>2 DEF CountOf
  <2>4. LeftOf(c)' = IF Hit(x) = NoCounter THEN 0 ELSE Window - Hit(x).age
      BY <2>1, <2>2 DEF LeftOf
  <2>5. LeftOf(c) = IF x = NoCounter THEN 0 ELSE Window - x.age
      BY <1>2, <2>2 DEF LeftOf
  <2>6. Hit(x) # NoCounter  BY <1>0, <2>2, HitsTyped
  <2> HIDE DEF x
  <2>7. CASE x = NoCounter \/ x.age >= Window
    <3>1. Hit(x).hits = 1 /\ Hit(x).age = 0  BY <2>7 DEF Hit
    <3>2. x # NoCounter => x.age \in 0..Window  BY <2>2 DEF MockCounter
    <3>3. LeftOf(c) = 0  BY <2>5, <2>7, <3>2
    <3> QED  BY <2>2, <2>3, <2>4, <2>6, <3>1, <3>3
  <2>8. CASE ~(x = NoCounter \/ x.age >= Window)
    <3>1. x \in MockCounter  BY <2>2, <2>8
    <3>2. Hit(x).hits = OneMore(x.hits) /\ Hit(x).age = x.age
        BY <2>8, <3>1 DEF Hit, MockCounter
    <3>3. x.hits \in 1..MaxHits /\ x.age \in 0..Window  BY <3>1 DEF MockCounter
    <3>4. Window - x.age \in 1..Window  BY <2>8, <3>3
    <3> QED  BY <2>2, <2>3, <2>4, <2>5, <2>6, <2>8, <3>2, <3>3, <3>4
  <2> QED  BY <2>7, <2>8
<1> QED  BY <1>1, <1>2 DEF TypeOK

(* A counted request spends its caller's budget and is judged by it.       *)
LEMMA CountedSpends ==
  ASSUME TypeOK, NEW c \in Callers, Counts(c), UNCHANGED backend
  PROVE  /\ LeftOf(c)' = IF LeftOf(c) = 0 THEN Window ELSE LeftOf(c)
         /\ UsedBy(c)' = IF UsedBy(c) < Limit[c] THEN UsedBy(c) + 1 ELSE UsedBy(c)
         /\ Verdict(c, CountOf(c)) = IF UsedBy(c) < Limit[c] THEN "admitted" ELSE "429"
<1> DEFINE h == Counter(c).hits
           L == Limit[c]
<1>1. L \in Nat /\ MaxHits \in Nat /\ L < MaxHits /\ Window \in Nat /\ Window > 0
    OBVIOUS
<1>2. Limit' = Limit  OBVIOUS
<1>3. Counter(c)' # NoCounter /\ Counter(c)'.hits = CountOf(c)  BY CountedOpens
<1>4. UsedBy(c)' = IF LeftOf(c)' = 0 THEN 0 ELSE IF CountOf(c) > L THEN L ELSE CountOf(c)
    BY <1>3 DEF UsedBy
<1>5. CASE LeftOf(c) = 0 /\ LeftOf(c)' = Window /\ CountOf(c) = 1
  <2>1. UsedBy(c) = 0  BY <1>5 DEF UsedBy
  <2>2. UsedBy(c)' = IF 1 > L THEN L ELSE 1  BY <1>1, <1>4, <1>5
  <2>3. Verdict(c, CountOf(c)) = IF 1 > L THEN "429" ELSE "admitted"
      BY <1>5 DEF Verdict
  <2> HIDE DEF L
  <2> QED  BY <1>1, <1>5, <2>1, <2>2, <2>3 DEF L
<1>6. CASE /\ LeftOf(c) \in 1..Window /\ LeftOf(c)' = LeftOf(c)
           /\ h \in 1..MaxHits /\ CountOf(c) = OneMore(h)
  <2>1. LeftOf(c) # 0 /\ LeftOf(c)' # 0  BY <1>1, <1>6
  <2>2. UsedBy(c) = IF h > L THEN L ELSE h  BY <2>1 DEF UsedBy
  <2>3. CountOf(c) = IF h < MaxHits THEN h + 1 ELSE h  BY <1>6 DEF OneMore
  <2>4. Verdict(c, CountOf(c)) = IF CountOf(c) > L THEN "429" ELSE "admitted"
      BY DEF Verdict
  <2>5. h \in 1..MaxHits  BY <1>6
  <2> HIDE DEF h, L
  <2>6. UsedBy(c)' = IF CountOf(c) > L THEN L ELSE CountOf(c)  BY <1>4, <2>1
  <2>7. CASE h < L
      BY <1>1, <1>6, <2>1, <2>2, <2>3, <2>4, <2>5, <2>6, <2>7 DEF L
  <2>8. CASE h >= L
      BY <1>1, <1>6, <2>1, <2>2, <2>3, <2>4, <2>5, <2>6, <2>8 DEF L
  <2> QED  BY <1>1, <2>5, <2>7, <2>8
<1> QED  BY <1>5, <1>6, CountedOpens

-----------------------------------------------------------------------------

(* What the two abstract variables stand for.                              *)
used == [c \in Callers |-> UsedBy(c)]
left == [c \in Callers |-> LeftOf(c)]

(* A counted request is, to every caller, the abstract one.                *)
LEMMA CountedMaps ==
  ASSUME TypeOK, NEW c \in Callers, Counts(c), UNCHANGED backend
  PROVE  used' = Fixed!Spent(c) /\ left' = Fixed!Opened(c)
<1>1. \A d \in Callers : UsedBy(d)' = IF d = c /\ UsedBy(c) < Limit[c]
                                      THEN UsedBy(c) + 1 ELSE UsedBy(d)
    BY CountedSpends, OthersKeepTheirs
<1>2. \A d \in Callers : LeftOf(d)' = IF d = c /\ LeftOf(c) = 0
                                      THEN Window ELSE LeftOf(d)
    BY CountedSpends, OthersKeepTheirs
<1>3. used' = [d \in Callers |-> UsedBy(d)'] /\ left' = [d \in Callers |-> LeftOf(d)']
    BY DEF used, left
<1> QED  BY <1>1, <1>2, <1>3 DEF used, left, Fixed!Spent, Fixed!Opened

(* A request that is counted and answered by its count.                    *)
LEMMA CheckMaps ==
  ASSUME TypeOK, NEW c \in Callers, Counts(c), UNCHANGED backend,
         answer' = <<c, Verdict(c, CountOf(c))>>
  PROVE  Fixed!Admit(c) \/ Fixed!Refuse(c)
<1>1. UsedBy(c) \in 0..Limit[c] /\ Limit[c] \in Nat  BY MappedTyped
<1>2. used' = Fixed!Spent(c) /\ left' = Fixed!Opened(c)  BY CountedMaps
<1>3. used[c] = UsedBy(c) /\ used \in [Callers -> Nat]
    BY MappedTyped DEF used
<1>4. CASE UsedBy(c) < Limit[c]
  <2>1. answer' = <<c, "admitted">>  BY <1>4, CountedSpends
  <2> QED  BY <1>2, <1>3, <1>4, <2>1 DEF Fixed!Admit, Fixed!Spent, Fixed!Opened, used, left
<1>5. CASE ~(UsedBy(c) < Limit[c])
  <2>1. answer' = <<c, "429">>  BY <1>5, CountedSpends
  <2>2. UsedBy(c) = Limit[c]  BY <1>1, <1>5
  <2>3. Fixed!Spent(c) = used  BY <1>3, <1>5 DEF Fixed!Spent, used
  <2> QED  BY <1>2, <1>3, <2>1, <2>2, <2>3 DEF Fixed!Refuse, Fixed!Opened, used, left
<1> QED  BY <1>4, <1>5

(* Time closes the window that has no tick left, in either backend.        *)
LEMMA TickMaps == TypeOK /\ Tick => Fixed!Tick
<1> SUFFICES ASSUME TypeOK, Tick PROVE Fixed!Tick  OBVIOUS
<1>1. ASSUME NEW c \in Callers
      PROVE  /\ LeftOf(c)' = IF LeftOf(c) = 0 THEN 0 ELSE LeftOf(c) - 1
             /\ UsedBy(c)' = IF LeftOf(c) <= 1 THEN 0 ELSE UsedBy(c)
  <2>0. KeyOf(c) \in Keys /\ Window \in Nat \ {0} /\ Limit' = Limit  BY KeysApart
  <2>1. CASE backend = "redis"
    <3> DEFINE x == redis[KeyOf(c)]
               y == redis'[KeyOf(c)]
    <3>1. y = IF x = NoCounter \/ x.left = 1 THEN NoCounter
              ELSE [x EXCEPT !.left = @ - 1]
        BY <2>0 DEF Tick
    <3>2. x \in {NoCounter} \cup RedisCounter  BY <2>0 DEF TypeOK, RedisCounter
    <3>3. Counter(c) = x /\ Counter(c)' = y /\ backend' = "redis"
        BY <2>1 DEF Counter, Tick
    <3>4. /\ LeftOf(c) = IF x = NoCounter THEN 0 ELSE x.left
          /\ LeftOf(c)' = IF y = NoCounter THEN 0 ELSE y.left
          /\ UsedBy(c) = IF LeftOf(c) = 0 THEN 0
                         ELSE IF x.hits > Limit[c] THEN Limit[c] ELSE x.hits
          /\ UsedBy(c)' = IF LeftOf(c)' = 0 THEN 0
                          ELSE IF y.hits > Limit[c] THEN Limit[c] ELSE y.hits
        BY <2>1, <3>3 DEF LeftOf, UsedBy
    <3> HIDE DEF x, y
    <3>5. CASE x = NoCounter  BY <3>1, <3>4, <3>5
    <3>6. CASE x # NoCounter
      <4>1. x \in RedisCounter /\ x.left \in 1..Window  BY <3>2, <3>6 DEF RedisCounter
      <4>2. CASE x.left = 1  BY <3>1, <3>4, <3>6, <4>2
      <4>3. CASE x.left # 1
        <5>1. y.left = x.left - 1 /\ y.hits = x.hits /\ y \in RedisCounter
            BY <3>1, <3>6, <4>1, <4>3 DEF RedisCounter
        <5>2. y # NoCounter  BY <5>1 DEF RedisCounter
        <5>3. LeftOf(c) = x.left /\ LeftOf(c)' = x.left - 1  BY <3>4, <3>6, <5>1, <5>2
        <5>4. x.left # 0 /\ x.left - 1 # 0 /\ ~(x.left <= 1)  BY <4>1, <4>3
        <5>5. LeftOf(c) # 0 /\ LeftOf(c)' # 0 /\ ~(LeftOf(c) <= 1)  BY <5>3, <5>4
        <5>6. LeftOf(c)' = LeftOf(c) - 1  BY <5>3
        <5>7. UsedBy(c)' = UsedBy(c)  BY <3>4, <5>1, <5>5
        <5> QED  BY <5>5, <5>6, <5>7
      <4> QED  BY <4>2, <4>3
    <3> QED  BY <3>5, <3>6
  <2>2. CASE backend = "mock"
    <3> DEFINE x == entries[KeyOf(c)]
               y == entries'[KeyOf(c)]
    <3>1. y = IF x = NoCounter \/ x.age = Window THEN x
              ELSE [x EXCEPT !.age = @ + 1]
        BY <2>0 DEF Tick
    <3>2. x \in {NoCounter} \cup MockCounter  BY <2>0 DEF TypeOK, MockCounter
    <3>3. Counter(c) = x /\ Counter(c)' = y /\ backend' = "mock"
        BY <2>2 DEF Counter, Tick
    <3>4. /\ LeftOf(c) = IF x = NoCounter THEN 0 ELSE Window - x.age
          /\ LeftOf(c)' = IF y = NoCounter THEN 0 ELSE Window - y.age
          /\ UsedBy(c) = IF LeftOf(c) = 0 THEN 0
                         ELSE IF x.hits > Limit[c] THEN Limit[c] ELSE x.hits
          /\ UsedBy(c)' = IF LeftOf(c)' = 0 THEN 0
                          ELSE IF y.hits > Limit[c] THEN Limit[c] ELSE y.hits
        BY <2>2, <3>3 DEF LeftOf, UsedBy
    <3> HIDE DEF x, y
    <3>5. CASE x = NoCounter  BY <3>1, <3>4, <3>5
    <3>6. CASE x # NoCounter
      <4>1. x \in MockCounter /\ x.age \in 0..Window  BY <3>2, <3>6 DEF MockCounter
      <4>2. CASE x.age = Window
        <5>1. y = x  BY <3>1, <4>2
        <5>2. LeftOf(c) = 0 /\ LeftOf(c)' = 0  BY <2>0, <3>4, <3>6, <4>2, <5>1
        <5> QED  BY <3>4, <5>2
      <4>3. CASE x.age # Window
        <5>1. y.age = x.age + 1 /\ y.hits = x.hits /\ y \in MockCounter
            BY <3>1, <3>6, <4>1, <4>3 DEF MockCounter
        <5>2. y # NoCounter  BY <5>1 DEF MockCounter
        <5>3. LeftOf(c) = Window - x.age /\ LeftOf(c)' = Window - y.age
            BY <3>4, <3>6, <5>2
        <5>4. /\ Window - x.age # 0 /\ Window - y.age = Window - x.age - 1
              /\ Window - y.age = 0 <=> Window - x.age <= 1
            BY <2>0, <4>1, <4>3, <5>1
        <5>5. LeftOf(c)' = LeftOf(c) - 1 /\ (LeftOf(c)' = 0 <=> LeftOf(c) <= 1)
            BY <5>3, <5>4
        <5>6. LeftOf(c) # 0  BY <5>3, <5>4
        <5>7. UsedBy(c)' = IF LeftOf(c)' = 0 THEN 0 ELSE UsedBy(c)
            BY <3>4, <5>1, <5>6
        <5> QED  BY <5>5, <5>6, <5>7
      <4> QED  BY <4>2, <4>3
    <3> QED  BY <3>5, <3>6
  <2> QED  BY <2>1, <2>2 DEF TypeOK
<1>2. used' = [c \in Callers |-> UsedBy(c)'] /\ left' = [c \in Callers |-> LeftOf(c)']
    BY DEF used, left
<1>3. answer' = answer  BY DEF Tick
<1> QED  BY <1>1, <1>2, <1>3 DEF Fixed!Tick, used, left

(* Nothing that a caller's window is read from has changed.                *)
LEMMA SameCounters ==
  ASSUME UNCHANGED <<backend, redis, entries>> PROVE used' = used /\ left' = left
<1>1. \A c \in Callers : Counter(c)' = Counter(c)  BY DEF Counter
<1>2. \A c \in Callers : LeftOf(c)' = LeftOf(c)  BY <1>1 DEF LeftOf
<1>3. \A c \in Callers : UsedBy(c)' = UsedBy(c)  BY <1>1, <1>2 DEF UsedBy
<1> QED  BY <1>2, <1>3 DEF used, left

(* The limiter with either backend, whatever fails, is one fixed window    *)
(* per caller: a request is refused only when the window its caller opened *)
(* has no budget left, and no refused request moves that window.           *)
THEOREM Refinement == Spec => ImplementsFixedWindow
<1>1. Init => Fixed!Init
  <2> SUFFICES ASSUME Init PROVE Fixed!Init  OBVIOUS
  <2>1. \A c \in Callers : Counter(c) = NoCounter  BY KeysApart DEF Init, Counter
  <2>2. \A c \in Callers : LeftOf(c) = 0  BY <2>1 DEF LeftOf
  <2>3. \A c \in Callers : UsedBy(c) = 0  BY <2>2 DEF UsedBy
  <2> QED  BY <2>2, <2>3 DEF Fixed!Init, Init
<1>2. TypeOK /\ [Next]_vars => [Fixed!Next]_(Fixed!vars)
  <2> SUFFICES ASSUME TypeOK, [Next]_vars PROVE [Fixed!Next]_(Fixed!vars)  OBVIOUS
  <2>1. CASE UNCHANGED vars
      BY <2>1, SameCounters DEF vars, Fixed!vars, used, left
  <2>2. CASE Tick  BY <2>2, TickMaps DEF Fixed!Next
  <2>3. CASE LoseCounters
    <3>1. \A c \in Callers : Counter(c)' = NoCounter
        BY <2>3, KeysApart DEF LoseCounters, Counter
    <3>2. \A c \in Callers : LeftOf(c)' = 0  BY <3>1 DEF LeftOf
    <3>3. \A c \in Callers : UsedBy(c)' = 0  BY <3>2 DEF UsedBy
    <3>4. used' = [c \in Callers |-> UsedBy(c)'] /\ left' = [c \in Callers |-> LeftOf(c)']
        BY DEF used, left
    <3> QED  BY <2>3, <3>2, <3>3, <3>4 DEF LoseCounters, Fixed!Next, Fixed!Forget, used, left
  <2>4. ASSUME NEW c \in Callers, CheckRedis(c) PROVE Fixed!Next
    <3>1. Counts(c) /\ UNCHANGED backend  BY <2>4 DEF CheckRedis, Counts
    <3>2. answer' = <<c, Verdict(c, CountOf(c))>>
        BY <2>4 DEF CheckRedis, Answered, CountOf
    <3> QED  BY <3>1, <3>2, CheckMaps DEF Fixed!Next
  <2>5. ASSUME NEW c \in Callers, CheckMock(c) PROVE Fixed!Next
    <3>1. Counts(c) /\ UNCHANGED backend  BY <2>5 DEF CheckMock, Counts
    <3>2. answer' = <<c, Verdict(c, CountOf(c))>>
        BY <2>5 DEF CheckMock, Answered, CountOf
    <3> QED  BY <3>1, <3>2, CheckMaps DEF Fixed!Next
  <2>6. ASSUME NEW c \in Callers, CheckFails(c) PROVE Fixed!Next
    <3>1. answer' = <<c, "500">> /\ UNCHANGED <<backend, entries>>
        BY <2>6 DEF CheckFails
    <3>2. CASE UNCHANGED redis
      <4>1. used' = used /\ left' = left  BY <3>1, <3>2, SameCounters
      <4> QED  BY <3>1, <4>1 DEF Fixed!Next, Fixed!Fail, used, left
    <3>3. CASE redis' = [redis EXCEPT ![KeyOf(c)] = Incr(@)]
      <4>1. Counts(c)  BY <2>6, <3>3 DEF CheckFails, Counts
      <4>2. used' = Fixed!Spent(c) /\ left' = Fixed!Opened(c)
          BY <3>1, <4>1, CountedMaps
      <4> QED  BY <3>1, <4>2 DEF Fixed!Next, Fixed!Fail, Fixed!Spent, Fixed!Opened, used, left
    <3> QED  BY <2>6, <3>2, <3>3 DEF CheckFails
  <2> QED  BY <2>1, <2>2, <2>3, <2>4, <2>5, <2>6 DEF Next
<1> QED  BY <1>1, <1>2, TypeCorrect, PTL DEF Spec, ImplementsFixedWindow, Fixed!Spec

-----------------------------------------------------------------------------
(* What a span of ticks admits.                                            *)

(* The sum over the n youngest ticks, one tick more at a time.             *)
LEMMA SpanSums ==
  ASSUME NEW f \in [0..Window - 1 -> Nat], NEW n \in 0..Window
  PROVE  /\ Summable(f, 0..n - 1) /\ SumOn(f, 0..n - 1) \in Nat
         /\ n = 0 => SumOn(f, 0..n - 1) = 0
         /\ n > 0 => f[0] <= SumOn(f, 0..n - 1)
         /\ n < Window => SumOn(f, 0..n) = f[n] + SumOn(f, 0..n - 1)
<1>1. IsFiniteSet(0..n - 1)  BY FS_Interval
<1>2. \A a \in 0..n - 1 : f[a] \in Nat  OBVIOUS
<1>3. Summable(f, 0..n - 1) /\ SumOn(f, 0..n - 1) \in Nat
    BY <1>1, <1>2, SumOfNaturals
<1>4. n = 0 => SumOn(f, 0..n - 1) = 0
  <2>1. n = 0 => 0..n - 1 = {}  OBVIOUS
  <2> QED  BY <1>3, <2>1, SumSplits
<1>5. n > 0 => f[0] <= SumOn(f, 0..n - 1)
  <2>1. n > 0 => 0 \in 0..n - 1  OBVIOUS
  <2> QED  BY <1>1, <1>2, <2>1, SumOfNaturals
<1>6. n < Window => SumOn(f, 0..n) = f[n] + SumOn(f, 0..n - 1)
  <2> SUFFICES ASSUME n < Window PROVE SumOn(f, 0..n) = f[n] + SumOn(f, 0..n - 1)
      OBVIOUS
  <2>1. 0..n = (0..n - 1) \cup {n} /\ n \notin 0..n - 1 /\ f[n] \in Int  OBVIOUS
  <2>2. SumOn(f, (0..n - 1) \cup {n}) = f[n] + SumOn(f, 0..n - 1)
      BY <1>3, <2>1, SumGrows
  <2> QED  BY <2>1, <2>2
<1> QED  BY <1>3, <1>4, <1>5, <1>6

(* A request admitted now is one more in every span.                       *)
LEMMA SpanGains ==
  ASSUME NEW f \in [0..Window - 1 -> Nat], NEW n \in 1..Window
  PROVE  SumOn([f EXCEPT ![0] = @ + 1], 0..n - 1) = SumOn(f, 0..n - 1) + 1
<1> DEFINE g == [f EXCEPT ![0] = @ + 1]
           S == 0..n - 1
<1>1. 0 \in S /\ 0 \in 0..Window - 1 /\ IsFiniteSet(S) /\ IsFiniteSet(S \ {0})
  <2>1. IsFiniteSet(S)  BY FS_Interval
  <2>2. S \ {0} \in SUBSET S  OBVIOUS
  <2> HIDE DEF S
  <2>3. IsFiniteSet(S \ {0})  BY <2>1, <2>2, FS_Subset
  <2> QED  BY <2>1, <2>3 DEF S
<1>2. g[0] = f[0] + 1 /\ \A a \in S \ {0} : f[a] = g[a]  BY <1>1
<1>3. \A a \in S : f[a] \in Nat /\ g[a] \in Nat  OBVIOUS
<1> HIDE DEF g, S
<1>4. Summable(f, S) /\ Summable(g, S)  BY <1>1, <1>3, SumOfNaturals
<1>5. Summable(f, S \ {0}) /\ SumOn(f, S \ {0}) \in Nat
    BY <1>1, <1>3, SumOfNaturals
<1>6. SumOn(f, S \ {0}) = SumOn(g, S \ {0})  BY <1>2, <1>5, SumSame
<1>7. /\ SumOn(f, S) = f[0] + SumOn(f, S \ {0})
      /\ SumOn(g, S) = g[0] + SumOn(g, S \ {0})
    BY <1>1, <1>4, SumSplits
<1>8. f[0] \in Nat  BY <1>1, <1>3
<1>9. SumOn(g, S) = SumOn(f, S) + 1  BY <1>2, <1>5, <1>6, <1>7, <1>8
<1> QED  BY <1>9 DEF g, S

(* A tick later the span has moved on by one.                              *)
LEMMA SpanShifts ==
  ASSUME NEW f \in [0..Window - 1 -> Nat], NEW n \in 0..Window - 1
  PROVE  SumOn([a \in 0..Window - 1 |-> IF a = 0 THEN 0 ELSE f[a - 1]], 0..n)
           = SumOn(f, 0..n - 1)
<1> DEFINE g == [a \in 0..Window - 1 |-> IF a = 0 THEN 0 ELSE f[a - 1]]
           T == {m \in Nat : m < Window => SumOn(g, 0..m) = SumOn(f, 0..m - 1)}
<1>1. g \in [0..Window - 1 -> Nat] /\ g[0] = 0
      /\ \A m \in 1..Window - 1 : g[m] = f[m - 1]
  <2>1. \A a \in 0..Window - 1 : (IF a = 0 THEN 0 ELSE f[a - 1]) \in Nat  OBVIOUS
  <2> QED  BY <2>1
<1> HIDE DEF g
<1>2. 0 \in T
  <2>1. 0 \in 0..Window /\ 0 < Window  OBVIOUS
  <2>2. SumOn(g, 0..0) = g[0] + SumOn(g, 0..0 - 1)  BY <1>1, <2>1, SpanSums
  <2>3. SumOn(g, 0..0 - 1) = 0 /\ SumOn(f, 0..0 - 1) = 0  BY <1>1, <2>1, SpanSums
  <2> QED  BY <1>1, <2>2, <2>3
<1>3. ASSUME NEW m \in T PROVE m + 1 \in T
  <2> SUFFICES ASSUME m + 1 < Window
               PROVE  SumOn(g, 0..m + 1) = SumOn(f, 0..(m + 1) - 1)
      BY <1>3
  <2>1. /\ m \in 0..Window /\ m + 1 \in 0..Window /\ m < Window
        /\ m + 1 \in 1..Window - 1 /\ (m + 1) - 1 = m
      OBVIOUS
  <2>2. SumOn(g, 0..m) = SumOn(f, 0..m - 1)  BY <1>3, <2>1
  <2>3. SumOn(f, 0..m) = f[m] + SumOn(f, 0..m - 1)  BY <2>1, SpanSums
  <2>4. SumOn(g, 0..m + 1) = g[m + 1] + SumOn(g, 0..(m + 1) - 1)
      BY <1>1, <2>1, SpanSums
  <2> QED  BY <1>1, <2>1, <2>2, <2>3, <2>4
<1>4. T \in SUBSET Nat  OBVIOUS
<1> HIDE DEF T
<1>5. T = Nat  BY <1>2, <1>3, <1>4, Induction
<1>6. n \in T /\ n < Window  BY <1>5
<1>7. SumOn(g, 0..n) = SumOn(f, 0..n - 1)  BY <1>6 DEF T
<1> QED  BY <1>7 DEF g

-----------------------------------------------------------------------------

(* The requests of c admitted in the n youngest ticks.                     *)
Lately(c, n) == SumOn(recent[c], 0..n - 1)

(* The inductive invariant.  In a span as long as a window are the open    *)
(* window's own admissions, those of one window before it, and for each    *)
(* loss those of one more; since the open window was opened there are its  *)
(* own and what losses made room for in its first tick; and while none is  *)
(* open, in the present tick only the latter.                              *)
SpansFit ==
  \A c \in Callers :
    /\ Lately(c, Window) <= UsedBy(c) + Limit[c] * losses + Limit[c]
    /\ LeftOf(c) > 0 =>
         Lately(c, Window - LeftOf(c) + 1) <= UsedBy(c) + Limit[c] * losses
    /\ LeftOf(c) = 0 => recent[c][0] <= Limit[c] * losses

(* A bound per loss, after one more loss.                                  *)
LEMMA OneMoreLoss ==
  \A c \in Callers, n \in Nat :
    Limit[c] * n \in Nat /\ Limit[c] * (n + 1) = Limit[c] * n + Limit[c]
<1>1. \A l, n \in Nat : l * n \in Nat /\ l * (n + 1) = l * n + l  OBVIOUS
<1>2. \A c \in Callers : Limit[c] \in Nat  OBVIOUS
<1> QED  BY <1>1, <1>2

(* The history of a caller, and what its spans amount to.                  *)
LEMMA LatelyTyped ==
  ASSUME TypeOK, NEW c \in Callers
  PROVE  /\ recent[c] \in [0..Window - 1 -> Nat] /\ 0 \in 0..Window - 1
         /\ losses \in Nat /\ Limit[c] \in Nat /\ Window \in Nat \ {0}
         /\ Limit[c] * losses \in Nat
         /\ \A n \in 0..Window : Lately(c, n) \in Nat
         /\ \A n \in 1..Window : recent[c][0] <= Lately(c, n)
         /\ \A n \in 0..Window - 1 : Lately(c, n) <= Lately(c, n + 1)
<1>1. recent[c] \in [0..Window - 1 -> Nat] /\ losses \in Nat  BY DEF TypeOK
<1>2. Limit[c] \in Nat /\ Window \in Nat \ {0} /\ 0 \in 0..Window - 1  OBVIOUS
<1>3. \A n \in 0..Window : Lately(c, n) \in Nat  BY <1>1, SpanSums DEF Lately
<1>4. \A n \in 1..Window : recent[c][0] <= Lately(c, n)
  <2> TAKE n \in 1..Window
  <2>1. n \in 0..Window /\ n > 0  OBVIOUS
  <2> QED  BY <1>1, <2>1, SpanSums DEF Lately
<1>5. \A n \in 0..Window - 1 : Lately(c, n) <= Lately(c, n + 1)
  <2> TAKE n \in 0..Window - 1
  <2>1. n \in 0..Window /\ n < Window /\ (n + 1) - 1 = n  OBVIOUS
  <2>2. SumOn(recent[c], 0..n) = recent[c][n] + SumOn(recent[c], 0..n - 1)
      BY <1>1, <2>1, SpanSums
  <2>3. recent[c][n] \in Nat /\ SumOn(recent[c], 0..n - 1) \in Nat
      BY <1>1, <2>1, SpanSums
  <2> QED  BY <2>1, <2>2, <2>3 DEF Lately
<1>6. Limit[c] * losses \in Nat  BY <1>1, OneMoreLoss
<1> QED  BY <1>1, <1>2, <1>3, <1>4, <1>5, <1>6

(* A request that is counted, and admitted if there is budget left.        *)
LEMMA CountedFits ==
  ASSUME TypeOK, SpansFit, NEW c \in Callers, Counts(c), UNCHANGED <<backend, losses>>,
         \/ UNCHANGED recent
         \/ UsedBy(c) < Limit[c] /\ recent' = [recent EXCEPT ![c][0] = @ + 1]
  PROVE  SpansFit'
<1> SUFFICES ASSUME NEW d \in Callers
             PROVE  /\ Lately(d, Window)' <= UsedBy(d)' + Limit[d] * losses + Limit[d]
                    /\ LeftOf(d)' > 0 => SumOn(recent'[d], 0..(Window - LeftOf(d)' + 1) - 1)
                                           <= UsedBy(d)' + Limit[d] * losses
                    /\ LeftOf(d)' = 0 => recent'[d][0] <= Limit[d] * losses
    BY DEF SpansFit, Lately
<1>1. recent \in [Callers -> [0..Window - 1 -> Nat]]  BY DEF TypeOK
<1>2. CASE d # c
  <2>1. UsedBy(d)' = UsedBy(d) /\ LeftOf(d)' = LeftOf(d)  BY <1>2, OthersKeepTheirs
  <2>2. recent'[d] = recent[d]  BY <1>1, <1>2
  <2> QED  BY <2>1, <2>2 DEF SpansFit, Lately
<1>3. CASE d = c
  <2> DEFINE f == recent[c]
             h == recent'[c]
             k == IF UNCHANGED recent THEN 0 ELSE 1
  <2>1. h = f \/ (UsedBy(c) < Limit[c] /\ h = [f EXCEPT ![0] = @ + 1])  BY <1>1
  <2>2. f \in [0..Window - 1 -> Nat] /\ 0 \in 0..Window - 1  BY LatelyTyped
  <2>3. UsedBy(c) \in 0..Limit[c] /\ LeftOf(c) \in 0..Window  BY MappedTyped
  <2>4. /\ LeftOf(c)' = IF LeftOf(c) = 0 THEN Window ELSE LeftOf(c)
        /\ UsedBy(c)' = IF UsedBy(c) < Limit[c] THEN UsedBy(c) + 1 ELSE UsedBy(c)
      BY CountedSpends
  <2> HIDE DEF f, h
  <2>5. PICK m \in {0, 1} :
          /\ m = 1 => UsedBy(c) < Limit[c]
          /\ \A n \in 1..Window : SumOn(h, 0..n - 1) = SumOn(f, 0..n - 1) + m
    <3>1. \A n \in 1..Window : SumOn(f, 0..n - 1) \in Nat
        BY <2>2, SpanSums
    <3>2. CASE h = f  BY <3>1, <3>2
    <3>3. CASE UsedBy(c) < Limit[c] /\ h = [f EXCEPT ![0] = @ + 1]
        BY <2>2, <3>3, SpanGains
    <3> QED  BY <2>1, <3>2, <3>3
  <2>6. /\ SumOn(f, 0..Window - 1) <= UsedBy(c) + Limit[c] * losses + Limit[c]
        /\ LeftOf(c) > 0 => SumOn(f, 0..(Window - LeftOf(c) + 1) - 1)
                              <= UsedBy(c) + Limit[c] * losses
        /\ LeftOf(c) = 0 => f[0] <= Limit[c] * losses
      BY DEF SpansFit, Lately, f
  <2>7. /\ Window \in Nat \ {0} /\ Limit[c] \in Nat /\ Limit[c] * losses \in Nat
        /\ \A n \in 1..Window : SumOn(f, 0..n - 1) \in Nat
      BY <2>2, LatelyTyped, SpanSums, SMTT(40)
  <2>8. UsedBy(c)' >= UsedBy(c) + m  BY <2>3, <2>4, <2>5, <2>7
  <2>9. SumOn(h, 0..Window - 1) <= UsedBy(c)' + Limit[c] * losses + Limit[c]
    <3>1. Window \in 1..Window  BY <2>7
    <3> QED  BY <2>3, <2>4, <2>5, <2>6, <2>7, <2>8, <3>1, SMTT(40)
  <2>10. LeftOf(c)' > 0  BY <2>3, <2>4, <2>7
  <2>11. SumOn(h, 0..(Window - LeftOf(c)' + 1) - 1) <= UsedBy(c)' + Limit[c] * losses
    <3>1. CASE LeftOf(c) = 0
      <4>1. (Window - LeftOf(c)' + 1) = 1 /\ 1 \in 1..Window  BY <2>4, <2>7, <3>1
      <4>2. SumOn(h, 0..1 - 1) = SumOn(f, 0..1 - 1) + m  BY <2>5, <4>1
      <4>3. SumOn(f, 0..1 - 1) = f[0]
        <5>1. 0 \in 0..Window /\ 0 < Window  BY <2>7
        <5>2. SumOn(f, 0..0) = f[0] + SumOn(f, 0..0 - 1)  BY <2>2, <5>1, SpanSums
        <5>3. SumOn(f, 0..0 - 1) = 0  BY <2>2, <5>1, SpanSums
        <5>4. 1 - 1 = 0  OBVIOUS
        <5> QED  BY <2>2, <5>2, <5>3, <5>4
      <4>4. f[0] \in Nat /\ m \in Nat  BY <2>2
      <4>5. f[0] <= Limit[c] * losses  BY <2>6, <3>1
      <4>6. SumOn(h, 0..1 - 1) <= UsedBy(c)' + Limit[c] * losses
          BY <2>3, <2>4, <2>7, <2>8, <4>2, <4>3, <4>4, <4>5, SMTT(40)
      <4> QED  BY <4>1, <4>6
    <3>2. CASE LeftOf(c) # 0
      <4> DEFINE n == Window - LeftOf(c) + 1
      <4>1. n \in 1..Window /\ LeftOf(c) > 0 /\ LeftOf(c)' = LeftOf(c)
          BY <2>3, <2>4, <2>7, <3>2
      <4>2. SumOn(f, 0..n - 1) <= UsedBy(c) + Limit[c] * losses  BY <2>6, <4>1
      <4>3. SumOn(h, 0..n - 1) = SumOn(f, 0..n - 1) + m  BY <2>5, <4>1
      <4>4. SumOn(f, 0..n - 1) \in Nat /\ m \in Nat  BY <2>7, <4>1
      <4>5. n = Window - LeftOf(c)' + 1  BY <4>1
      <4> HIDE DEF n
      <4>6. SumOn(h, 0..n - 1) <= UsedBy(c)' + Limit[c] * losses
          BY <2>3, <2>7, <2>8, <2>4, <4>2, <4>3, <4>4, SMTT(40)
      <4> QED  BY <4>5, <4>6
    <3> QED  BY <3>1, <3>2
  <2> QED  BY <1>3, <2>9, <2>10, <2>11 DEF h, Lately
<1> QED  BY <1>2, <1>3

(* Time moves every span on, and closes the windows that are over.         *)
LEMMA TickFits == TypeOK /\ SpansFit /\ Tick => SpansFit'
<1> SUFFICES ASSUME TypeOK, SpansFit, Tick PROVE SpansFit'  OBVIOUS
<1> SUFFICES ASSUME NEW c \in Callers
             PROVE  /\ Lately(c, Window)' <= UsedBy(c)' + Limit[c] * losses + Limit[c]
                    /\ LeftOf(c)' > 0 => SumOn(recent'[c], 0..(Window - LeftOf(c)' + 1) - 1)
                                           <= UsedBy(c)' + Limit[c] * losses
                    /\ LeftOf(c)' = 0 => recent'[c][0] <= Limit[c] * losses
  <2>1. losses' = losses  BY DEF Tick
  <2> QED  BY <2>1 DEF SpansFit, Lately
<1> DEFINE f == recent[c]
           h == recent'[c]
<1>1. /\ Window \in Nat \ {0} /\ Limit[c] \in Nat /\ Limit[c] * losses \in Nat
      /\ f \in [0..Window - 1 -> Nat] /\ 0 \in 0..Window - 1
    BY LatelyTyped
<1>2. UsedBy(c) \in 0..Limit[c] /\ LeftOf(c) \in 0..Window  BY MappedTyped
<1>3. /\ LeftOf(c)' = IF LeftOf(c) = 0 THEN 0 ELSE LeftOf(c) - 1
      /\ UsedBy(c)' = IF LeftOf(c) <= 1 THEN 0 ELSE UsedBy(c)
  <2>1. Fixed!Tick  BY TickMaps
  <2>2. /\ left'[c] = IF left[c] = 0 THEN 0 ELSE left[c] - 1
        /\ used'[c] = IF left[c] <= 1 THEN 0 ELSE used[c]
      BY <2>1 DEF Fixed!Tick, left, used
  <2> QED  BY <2>2 DEF left, used
<1>4. h = [a \in 0..Window - 1 |-> IF a = 0 THEN 0 ELSE f[a - 1]]  BY DEF Tick
<1>5. h[0] = 0  BY <1>1, <1>4
<1> DEFINE A(n) == SumOn(f, 0..n - 1)
<1>6. \A n \in 0..Window - 1 : SumOn(h, 0..n) = A(n)  BY <1>1, <1>4, SpanShifts
<1>7. \A n \in 0..Window : A(n) \in Nat  BY <1>1, SpanSums
<1>8. \A n \in 0..Window - 1 : A(n) <= A(n + 1)  BY LatelyTyped DEF Lately
<1>9. /\ A(Window) <= UsedBy(c) + Limit[c] * losses + Limit[c]
      /\ LeftOf(c) > 0 => A(Window - LeftOf(c) + 1) <= UsedBy(c) + Limit[c] * losses
    BY DEF SpansFit, Lately
<1>10. UsedBy(c) = 0 \/ LeftOf(c) > 0  BY <1>2 DEF UsedBy
<1>11. Lately(c, Window)' = A(Window - 1) /\ A(Window - 1) <= A(Window)
  <2>1. Window - 1 \in 0..Window - 1 /\ (Window - 1) + 1 = Window  BY <1>1
  <2>2. Lately(c, Window)' = SumOn(h, 0..Window - 1)  BY DEF Lately
  <2> HIDE DEF A, h
  <2> QED  BY <1>6, <1>8, <2>1, <2>2
<1>12. \A n \in 0..Window - 1 : SumOn(h, 0..(n + 1) - 1) = A(n)
  <2> TAKE n \in 0..Window - 1
  <2>1. (n + 1) - 1 = n  OBVIOUS
  <2> HIDE DEF A, h
  <2> QED  BY <1>6, <2>1
<1> HIDE DEF A, f, h
<1>13. LeftOf(c)' > 0 => SumOn(h, 0..(Window - LeftOf(c)' + 1) - 1)
                           <= UsedBy(c)' + Limit[c] * losses
  <2> SUFFICES ASSUME LeftOf(c)' > 0
               PROVE  SumOn(h, 0..(Window - LeftOf(c)' + 1) - 1)
                        <= UsedBy(c)' + Limit[c] * losses
      OBVIOUS
  <2> DEFINE n == Window - LeftOf(c) + 1
  <2>1. /\ LeftOf(c) > 1 /\ n \in 0..Window - 1 /\ Window - LeftOf(c)' = n
        /\ UsedBy(c)' = UsedBy(c)
      BY <1>1, <1>2, <1>3, SMTT(40)
  <2>2. A(n) <= UsedBy(c) + Limit[c] * losses  BY <1>2, <1>9, <2>1
  <2> HIDE DEF n
  <2> QED  BY <1>12, <2>1, <2>2
<1>14. Lately(c, Window)' <= UsedBy(c)' + Limit[c] * losses + Limit[c]
  <2>1. Window - 1 \in 0..Window /\ Window \in 0..Window  BY <1>1
  <2>2. A(Window - 1) \in Nat /\ A(Window) \in Nat  BY <1>7, <2>1
  <2>3. CASE LeftOf(c) = 1
    <3>1. Window - LeftOf(c) + 1 = Window  BY <1>1, <2>3
    <3>2. A(Window) <= UsedBy(c) + Limit[c] * losses  BY <1>9, <2>3, <3>1
    <3>3. UsedBy(c)' = 0  BY <1>3, <2>3
    <3> QED  BY <1>1, <1>2, <1>11, <2>2, <3>2, <3>3
  <2>4. CASE LeftOf(c) # 1
    <3>1. UsedBy(c)' = UsedBy(c)  BY <1>2, <1>3, <1>10, <2>4
    <3> QED  BY <1>1, <1>2, <1>9, <1>11, <2>2, <3>1
  <2> QED  BY <2>3, <2>4
<1> QED  BY <1>1, <1>5, <1>13, <1>14 DEF h

(* A loss ends every window, and leaves room for one more.                 *)
LEMMA LossFits == TypeOK /\ SpansFit /\ LoseCounters => SpansFit'
<1> SUFFICES ASSUME TypeOK, SpansFit, LoseCounters PROVE SpansFit'  OBVIOUS
<1> SUFFICES ASSUME NEW c \in Callers
             PROVE  /\ Lately(c, Window)' <= UsedBy(c)' + Limit[c] * losses' + Limit[c]
                    /\ ~(LeftOf(c)' > 0)
                    /\ recent'[c][0] <= Limit[c] * losses'
    BY DEF SpansFit
<1>1. Counter(c)' = NoCounter  BY KeysApart DEF LoseCounters, Counter
<1>2. LeftOf(c)' = 0 /\ UsedBy(c)' = 0  BY <1>1 DEF LeftOf, UsedBy
<1>3. recent' = recent /\ losses' = losses + 1  BY DEF LoseCounters
<1>4. Lately(c, Window)' = Lately(c, Window)  BY <1>3 DEF Lately
<1>5. Limit[c] * losses' = Limit[c] * losses + Limit[c]
    BY <1>3, LatelyTyped, OneMoreLoss
<1>6. /\ Limit[c] \in Nat /\ Limit[c] * losses \in Nat /\ Window \in Nat \ {0}
      /\ recent[c][0] \in Nat
      /\ \A n \in 0..Window : Lately(c, n) \in Nat
      /\ \A n \in 1..Window : recent[c][0] <= Lately(c, n)
    BY LatelyTyped
<1>7. UsedBy(c) \in 0..Limit[c] /\ LeftOf(c) \in 0..Window  BY MappedTyped
<1>8. /\ Lately(c, Window) <= UsedBy(c) + Limit[c] * losses + Limit[c]
      /\ LeftOf(c) > 0 =>
           Lately(c, Window - LeftOf(c) + 1) <= UsedBy(c) + Limit[c] * losses
      /\ LeftOf(c) = 0 => recent[c][0] <= Limit[c] * losses
    BY DEF SpansFit
<1>9. Lately(c, Window)' <= UsedBy(c)' + Limit[c] * losses' + Limit[c]
  <2>1. Lately(c, Window) \in Nat  BY <1>6
  <2> QED  BY <1>2, <1>4, <1>5, <1>6, <1>7, <1>8, <2>1
<1>10. recent[c][0] <= Limit[c] * losses + Limit[c]
  <2>1. CASE LeftOf(c) = 0  BY <1>6, <1>8, <2>1
  <2>2. CASE LeftOf(c) # 0
    <3> DEFINE n == Window - LeftOf(c) + 1
    <3>1. n \in 1..Window /\ n \in 0..Window /\ LeftOf(c) > 0  BY <1>6, <1>7, <2>2
    <3>2. Lately(c, n) \in Nat /\ recent[c][0] <= Lately(c, n)  BY <1>6, <3>1
    <3>3. Lately(c, n) <= UsedBy(c) + Limit[c] * losses  BY <1>8, <3>1
    <3> HIDE DEF n
    <3> QED  BY <1>6, <1>7, <3>2, <3>3
  <2> QED  BY <2>1, <2>2
<1>11. ~(LeftOf(c)' > 0)  BY <1>2
<1> QED  BY <1>3, <1>5, <1>9, <1>10, <1>11

(* No span as long as a window admits more than two windows' budgets, and  *)
(* one more for each time the counters were lost, with either backend and  *)
(* whatever requests fail.                                                 *)
THEOREM NoSpanAdmitsMore == Spec => []SpanMeetsTwoWindows
<1>1. Init => SpansFit
  <2> SUFFICES ASSUME Init, NEW c \in Callers
               PROVE  /\ Lately(c, Window) <= UsedBy(c) + Limit[c] * losses + Limit[c]
                      /\ LeftOf(c) = 0
                      /\ recent[c][0] <= Limit[c] * losses
    <3>1. \A n : n = 0 => ~(n > 0)  OBVIOUS
    <3> QED  BY <3>1 DEF SpansFit
  <2>1. Counter(c) = NoCounter  BY KeysApart DEF Init, Counter
  <2>2. LeftOf(c) = 0 /\ UsedBy(c) = 0  BY <2>1 DEF LeftOf, UsedBy
  <2>3. recent[c] = [a \in 0..Window - 1 |-> 0] /\ losses = 0  BY DEF Init
  <2>4. Limit[c] \in Nat /\ Limit[c] * losses = 0 /\ recent[c][0] = 0  BY <2>3
  <2>5. Lately(c, Window) = 0
    <3> DEFINE T == {n \in Nat : n <= Window => SumOn(recent[c], 0..n - 1) = 0}
    <3>1. recent[c] \in [0..Window - 1 -> Nat]  BY <2>3
    <3>2. 0 \in T
      <4>1. 0 \in 0..Window  OBVIOUS
      <4> QED  BY <3>1, <4>1, SpanSums
    <3>3. ASSUME NEW n \in T PROVE n + 1 \in T
      <4> SUFFICES ASSUME n + 1 <= Window PROVE SumOn(recent[c], 0..(n + 1) - 1) = 0
          BY <3>3
      <4>1. n \in 0..Window /\ n < Window /\ n \in 0..Window - 1 /\ (n + 1) - 1 = n
          OBVIOUS
      <4>2. SumOn(recent[c], 0..n - 1) = 0  BY <3>3, <4>1
      <4>3. SumOn(recent[c], 0..n) = recent[c][n] + SumOn(recent[c], 0..n - 1)
          BY <3>1, <4>1, SpanSums
      <4> QED  BY <2>3, <4>1, <4>2, <4>3
    <3>4. T \in SUBSET Nat  OBVIOUS
    <3> HIDE DEF T
    <3>5. T = Nat  BY <3>2, <3>3, <3>4, Induction
    <3>6. Window \in T /\ Window <= Window  BY <3>5
    <3> QED  BY <3>6 DEF T, Lately
  <2> QED  BY <2>2, <2>4, <2>5
<1>2. TypeOK /\ SpansFit /\ [Next]_vars => SpansFit'
  <2> SUFFICES ASSUME TypeOK, SpansFit, [Next]_vars PROVE SpansFit'  OBVIOUS
  <2>1. ASSUME UNCHANGED <<backend, redis, entries, recent, losses>> PROVE SpansFit'
    <3> SUFFICES ASSUME NEW c \in Callers
                 PROVE  /\ LeftOf(c)' = LeftOf(c) /\ UsedBy(c)' = UsedBy(c)
                        /\ recent' = recent /\ losses' = losses
        BY DEF SpansFit, Lately
    <3>1. Counter(c)' = Counter(c)  BY <2>1 DEF Counter
    <3>2. LeftOf(c)' = LeftOf(c)  BY <2>1, <3>1 DEF LeftOf
    <3> QED  BY <2>1, <3>1, <3>2 DEF UsedBy
  <2>2. CASE UNCHANGED vars  BY <2>1, <2>2 DEF vars
  <2>3. CASE Tick  BY <2>3, TickFits
  <2>4. CASE LoseCounters  BY <2>4, LossFits
  <2>5. ASSUME NEW c \in Callers, Counts(c), UNCHANGED <<backend, losses>>,
               Answered(c, CountOf(c))
        PROVE  SpansFit'
    <3>1. Verdict(c, CountOf(c)) = IF UsedBy(c) < Limit[c] THEN "admitted" ELSE "429"
        BY <2>5, CountedSpends
    <3>2. \/ UNCHANGED recent
          \/ UsedBy(c) < Limit[c] /\ recent' = [recent EXCEPT ![c][0] = @ + 1]
        BY <2>5, <3>1 DEF Answered
    <3> QED  BY <2>5, <3>2, CountedFits
  <2>6. ASSUME NEW c \in Callers, CheckRedis(c) PROVE SpansFit'
      BY <2>5, <2>6 DEF CheckRedis, Counts, CountOf
  <2>7. ASSUME NEW c \in Callers, CheckMock(c) PROVE SpansFit'
      BY <2>5, <2>7 DEF CheckMock, Counts, CountOf
  <2>8. ASSUME NEW c \in Callers, CheckFails(c) PROVE SpansFit'
    <3>1. UNCHANGED <<backend, entries, recent, losses>> /\ backend = "redis"
        BY <2>8 DEF CheckFails
    <3>2. CASE UNCHANGED redis  BY <2>1, <3>1, <3>2
    <3>3. CASE redis' = [redis EXCEPT ![KeyOf(c)] = Incr(@)]
        BY <3>1, <3>3, CountedFits DEF Counts
    <3> QED  BY <2>8, <3>2, <3>3 DEF CheckFails
  <2> QED  BY <2>2, <2>3, <2>4, <2>6, <2>7, <2>8 DEF Next
<1>3. TypeOK /\ SpansFit => SpanMeetsTwoWindows
  <2> SUFFICES ASSUME TypeOK, SpansFit, NEW c \in Callers
               PROVE  AdmittedLately(c) <= Limit[c] * (2 + losses)
      BY DEF SpanMeetsTwoWindows
  <2>1. AdmittedLately(c) = Lately(c, Window)
      BY SumsAreSums DEF AdmittedLately, Lately, SumOn
  <2>2. /\ losses \in Nat /\ Limit[c] \in Nat /\ Limit[c] * losses \in Nat
        /\ Lately(c, Window) \in Nat
    <3>1. Window \in 0..Window  OBVIOUS
    <3> QED  BY <3>1, LatelyTyped
  <2>3. Limit[c] * (2 + losses) = Limit[c] * losses + Limit[c] + Limit[c]
    <3>1. \A l, n \in Nat : l * (2 + n) = l * n + l + l  OBVIOUS
    <3> QED  BY <2>2, <3>1
  <2>4. Lately(c, Window) <= UsedBy(c) + Limit[c] * losses + Limit[c]  BY DEF SpansFit
  <2>5. UsedBy(c) \in 0..Limit[c]  BY MappedTyped
  <2> QED  BY <2>1, <2>2, <2>3, <2>4, <2>5
<1> QED  BY <1>1, <1>2, <1>3, TypeCorrect, PTL DEF Spec
=============================================================================
