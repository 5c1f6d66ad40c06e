------------------------------- MODULE RateLimit ------------------------------
(***************************************************************************)
(* RateLimiter::check over its two backends: a Lua script that Redis runs  *)
(* as one step, for every process alike, and under mock mode a map behind  *)
(* a mutex.  Redis drops a key when its EXPIRE runs out; the map keeps its *)
(* entries and looks at their age on the next check.                       *)
(***************************************************************************)
EXTENDS Naturals, FiniteSetsExt

CONSTANTS
  Callers,     (* [scope, ip]: the route family and the peer's address     *)
  Limit,       (* requests per window of each caller's scope               *)
  Window,      (* window_secs, in ticks                                    *)
  NoAnswer,    (* before the first check                                   *)
  NoCounter,   (* what a backend holds under a key it does not have        *)
  MaxHits,     (* bound: larger counts are not told apart                  *)
  MaxLosses    (* bound: times the backend loses its counters              *)

ASSUME RateLimitAssumption ==
  /\ Limit \in [Callers -> 0..MaxHits - 1]
  /\ MaxHits \in Nat \ {0} /\ Window \in Nat \ {0} /\ MaxLosses \in Nat

(* A caller is its scope and its address, and a missing counter no count.  *)
ASSUME CallersAssumption ==
  /\ \A c, d \in Callers : c.scope = d.scope /\ c.ip = d.ip => c = d
  /\ NoCounter \notin [hits: Nat, left: Nat] \cup [hits: Nat, age: Nat]

VARIABLES
  backend,     (* the Backend built at startup                             *)
  redis,       (* Redis: each key's count and the ticks of its TTL left    *)
  entries,     (* mock: each entry's count and its age, Window and over    *)
               (* being one                                                *)
  answer,      (* the last answer                                          *)
  recent,      (* history: requests admitted 0..Window-1 ticks ago         *)
  losses       (* history: times the counters were lost                    *)

vars == <<backend, redis, entries, answer, recent, losses>>

(* Variant of KeyOf: one counter for every address.                        *)
KeyWithoutIp(c) == c.scope

(* ratelimit:{scope}:{client_ip}                                           *)
KeyOf(c) == <<c.scope, c.ip>>

Keys == {KeyOf(c) : c \in Callers}

TypeOK ==
  /\ backend \in {"redis", "mock"}
  /\ redis \in [Keys -> {NoCounter} \cup [hits: 1..MaxHits, left: 1..Window]]
  /\ entries \in [Keys -> {NoCounter} \cup [hits: 1..MaxHits, age: 0..Window]]
  /\ answer \in {NoAnswer} \cup (Callers \X {"admitted", "429", "500"})
  /\ recent \in [Callers -> [0..Window - 1 -> Nat]]
  /\ losses \in 0..MaxLosses

Init ==
  /\ backend \in {"redis", "mock"}
  /\ redis = [k \in Keys |-> NoCounter]
  /\ entries = [k \in Keys |-> NoCounter]
  /\ answer = NoAnswer
  /\ recent = [c \in Callers |-> [a \in 0..Window - 1 |-> 0]]
  /\ losses = 0

OneMore(n) == IF n < MaxHits THEN n + 1 ELSE n

(* Variant of Incr: every hit renews the expiry.                           *)
IncrAlwaysExpiring(counter) ==
  IF counter = NoCounter THEN [hits |-> 1, left |-> Window]
  ELSE [hits |-> OneMore(counter.hits), left |-> Window]

(* INCR_WITH_EXPIRY: the EXPIRE belongs to the first hit only.             *)
Incr(counter) ==
  IF counter = NoCounter THEN [hits |-> 1, left |-> Window]
  ELSE [counter EXCEPT !.hits = OneMore(@)]

(* The map's entry: a missing or an over-age one starts again at zero, and *)
(* only then is the request counted.                                       *)
Hit(entry) ==
  IF entry = NoCounter \/ entry.age >= Window THEN [hits |-> 1, age |-> 0]
  ELSE [entry EXCEPT !.hits = OneMore(@)]

(* Variant of Verdict: off by one.                                         *)
VerdictLate(c, count) == IF count > Limit[c] + 1 THEN "429" ELSE "admitted"

Verdict(c, count) == IF count > Limit[c] THEN "429" ELSE "admitted"

(* The handler goes on to the write, or answers 429 without it.            *)
Answered(c, count) ==
  /\ answer' = <<c, Verdict(c, count)>>
  /\ recent' = IF Verdict(c, count) = "admitted"
               THEN [recent EXCEPT ![c][0] = @ + 1] ELSE recent

CheckRedis(c) ==
  /\ backend = "redis"
  /\ redis' = [redis EXCEPT ![KeyOf(c)] = Incr(@)]
  /\ Answered(c, Incr(redis[KeyOf(c)]).hits)
  /\ UNCHANGED <<backend, entries, losses>>

(* Unreachable within the connection's timeouts, or run and not answered:  *)
(* 500 either way, and nothing is retried.                                 *)
CheckFails(c) ==
  /\ backend = "redis"
  /\ \/ UNCHANGED redis
     \/ redis' = [redis EXCEPT ![KeyOf(c)] = Incr(@)]
  /\ answer' = <<c, "500">>
  /\ UNCHANGED <<backend, entries, recent, losses>>

CheckMock(c) ==
  /\ backend = "mock"
  /\ entries' = [entries EXCEPT ![KeyOf(c)] = Hit(@)]
  /\ Answered(c, Hit(entries[KeyOf(c)]).hits)
  /\ UNCHANGED <<backend, redis, losses>>

(* Variant of Tick: a key lives one tick too long, and history stands      *)
(* still.                                                                  *)
TickLate ==
  /\ redis' = [k \in Keys |->
       IF redis[k] = NoCounter \/ redis[k].left = 0 THEN NoCounter
       ELSE [redis[k] EXCEPT !.left = @ - 1]]
  /\ UNCHANGED <<backend, entries, answer, recent, losses>>

(* Time passes, and Redis drops what has expired.                          *)
Tick ==
  /\ redis' = [k \in Keys |->
       IF redis[k] = NoCounter \/ redis[k].left = 1 THEN NoCounter
       ELSE [redis[k] EXCEPT !.left = @ - 1]]
  /\ entries' = [k \in Keys |->
       IF entries[k] = NoCounter \/ entries[k].age = Window THEN entries[k]
       ELSE [entries[k] EXCEPT !.age = @ + 1]]
  /\ recent' = [c \in Callers |->
       [a \in 0..Window - 1 |-> IF a = 0 THEN 0 ELSE recent[c][a - 1]]]
  /\ UNCHANGED <<backend, answer, losses>>

(* Redis restarts without its data, or the process with its map.           *)
LoseCounters ==
  /\ losses < MaxLosses
  /\ losses' = losses + 1
  /\ redis' = [k \in Keys |-> NoCounter]
  /\ entries' = [k \in Keys |-> NoCounter]
  /\ UNCHANGED <<backend, answer, recent>>

Next ==
  \/ Tick \/ LoseCounters
  \/ \E c \in Callers : CheckRedis(c) \/ CheckFails(c) \/ CheckMock(c)

Spec == Init /\ [][Next]_vars

(* Time passes.                                                            *)
FairSpec == Spec /\ WF_vars(Tick)

-----------------------------------------------------------------------------
(* The window a caller is in, whichever backend counts it.                 *)

Counter(c) == IF backend = "redis" THEN redis[KeyOf(c)] ELSE entries[KeyOf(c)]

LeftOf(c) ==
  IF Counter(c) = NoCounter THEN 0
  ELSE IF backend = "redis" THEN Counter(c).left ELSE Window - Counter(c).age

UsedBy(c) ==
  IF LeftOf(c) = 0 THEN 0
  ELSE IF Counter(c).hits > Limit[c] THEN Limit[c] ELSE Counter(c).hits

Fixed == INSTANCE FixedWindow WITH
  used <- [c \in Callers |-> UsedBy(c)],
  left <- [c \in Callers |-> LeftOf(c)]

(* Both backends are the same fixed window: a caller is refused exactly    *)
(* when the window its own first request opened has no budget left, and    *)
(* neither refused requests nor other callers move that window.            *)
ImplementsFixedWindow == Fixed!Spec

(* Requests of c admitted in the last Window ticks.                        *)
AdmittedLately(c) == MapThenSumSet(LAMBDA a : recent[c][a], 0..Window - 1)

(* What fixed windows do guarantee about every span as long as a window:   *)
(* it meets two windows at most, and one more for each loss of counters.   *)
SpanMeetsTwoWindows ==
  \A c \in Callers :
    AdmittedLately(c) <= Limit[c] * (2 + losses)

(* A caller at its limit gets a fresh budget in the end, even one that     *)
(* goes on hammering: refused requests do not renew the expiry.            *)
BudgetComesBack ==
  \A c \in Callers : UsedBy(c) > 0 ~> UsedBy(c) = 0
=============================================================================
