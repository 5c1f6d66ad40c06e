------------------------------ MODULE JwksProofs ------------------------------
(***************************************************************************)
(* The key cache of OidcVerifier, for any requests, TTL, keys and latency: *)
(* types, and how far its answers lag behind the issuer; and what every    *)
(* caller is told of them, for any credentials and claims.                 *)
(***************************************************************************)
EXTENDS Answers, TLAPS

USE JwksAssumption

(* Where a request can be.                                                 *)
Fetching == [pc: {"discovery", "keys"}, token: Token]
Landing == [pc: {"write"}, token: Token, keys: SUBSET Key, held: 0..Latency]
Entry == [keys: SUBSET Key, age: 0..Ttl]

(* The place of a request tells what it carries.                           *)
LEMMA Places ==
  ASSUME TypeOK, NEW r \in Requests
  PROVE  /\ request[r] \in {Idle} \cup Fetching \cup Landing
         /\ request[r].pc \in {"discovery", "keys"} => request[r] \in Fetching
         /\ Writing(r) => request[r] \in Landing
<1>1. request[r] \in {Idle} \cup Fetching \cup Landing
    BY DEF TypeOK, Fetching, Landing
<1>2. Idle.pc = "idle"  BY DEF Idle
<1>3. request[r] \in Fetching => request[r].pc \in {"discovery", "keys"}
    BY DEF Fetching
<1>4. request[r] \in Landing => request[r].pc = "write"  BY DEF Landing
<1> QED  BY <1>1, <1>2, <1>3, <1>4 DEF Writing

(* One request moves to a place there is.                                  *)
LEMMA Moved ==
  ASSUME TypeOK, NEW r \in Requests, NEW x \in {Idle} \cup Fetching \cup Landing
  PROVE  [request EXCEPT ![r] = x] \in [Requests -> {Idle} \cup Fetching \cup Landing]
  BY DEF TypeOK, Fetching, Landing

(* An answer is one of the three.                                          *)
LEMMA AnswerTyped ==
  \A token \in Token, keys \in SUBSET Key :
    <<token, Status(token, keys)>> \in Token \X {"accepted", "401", "503"}
  BY DEF Status

(* All variables keep their types, ages and waits within their bounds.     *)
LEMMA TypeStep == TypeOK /\ [Next]_vars => TypeOK'
<1> SUFFICES ASSUME TypeOK, [Next]_vars PROVE TypeOK'  OBVIOUS
<1> USE DEF Silent, issuer
<1>1. CASE UNCHANGED vars  BY <1>1 DEF vars, TypeOK
<1>2. CASE Publish  BY <1>2 DEF Publish, TypeOK, Key
<1>3. ASSUME NEW k \in Key, Withdraw(k) PROVE TypeOK'
    BY <1>3 DEF Withdraw, TypeOK, Key
<1>4. CASE Tick
  <2>1. since' \in [Key -> 0..Ttl + Latency]
      BY <1>4 DEF Tick, Later, TypeOK
  <2>2. cache' = NoCache \/ cache' \in Entry
    <3>1. CASE cache = NoCache  BY <1>4, <3>1 DEF Tick
    <3>2. CASE cache # NoCache
      <4>1. cache \in Entry /\ cache.age \in 0..Ttl  BY <3>2 DEF TypeOK, Entry
      <4>2. Later(cache.age, Ttl) \in 0..Ttl  BY <4>1 DEF Later
      <4> QED  BY <1>4, <3>2, <4>1, <4>2 DEF Tick, Entry
    <3> QED  BY <3>1, <3>2
  <2>3. request' \in [Requests -> {Idle} \cup Fetching \cup Landing]
    <3>1. ASSUME NEW r \in Requests, Writing(r)
          PROVE  [request[r] EXCEPT !.held = @ + 1] \in Landing
      <4>1. request[r] \in Landing /\ request[r].held < Latency
          BY <1>4, <3>1, Places DEF Tick
      <4> QED  BY <4>1 DEF Landing
    <3> QED  BY <1>4, <3>1, Places DEF Tick
  <2> QED  BY <1>4, <2>1, <2>2, <2>3 DEF Tick, TypeOK, Fetching, Landing, Entry
<1>5. ASSUME NEW token \in Token, Hit(token) PROVE TypeOK'
    BY <1>5, AnswerTyped DEF Hit, Fresh, TypeOK
<1>6. ASSUME NEW r \in Requests, NEW token \in Token, Miss(r, token) PROVE TypeOK'
  <2>1. [pc |-> "discovery", token |-> token] \in Fetching  BY DEF Fetching
  <2> QED  BY <1>6, <2>1, Moved DEF Miss, TypeOK, Fetching, Landing
<1>7. ASSUME NEW r \in Requests, Discover(r) PROVE TypeOK'
  <2>1. request[r] \in Fetching  BY <1>7, Places DEF Discover
  <2>2. [request[r] EXCEPT !.pc = "keys"] \in Fetching  BY <2>1 DEF Fetching
  <2>3. request' = [request EXCEPT ![r] = [request[r] EXCEPT !.pc = "keys"]]
      BY <1>7 DEF Discover
  <2> QED  BY <1>7, <2>2, <2>3, Moved DEF Discover, TypeOK, Fetching, Landing
<1>8. ASSUME NEW r \in Requests, FetchKeys(r) PROVE TypeOK'
  <2>1. request[r] \in Fetching  BY <1>8, Places DEF FetchKeys
  <2>2. [pc |-> "write", token |-> request[r].token, keys |-> published, held |-> 0]
          \in Landing
      BY <2>1 DEF Fetching, Landing, TypeOK
  <2>3. request' = [request EXCEPT ![r] =
          [pc |-> "write", token |-> request[r].token, keys |-> published, held |-> 0]]
      BY <1>8 DEF FetchKeys
  <2> QED  BY <1>8, <2>2, <2>3, Moved DEF FetchKeys, TypeOK, Fetching, Landing
<1>9. ASSUME NEW r \in Requests, FetchFails(r) PROVE TypeOK'
  <2>1. request[r].token \in Token  BY <1>9, Places DEF FetchFails, Fetching
  <2> QED  BY <1>9, <2>1, Moved DEF FetchFails, TypeOK, Fetching, Landing
<1>10. ASSUME NEW r \in Requests, WriteCache(r) PROVE TypeOK'
  <2>1. request[r].token \in Token /\ request[r].keys \in SUBSET Key
      BY <1>10, Places DEF WriteCache, Landing
  <2>2. cache' \in Entry  BY <1>10, <2>1 DEF WriteCache, Entry
  <2> QED  BY <1>10, <2>1, <2>2, Moved, AnswerTyped DEF WriteCache, TypeOK, Fetching, Landing, Entry
<1>11. ASSUME NEW r \in Requests, Drop(r) PROVE TypeOK'
    BY <1>11, Moved DEF Drop, TypeOK, Fetching, Landing
<1> QED  BY <1>1, <1>2, <1>3, <1>4, <1>5, <1>6, <1>7, <1>8, <1>9, <1>10, <1>11 DEF Next

(* All variables keep their types, and no answer is other than accepted,   *)
(* 401 or 503.                                                             *)
THEOREM TypeCorrect == Spec => []TypeOK
<1>1. Init => TypeOK  BY DEF Init, TypeOK, Key, Idle
<1> QED  BY <1>1, TypeStep, PTL DEF Spec

-----------------------------------------------------------------------------

(* Of the keys that a set and the issuer disagree about, each was          *)
(* published or withdrawn within the given number of ticks.                *)
DiffersSince(keys, ticks) ==
  \A k \in Key : (k \in keys) # (k \in published) => since[k] <= ticks

(* A fetched set is as old as it has been held; the cached one is older    *)
(* than its date says by the time its fetch held it.                       *)
Lag ==
  /\ cache # NoCache => DiffersSince(cache.keys, cache.age + Latency)
  /\ \A r \in Requests : Writing(r) => DiffersSince(request[r].keys, request[r].held)

(* The same of the state after a step.                                     *)
DiffersThen(keys, ticks) ==
  \A k \in Key : (k \in keys) # (k \in published') => since'[k] <= ticks

(* The issuer changes its keys: what it changes is dated now.              *)
LEMMA IssuerMoves ==
  ASSUME TypeOK, NEW k \in Key, NEW keys \in SUBSET Key, NEW ticks \in Nat,
         DiffersSince(keys, ticks),
         published' \ {k} = published \ {k}, since' = [since EXCEPT ![k] = 0]
  PROVE  DiffersThen(keys, ticks)
<1>1. ASSUME NEW j \in Key, (j \in keys) # (j \in published') PROVE since'[j] <= ticks
  <2>1. CASE j = k
    <3>1. since'[j] = 0  BY <2>1 DEF TypeOK
    <3> QED  BY <3>1
  <2>2. CASE j # k
    <3>1. since'[j] = since[j] /\ (j \in published' <=> j \in published)
        BY <2>2 DEF TypeOK
    <3> QED  BY <1>1, <3>1 DEF DiffersSince
  <2> QED  BY <2>1, <2>2
<1> QED  BY <1>1 DEF DiffersThen

(* A tick of the clock is a tick for every key.                            *)
LEMMA TickAges ==
  ASSUME TypeOK, Tick, NEW keys \in SUBSET Key, NEW ticks \in Nat,
         DiffersSince(keys, ticks)
  PROVE  DiffersThen(keys, ticks + 1)
<1>1. published' = published  BY DEF Tick
<1>2. ASSUME NEW j \in Key PROVE since'[j] <= since[j] + 1
  <2>1. since[j] \in 0..Ttl + Latency  BY DEF TypeOK
  <2>2. since'[j] = Later(since[j], Ttl + Latency)  BY DEF Tick
  <2> QED  BY <2>1, <2>2 DEF Later
<1>3. ASSUME NEW j \in Key PROVE since[j] \in Nat /\ since'[j] \in Nat
  <2>1. since \in [Key -> 0..Ttl + Latency]  BY DEF TypeOK
  <2>2. since' \in [Key -> 0..Ttl + Latency]  BY TypeStep DEF TypeOK, Next
  <2> QED  BY <2>1, <2>2
<1>4. ASSUME NEW j \in Key, (j \in keys) # (j \in published) PROVE since'[j] <= ticks + 1
  <2>1. since[j] <= ticks  BY <1>4 DEF DiffersSince
  <2> QED  BY <1>2, <1>3, <2>1
<1> QED  BY <1>1, <1>4 DEF DiffersThen

(* What is said of a set stays true when the issuer stands still.          *)
LEMMA StandsStill ==
  ASSUME UNCHANGED issuer, NEW keys, NEW ticks, DiffersSince(keys, ticks)
  PROVE  DiffersThen(keys, ticks)
  BY DEF DiffersSince, DiffersThen, issuer

(* A lag within the TTL and the latency is what an answer may have.        *)
LEMMA AnswersWithin ==
  ASSUME TypeOK, UNCHANGED issuer, NEW t \in Token, NEW keys \in SUBSET Key,
         NEW ticks \in Nat, ticks < Ttl + Latency, DiffersSince(keys, ticks),
         verdict' = <<t, Status(t, keys)>>
  PROVE  AnswersLagBehindByTtl'
<1>1. published' = published /\ since' = since  BY DEF issuer
<1>2. t.kid \in Key  BY DEF Token
<1>3. since[t.kid] \in Nat  BY <1>2 DEF TypeOK
<1>4. ((t.kid \in keys) # (t.kid \in published)) => since[t.kid] < Ttl + Latency
    BY <1>2, <1>3 DEF DiffersSince
<1>5. \A u \in Token : verdict' = <<u, "accepted">> => u = t /\ Status(t, keys) = "accepted"
    OBVIOUS
<1>6. \A u \in Token : verdict' = <<u, "401">> => u = t /\ Status(t, keys) = "401"
    OBVIOUS
<1>7. Status(t, keys) = "accepted" => t.kid \in keys  BY DEF Status
<1>8. Status(t, keys) = "401" /\ t.good => t.kid \notin keys  BY DEF Status
<1> QED  BY <1>1, <1>4, <1>5, <1>6, <1>7, <1>8 DEF AnswersLagBehindByTtl

(* An answer with neither verdict says nothing of the keys.                *)
LEMMA NoVerdict ==
  ASSUME verdict' = <<>> \/ \E u \in Token : verdict' = <<u, "503">>
  PROVE  AnswersLagBehindByTtl'
<1>1. \A u, v \in Token : <<u, "503">> # <<v, "accepted">> /\ <<u, "503">> # <<v, "401">>
    OBVIOUS
<1>2. \A v \in Token : <<>> # <<v, "accepted">> /\ <<>> # <<v, "401">>  OBVIOUS
<1> QED  BY <1>1, <1>2 DEF AnswersLagBehindByTtl

(* The lag of the cache and of the sets on their way is kept by all steps. *)
LEMMA LagStep == TypeOK /\ Lag /\ [Next]_vars => Lag'
<1> SUFFICES ASSUME TypeOK, Lag, [Next]_vars PROVE Lag'  OBVIOUS
<1> DEFINE CacheThen == cache' # NoCache => DiffersThen(cache'.keys, cache'.age + Latency)
           HeldThen(r) == Writing(r)' => DiffersThen(request'[r].keys, request'[r].held)
<1>a. cache # NoCache =>
        /\ cache.keys \in SUBSET Key /\ cache.age \in 0..Ttl
        /\ cache.age + Latency \in Nat
        /\ DiffersSince(cache.keys, cache.age + Latency)
    BY DEF TypeOK, Lag
<1>b. \A r \in Requests : Writing(r) =>
        /\ request[r].keys \in SUBSET Key /\ request[r].held \in Nat
        /\ request[r].held <= Latency
        /\ DiffersSince(request[r].keys, request[r].held)
    BY Places DEF Landing, Lag
<1>c. SUFFICES CacheThen /\ \A r \in Requests : HeldThen(r)
    BY DEF Lag, DiffersSince, DiffersThen
<1>1. ASSUME UNCHANGED issuer, UNCHANGED cache PROVE CacheThen
    BY <1>1, <1>a, StandsStill
<1>2. ASSUME UNCHANGED issuer, NEW r \in Requests, request'[r] = request[r] PROVE HeldThen(r)
    BY <1>2, <1>b, StandsStill DEF Writing
<1>3. ASSUME NEW k \in Key, published' \ {k} = published \ {k},
             since' = [since EXCEPT ![k] = 0], UNCHANGED <<cache, request>>
      PROVE  CacheThen /\ \A r \in Requests : HeldThen(r)
  <2>1. CacheThen  BY <1>3, <1>a, IssuerMoves
  <2>2. ASSUME NEW r \in Requests PROVE HeldThen(r)
      BY <1>3, <1>b, IssuerMoves DEF Writing
  <2> QED  BY <2>1, <2>2
<1>4. ASSUME UNCHANGED <<issuer, cache>>, NEW r \in Requests,
             \A s \in Requests \ {r} : request'[s] = request[s],
             ~Writing(r)' \/ DiffersThen(request'[r].keys, request'[r].held)
      PROVE  CacheThen /\ \A s \in Requests : HeldThen(s)
  <2>1. CacheThen  BY <1>1, <1>4
  <2>2. HeldThen(r)  BY <1>4
  <2>3. \A s \in Requests \ {r} : HeldThen(s)  BY <1>2, <1>4
  <2> QED  BY <2>1, <2>2, <2>3
<1>5. CASE UNCHANGED vars  BY <1>1, <1>2, <1>5 DEF vars
<1>6. CASE Publish
  <2>1. next \in Key /\ published' \ {next} = published \ {next}  BY <1>6 DEF Publish
  <2> QED  BY <1>3, <1>6, <2>1 DEF Publish
<1>7. ASSUME NEW k \in Key, Withdraw(k) PROVE CacheThen /\ \A r \in Requests : HeldThen(r)
  <2>1. published' \ {k} = published \ {k}  BY <1>7 DEF Withdraw
  <2> QED  BY <1>3, <1>7, <2>1 DEF Withdraw
<1>8. CASE Tick
  <2>1. CacheThen
    <3>1. CASE cache = NoCache  BY <1>8, <3>1 DEF Tick
    <3>2. CASE cache # NoCache
      <4>1. DiffersThen(cache.keys, cache.age + Latency + 1)
          BY <1>8, <1>a, <3>2, TickAges
      <4>2. cache'.keys = cache.keys /\ cache'.age = Later(cache.age, Ttl)
          BY <1>8, <3>2 DEF Tick, TypeOK
      <4>3. CASE cache.age < Ttl
        <5>1. cache'.age + Latency = cache.age + Latency + 1
            BY <1>a, <3>2, <4>2, <4>3 DEF Later
        <5> QED  BY <4>1, <4>2, <5>1
      <4>4. CASE ~(cache.age < Ttl)
        <5>1. cache'.age + Latency = Ttl + Latency
            BY <1>a, <3>2, <4>2, <4>4 DEF Later
        <5>2. \A k \in Key : since'[k] <= Ttl + Latency
          <6>1. since' \in [Key -> 0..Ttl + Latency]  BY TypeStep DEF TypeOK, Next
          <6> QED  BY <6>1
        <5> QED  BY <5>1, <5>2 DEF DiffersThen
      <4> QED  BY <4>3, <4>4
    <3> QED  BY <3>1, <3>2
  <2>2. ASSUME NEW r \in Requests, Writing(r)'
        PROVE  DiffersThen(request'[r].keys, request'[r].held)
    <3>1. Writing(r)
      <4>1. ~Writing(r) => request'[r] = request[r]  BY <1>8 DEF Tick
      <4> QED  BY <2>2, <4>1 DEF Writing
    <3>2. request'[r].keys = request[r].keys /\ request'[r].held = request[r].held + 1
      <4>1. request'[r] = [request[r] EXCEPT !.held = @ + 1] /\ request[r] \in Landing
          BY <1>8, <3>1, Places DEF Tick
      <4> QED  BY <4>1 DEF Landing
    <3> QED  BY <1>8, <1>b, <3>1, <3>2, TickAges
  <2> QED  BY <2>1, <2>2
<1>9. ASSUME NEW token \in Token, Hit(token)
      PROVE  CacheThen /\ \A r \in Requests : HeldThen(r)
    BY <1>1, <1>2, <1>9 DEF Hit
<1>10. ASSUME NEW r \in Requests, NEW token \in Token, Miss(r, token)
       PROVE  CacheThen /\ \A s \in Requests : HeldThen(s)
    BY <1>4, <1>10 DEF Miss, Writing, TypeOK
<1>11. ASSUME NEW r \in Requests, Discover(r)
       PROVE  CacheThen /\ \A s \in Requests : HeldThen(s)
  <2>1. request'[r].pc = "keys"
    <3>1. request[r] \in Fetching  BY <1>11, Places DEF Discover
    <3>2. request'[r] = [request[r] EXCEPT !.pc = "keys"]  BY <1>11 DEF Discover, TypeOK
    <3> QED  BY <3>1, <3>2 DEF Fetching
  <2> QED  BY <1>4, <1>11, <2>1 DEF Discover, Writing, TypeOK
<1>12. ASSUME NEW r \in Requests, FetchKeys(r)
       PROVE  CacheThen /\ \A s \in Requests : HeldThen(s)
  <2>1. request'[r].keys = published /\ request'[r].held = 0
      BY <1>12 DEF FetchKeys, TypeOK
  <2>2. DiffersThen(published, 0)  BY <1>12 DEF FetchKeys, DiffersThen, issuer
  <2>3. DiffersThen(request'[r].keys, request'[r].held)  BY <2>1, <2>2
  <2> QED  BY <1>4, <1>12, <2>3 DEF FetchKeys, TypeOK
<1>13. ASSUME NEW r \in Requests, FetchFails(r) \/ Drop(r)
       PROVE  CacheThen /\ \A s \in Requests : HeldThen(s)
  <2>1. request'[r].pc = "idle"  BY <1>13 DEF FetchFails, Drop, Idle, TypeOK
  <2>2. ~Writing(r)'  BY <2>1 DEF Writing
  <2>3. UNCHANGED <<issuer, cache>>  BY <1>13 DEF FetchFails, Drop
  <2>4. \A s \in Requests \ {r} : request'[s] = request[s]
      BY <1>13 DEF FetchFails, Drop, TypeOK
  <2> QED  BY <1>4, <2>2, <2>3, <2>4
<1>14. ASSUME NEW r \in Requests, WriteCache(r)
       PROVE  CacheThen /\ \A s \in Requests : HeldThen(s)
  <2>1. Writing(r) /\ cache'.keys = request[r].keys /\ cache'.age = 0 /\ UNCHANGED issuer
      BY <1>14 DEF WriteCache
  <2>2. DiffersThen(request[r].keys, request[r].held)  BY <1>b, <2>1, StandsStill
  <2>3. DiffersThen(request[r].keys, Latency)
    <3>1. ASSUME NEW k \in Key, since'[k] <= request[r].held PROVE since'[k] <= Latency
      <4>1. since'[k] \in Nat  BY <2>1 DEF issuer, TypeOK
      <4>2. request[r].held \in Nat /\ request[r].held <= Latency  BY <1>b, <2>1
      <4> QED  BY <3>1, <4>1, <4>2
    <3> QED  BY <2>2, <3>1 DEF DiffersThen
  <2>4. cache'.age + Latency = Latency  BY <2>1
  <2>5. CacheThen  BY <2>1, <2>3, <2>4
  <2>6. request'[r].pc = "idle" /\ \A s \in Requests \ {r} : request'[s] = request[s]
      BY <1>14 DEF WriteCache, Idle, TypeOK
  <2>7. \A s \in Requests : HeldThen(s)  BY <1>2, <2>1, <2>6 DEF Writing
  <2> QED  BY <2>5, <2>7
<1> QED  BY <1>5, <1>6, <1>7, <1>8, <1>9, <1>10, <1>11, <1>12, <1>13, <1>14 DEF Next

-----------------------------------------------------------------------------

(* Whatever order concurrent fetches land in, an answer lags behind the    *)
(* issuer by less than the TTL and the time a set waited to be written.    *)
THEOREM AnswersAreRecent == Spec => []AnswersLagBehindByTtl
<1>1. Init => TypeOK /\ Lag /\ AnswersLagBehindByTtl
    BY DEF Init, TypeOK, Key, Idle, Lag, Writing, AnswersLagBehindByTtl
<1>2. TypeOK /\ Lag /\ AnswersLagBehindByTtl /\ [Next]_vars => AnswersLagBehindByTtl'
  <2> SUFFICES ASSUME TypeOK, Lag, AnswersLagBehindByTtl, [Next]_vars
               PROVE  AnswersLagBehindByTtl'
      OBVIOUS
  <2>1. CASE UNCHANGED vars  BY <2>1 DEF vars, issuer, AnswersLagBehindByTtl
  <2>2. ASSUME NEW token \in Token, Hit(token) PROVE AnswersLagBehindByTtl'
    <3>1. /\ cache.keys \in SUBSET Key /\ cache.age \in 0..Ttl /\ cache.age < Ttl
          /\ DiffersSince(cache.keys, cache.age + Latency)
        BY <2>2 DEF Hit, Fresh, TypeOK, Lag
    <3>2. cache.age + Latency \in Nat /\ cache.age + Latency < Ttl + Latency  BY <3>1
    <3> QED  BY <2>2, <3>1, <3>2, AnswersWithin DEF Hit
  <2>3. ASSUME NEW r \in Requests, WriteCache(r) PROVE AnswersLagBehindByTtl'
    <3>1. request[r] \in Landing /\ DiffersSince(request[r].keys, request[r].held)
        BY <2>3, Places DEF WriteCache, Lag
    <3>2. /\ request[r].keys \in SUBSET Key /\ request[r].token \in Token
          /\ request[r].held \in Nat /\ request[r].held < Ttl + Latency
        BY <3>1 DEF Landing
    <3> QED  BY <2>3, <3>1, <3>2, AnswersWithin DEF WriteCache
  <2>4. ASSUME NEW r \in Requests, FetchFails(r) PROVE AnswersLagBehindByTtl'
    <3>1. request[r].token \in Token  BY <2>4, Places DEF FetchFails, Fetching
    <3> QED  BY <2>4, <3>1, NoVerdict DEF FetchFails
  <2>5. ASSUME Silent PROVE AnswersLagBehindByTtl'  BY <2>5, NoVerdict DEF Silent
  <2> QED  BY <2>1, <2>2, <2>3, <2>4, <2>5
           DEF Next, Publish, Tick, Withdraw, Miss, Discover, FetchKeys, Drop
<1> QED  BY <1>1, <1>2, TypeStep, LagStep, PTL DEF Spec

-----------------------------------------------------------------------------
(* The answers made of the verdicts.                                       *)

(* What a failed check of a handler may say.                               *)
Failures ==
  {"TooManyRequests", "Forbidden", "UnprocessableEntity", "Unauthorized",
   "NotFound", "PreconditionFailed", "ServiceUnavailable", "Internal"}

(* What a call is made of.                                                 *)
LEMMA CallOf ==
  ASSUME NEW call \in Calls
  PROVE  /\ call.route \in Routes /\ call.claims \in ClaimSets /\ call.fault \in Faults
         /\ call.mock \in BOOLEAN /\ call.contact \in BOOLEAN
         /\ \A route \in Routes, fault \in Faults :
              LET other == [call EXCEPT !.route = route, !.fault = fault]
              IN  /\ other.route = route /\ other.fault = fault
                  /\ other.header = call.header /\ other.query = call.query
                  /\ other.claims = call.claims /\ other.mock = call.mock
                  /\ other.contact = call.contact
  BY DEF Calls

(* A failed check is the first of those that failed, and no check says     *)
(* that the token was rejected.                                            *)
LEMMA HandleSays ==
  ASSUME NEW call, call.fault \in Faults,
         call.route \in {"list", "list_v1", "create", "create_v1", "delete", "stats",
                         "audit", "form", "save_form"}
  PROVE  \/ Handle(call) = Response(200, {})
         \/ Handle(call) = WithSunset(Response(200, {}))
         \/ \E e \in Failures :
              /\ Handle(call) = IntoResponse(e)
              /\ e = "Unauthorized" => ~call.claims.sub
<1> DEFINE checks == Checks(call)
           failed == {i \in 1..5 : checks[i] # "Ok"}
           first == CHOOSE i \in failed : \A j \in failed : i <= j
<1>1. \A i \in 1..5 : checks[i] \in Failures \cup {"Ok"}
    BY DEF Checks, Failures, Faults
<1>2. \A i \in 1..5 : checks[i] = "Unauthorized" => ~call.claims.sub
    BY DEF Checks, Faults
<1>3. CASE failed = {}  BY <1>3 DEF Handle
<1>4. CASE failed # {}
  <2>1. \E i \in failed : \A j \in failed : i <= j
    <3> HIDE DEF checks
    <3> QED  BY <1>4
  <2>2. first \in failed /\ first \in 1..5
    <3> HIDE DEF checks
    <3> QED  BY <2>1
  <2>3. checks[first] \in Failures
    <3> HIDE DEF checks, first
    <3> QED  BY <1>1, <2>2
  <2>4. FromCrudError(checks[first]) = checks[first]
    <3>1. Failures \subseteq DOMAIN Statuses  BY DEF Failures, Statuses
    <3> QED  BY <2>3, <3>1 DEF FromCrudError
  <2>5. Handle(call) = IntoResponse(checks[first])
      BY <1>4, <2>4 DEF Handle
  <2> QED  BY <1>2, <2>2, <2>3, <2>5
<1> QED  BY <1>3, <1>4

(* What the layers around every route make of a response.                  *)
Layered(response) == SecurityHeaders(AddResourceMetadata(response))

(* The parts of a challenge.                                               *)
Challenge == {"Bearer", "resource_metadata", "invalid_token"}

(* A response that no check has rejected.                                  *)
Plain(status, headers, lists) ==
  [status: {status}, headers: {headers}, rejected: {FALSE}, lists: {lists}]

(* The fields of such a response.                                          *)
LEMMA ResponseFields ==
  ASSUME NEW status, NEW headers
  PROVE  /\ Response(status, headers) \in Plain(status, headers, {})
         /\ \A lists : [Response(status, headers) EXCEPT !.lists = lists]
                          \in Plain(status, headers, lists)
  BY DEF Response, Plain

(* Version 1 tells when it ends.                                           *)
LEMMA SunsetFields ==
  WithSunset(Response(200, {})) \in Plain(200, {"Sunset", "Deprecation", "Link"}, {})
<1>1. Response(200, {}).headers \cup {"Sunset", "Deprecation", "Link"}
        = {"Sunset", "Deprecation", "Link"}
    BY DEF Response
<1>2. WithSunset(Response(200, {})) =
        [Response(200, {}) EXCEPT !.headers = {"Sunset", "Deprecation", "Link"}]
    BY <1>1 DEF WithSunset
<1>3. WithSunset(Response(200, {})) = Response(200, {"Sunset", "Deprecation", "Link"})
    BY <1>2, ZenonT(40) DEF Response
<1> QED  BY <1>3, ResponseFields

(* A response that is no error gains the security headers, and a page that *)
(* answers 401 the plain challenge.                                        *)
LEMMA PlainLayered ==
  ASSUME NEW status \in Nat, NEW headers, NEW lists, headers \cap Challenge = {},
         NEW plain \in Plain(status, headers, lists)
  PROVE  LET answer == Layered(plain)
         IN  /\ answer.status = status /\ answer.lists = lists
             /\ status # 401 => answer.headers = headers \cup {"security"}
             /\ "page" \in answer.headers <=> "page" \in headers
             /\ answer.headers \cap Challenge =
                  IF status = 401 THEN {"Bearer", "resource_metadata"} ELSE {}
<1>1. /\ plain.status = status /\ plain.headers = headers /\ plain.lists = lists
      /\ ~plain.rejected
    BY DEF Plain
<1>2. CASE status = 401
  <2>1. AddResourceMetadata(plain) =
          [plain EXCEPT !.headers = (@ \ {"invalid_token"}) \cup {"Bearer", "resource_metadata"}]
      BY <1>1, <1>2 DEF AddResourceMetadata
  <2>2. /\ Layered(plain).status = status /\ Layered(plain).lists = lists
        /\ Layered(plain).headers =
             (headers \ {"invalid_token"}) \cup {"Bearer", "resource_metadata"} \cup {"security"}
      BY <1>1, <2>1 DEF Layered, SecurityHeaders, Plain
  <2> QED  BY <1>2, <2>2 DEF Challenge
<1>3. CASE status # 401
  <2>1. AddResourceMetadata(plain) = plain  BY <1>1, <1>3 DEF AddResourceMetadata
  <2>2. /\ Layered(plain).status = status /\ Layered(plain).lists = lists
        /\ Layered(plain).headers = headers \cup {"security"}
      BY <1>1, <2>1 DEF Layered, SecurityHeaders, Plain
  <2> QED  BY <1>3, <2>2 DEF Challenge
<1> QED  BY <1>2, <1>3

(* An error keeps its status; a 401 is challenged, with its reason if the  *)
(* token was rejected.                                                     *)
LEMMA ErrorLayered ==
  ASSUME NEW e \in Failures \cup {"InvalidToken"}
  PROVE  LET answer == Layered(IntoResponse(e))
         IN  /\ answer.status = Statuses[e] /\ answer.lists = {}
             /\ "page" \notin answer.headers
             /\ answer.headers \cap Challenge =
                  CASE e = "InvalidToken" -> Challenge
                    [] e = "Unauthorized" -> {"Bearer", "resource_metadata"}
                    [] OTHER -> {}
<1> DEFINE raised == IntoResponse(e)
<1>1. /\ raised.status = Statuses[e] /\ raised.lists = {}
      /\ raised.rejected = (e = "InvalidToken")
      /\ raised.headers = {"problem"} \cup
           CASE e = "InvalidToken" -> {"Bearer", "invalid_token"}
             [] e = "Unauthorized" -> {"Bearer"}
             [] OTHER -> {}
      /\ DOMAIN raised = {"status", "headers", "rejected", "lists"}
      /\ raised = [f \in {"status", "headers", "rejected", "lists"} |-> raised[f]]
    BY DEF IntoResponse, Response
<1>2. Statuses[e] = 401 <=> e \in {"InvalidToken", "Unauthorized"}
    BY DEF Statuses, Failures
<1> HIDE DEF raised
<1>3. CASE e = "InvalidToken"
  <2>1. AddResourceMetadata(raised).headers =
          {"problem", "Bearer", "resource_metadata", "invalid_token"}
      BY <1>1, <1>2, <1>3 DEF AddResourceMetadata
  <2>2. /\ AddResourceMetadata(raised).status = Statuses[e]
        /\ AddResourceMetadata(raised).lists = {}
        /\ "headers" \in DOMAIN AddResourceMetadata(raised)
      BY <1>1, <1>2, <1>3 DEF AddResourceMetadata
  <2>3. /\ Layered(raised).headers =
             {"problem", "Bearer", "resource_metadata", "invalid_token", "security"}
        /\ Layered(raised).status = Statuses[e] /\ Layered(raised).lists = {}
      BY <2>1, <2>2 DEF Layered, SecurityHeaders
  <2> QED  BY <1>3, <2>3 DEF Challenge, raised
<1>4. CASE e = "Unauthorized"
  <2>1. AddResourceMetadata(raised).headers = {"problem", "Bearer", "resource_metadata"}
      BY <1>1, <1>2, <1>4 DEF AddResourceMetadata
  <2>2. /\ AddResourceMetadata(raised).status = Statuses[e]
        /\ AddResourceMetadata(raised).lists = {}
        /\ "headers" \in DOMAIN AddResourceMetadata(raised)
      BY <1>1, <1>2, <1>4 DEF AddResourceMetadata
  <2>3. /\ Layered(raised).headers = {"problem", "Bearer", "resource_metadata", "security"}
        /\ Layered(raised).status = Statuses[e] /\ Layered(raised).lists = {}
      BY <2>1, <2>2 DEF Layered, SecurityHeaders
  <2> QED  BY <1>4, <2>3 DEF Challenge, raised
<1>5. CASE e \notin {"InvalidToken", "Unauthorized"}
  <2>1. AddResourceMetadata(raised) = raised
      BY <1>1, <1>2, <1>5 DEF AddResourceMetadata
  <2>2. /\ Layered(raised).headers = {"problem", "security"}
        /\ Layered(raised).status = Statuses[e] /\ Layered(raised).lists = {}
      BY <1>1, <1>5, <2>1 DEF Layered, SecurityHeaders
  <2> QED  BY <1>5, <2>2 DEF Challenge, raised
<1> QED  BY <1>3, <1>4, <1>5

(* What is made of a token.                                                *)
LEMMA DecodedAs ==
  ASSUME NEW call, call.mock \in BOOLEAN, NEW status \in Said
  PROVE  /\ Decoded(call, status) \in {"Ok", "InvalidToken", "ServiceUnavailable"}
         /\ TokenOf(call) = Presented /\ ~call.mock =>
              Decoded(call, status) =
                CASE status = "accepted" -> "Ok"
                  [] status = "401" -> "InvalidToken"
                  [] status = "503" -> "ServiceUnavailable"
<1>1. status \in {"accepted", "401", "503"}  BY DEF Said
<1>2. CASE TokenOf(call) = Unreadable
  <2>1. Presented # Unreadable  BY AnswersAssumption
  <2> QED  BY <1>2, <2>1 DEF Decoded
<1>3. CASE TokenOf(call) # Unreadable /\ call.mock
    BY <1>3 DEF Decoded
<1>4. CASE TokenOf(call) # Unreadable /\ ~call.mock
    BY <1>1, <1>4 DEF Decoded
<1> QED  BY <1>2, <1>3, <1>4

(* The routes a handler is behind.                                         *)
Handled ==
  {"list", "list_v1", "create", "create_v1", "delete", "stats", "audit", "form", "save_form"}

(* Which extractor a route has.                                            *)
LEMMA Routed ==
  ASSUME NEW call, call.route \in Routes, NEW status
  PROVE  /\ call.route = "health" => Respond(call, status) = Layered(Response(200, {}))
         /\ call.route \in {"resource", "security_txt"} =>
              Respond(call, status) = Layered(Document(call))
         /\ call.route = "mock_token" => Respond(call, status) = Layered(MintToken(call))
         /\ call.route = "manifest" => Respond(call, status) = Layered(Manifest(call, status))
         /\ IsPage(call.route) => Respond(call, status) = Layered(Page(call, status))
         /\ call.route \in Handled /\ ~IsPage(call.route) =>
              Respond(call, status) = Layered(Api(call, status))
         /\ call.route \in {"health", "resource", "security_txt", "mock_token", "manifest"}
              \cup Handled
  BY DEF Respond, Layered, Routes, IsPage, Handled

(* The headers of the plain responses.                                     *)
PlainHeaders == {{}, {"page"}, {"public"}, {"Sunset", "Deprecation", "Link"}}

(* An error that is raised for its own reason: InvalidToken for a rejected *)
(* token, Unauthorized for want of a token or of a subject.                *)
Raised(call, status, response) ==
  \E e \in Failures \cup {"InvalidToken"} :
    /\ response = IntoResponse(e)
    /\ e = "InvalidToken" => HasToken(call) /\ Decoded(call, status) = "InvalidToken"
    /\ e = "Unauthorized" /\ HasToken(call) =>
         Decoded(call, status) = "Ok" /\ ~call.claims.sub

(* What a handler says is a plain response or an error of its own.         *)
LEMMA HandledAnswer ==
  ASSUME NEW call, call.fault \in Faults, call.route \in Handled,
         NEW status, Decoded(call, status) = "Ok"
  PROVE  \/ \E headers \in PlainHeaders \ {{"page"}} :
              Handle(call) \in Plain(200, headers, {})
         \/ Raised(call, status, Handle(call))
<1>1. CASE Handle(call) = Response(200, {})
  <2>1. Handle(call) \in Plain(200, {}, {})  BY <1>1, ResponseFields
  <2> QED  BY <2>1 DEF PlainHeaders
<1>2. CASE Handle(call) = WithSunset(Response(200, {}))
  <2>1. WithSunset(Response(200, {})) \in Plain(200, {"Sunset", "Deprecation", "Link"}, {})
      BY SunsetFields
  <2>2. {"Sunset", "Deprecation", "Link"} \in PlainHeaders \ {{"page"}}
      BY DEF PlainHeaders
  <2> QED  BY <1>2, <2>1, <2>2
<1>3. CASE \E e \in Failures :
             /\ Handle(call) = IntoResponse(e)
             /\ e = "Unauthorized" => ~call.claims.sub
  <2>1. "InvalidToken" \notin Failures  BY DEF Failures
  <2> QED  BY <1>3, <2>1 DEF Raised
<1> QED  BY <1>1, <1>2, <1>3, HandleSays DEF Handled

(* Every answer is a plain one, a page that asks for another token, or an  *)
(* error raised for its own reason.                                        *)
LEMMA EveryAnswer ==
  ASSUME NEW call \in Calls, NEW status \in Said
  PROVE  \E response :
           /\ Respond(call, status) = Layered(response)
           /\ \/ \E s \in {200, 404}, headers \in PlainHeaders, lists \in SUBSET {"v1", "v2"} :
                   response \in Plain(s, headers, lists)
              \/ /\ response \in Plain(401, {"page"}, {})
                 /\ HasToken(call) /\ Decoded(call, status) # "Ok"
              \/ Raised(call, status, response)
<1>1. call.route \in Routes /\ call.fault \in Faults /\ call.mock \in BOOLEAN
    BY CallOf
<1>2. Decoded(call, status) \in {"Ok", "InvalidToken", "ServiceUnavailable"}
    BY <1>1, DecodedAs
<1>3. \A s \in {200, 404}, headers \in PlainHeaders :
        Response(s, headers) \in Plain(s, headers, {})
    BY ResponseFields
<1>4. /\ {} \in PlainHeaders /\ {"page"} \in PlainHeaders /\ {"public"} \in PlainHeaders
      /\ {} \in SUBSET {"v1", "v2"}
    BY DEF PlainHeaders
<1>5. \A e \in {"TooManyRequests", "Internal", "ServiceUnavailable"} :
        FromCrudError(e) = e /\ Raised(call, status, IntoResponse(FromCrudError(e)))
  <2>1. \A e \in {"TooManyRequests", "Internal", "ServiceUnavailable"} :
          /\ e \in Failures /\ e # "InvalidToken" /\ e # "Unauthorized"
          /\ e \in DOMAIN Statuses
      BY DEF Failures, Statuses
  <2>2. \A e \in {"TooManyRequests", "Internal", "ServiceUnavailable"} : FromCrudError(e) = e
      BY <2>1 DEF FromCrudError
  <2>3. \A e \in {"TooManyRequests", "Internal", "ServiceUnavailable"} :
          Raised(call, status, IntoResponse(e))
      BY <2>1 DEF Raised
  <2> QED  BY <2>2, <2>3
<1>6. HasToken(call) /\ Decoded(call, status) \in {"InvalidToken", "ServiceUnavailable"} =>
        Raised(call, status, IntoResponse(Decoded(call, status)))
    BY Zenon DEF Raised, Failures
<1>7. CASE call.route \in {"health", "resource", "security_txt", "mock_token"}
  <2>1. \/ Document(call) = Response(404, {}) \/ Document(call) = Response(200, {"public"})
      BY DEF Document
  <2>2. \/ MintToken(call) = Response(404, {}) \/ MintToken(call) = Response(200, {})
        \/ MintToken(call) = IntoResponse(FromCrudError("TooManyRequests"))
        \/ MintToken(call) = IntoResponse(FromCrudError("Internal"))
      BY <1>1 DEF MintToken
  <2>3. CASE call.route = "health"  BY <1>1, <1>3, <1>4, <2>3, Routed
  <2>4. CASE call.route \in {"resource", "security_txt"}
      BY <1>1, <1>3, <1>4, <2>1, <2>4, Routed
  <2>5. CASE call.route = "mock_token"
      BY <1>1, <1>3, <1>4, <1>5, <2>2, <2>5, Routed
  <2> QED  BY <1>7, <2>3, <2>4, <2>5
<1>8. CASE call.route = "manifest"
  <2>1. \A lists : [Response(200, {}) EXCEPT !.lists = lists] \in Plain(200, {}, lists)
      BY ResponseFields
  <2>2. \A roles : \E lists \in SUBSET {"v1", "v2"} : Listing(roles) \in Plain(200, {}, lists)
    <3> TAKE roles
    <3> WITNESS {v \in {"v1", "v2"} : roles \cap Access(v).read # {}} \in SUBSET {"v1", "v2"}
    <3> QED  BY <2>1 DEF Listing
  <2>3. \/ Manifest(call, status) = Listing(call.claims.roles)
        \/ Manifest(call, status) = Listing({})
        \/ Manifest(call, status) = IntoResponse(FromCrudError("ServiceUnavailable"))
      BY <1>2 DEF Manifest
  <2>4. Respond(call, status) = Layered(Manifest(call, status))
      BY <1>1, <1>8, Routed
  <2>5. \/ \E lists \in SUBSET {"v1", "v2"} : Manifest(call, status) \in Plain(200, {}, lists)
        \/ Raised(call, status, Manifest(call, status))
    <3> DEFINE answer == Manifest(call, status)
    <3>1. \/ answer = Listing(call.claims.roles) \/ answer = Listing({})
          \/ answer = IntoResponse(FromCrudError("ServiceUnavailable"))
        BY <2>3
    <3> HIDE DEF answer
    <3> SUFFICES \/ \E lists \in SUBSET {"v1", "v2"} : answer \in Plain(200, {}, lists)
                 \/ Raised(call, status, answer)
        BY DEF answer
    <3>2. CASE \E roles : answer = Listing(roles)  BY <2>2, <3>2
    <3>3. CASE answer = IntoResponse(FromCrudError("ServiceUnavailable"))
      <4> DEFINE e == "ServiceUnavailable"
      <4>1. e \in {"TooManyRequests", "Internal", "ServiceUnavailable"}  OBVIOUS
      <4>2. Raised(call, status, IntoResponse(FromCrudError(e)))  BY <1>5, <4>1
      <4> QED  BY <3>3, <4>2
    <3> QED  BY <3>1, <3>2, <3>3
  <2> QED  BY <1>4, <2>4, <2>5
<1>9. CASE IsPage(call.route)
  <2>1. Respond(call, status) = Layered(Page(call, status)) /\ call.route \in Handled
      BY <1>1, <1>9, Routed DEF IsPage, Handled
  <2>2. CASE TokenOf(call) = None
    <3>1. Page(call, status) = Response(200, {"page"})
        BY <2>2 DEF Page, BootstrapPage
    <3> QED  BY <1>3, <1>4, <2>1, <3>1
  <2>3. CASE TokenOf(call) # None /\ Decoded(call, status) = "Ok"
    <3>1. Page(call, status) = Handle(call)  BY <2>3 DEF Page
    <3> QED  BY <1>1, <1>4, <2>1, <2>3, <3>1, HandledAnswer
  <2>4. CASE TokenOf(call) # None /\ Decoded(call, status) # "Ok"
    <3>1. Page(call, status) = Response(401, {"page"})
        BY <2>4 DEF Page, BootstrapPage
    <3>2. Page(call, status) \in Plain(401, {"page"}, {})
        BY <3>1, ResponseFields
    <3> QED  BY <2>1, <2>4, <3>2 DEF HasToken
  <2> QED  BY <2>2, <2>3, <2>4
<1>10. CASE call.route \in Handled /\ ~IsPage(call.route)
  <2>1. Respond(call, status) = Layered(Api(call, status))  BY <1>1, <1>10, Routed
  <2>2. CASE TokenOf(call) = None
    <3>1. Api(call, status) = IntoResponse("Unauthorized")  BY <2>2 DEF Api
    <3>2. Raised(call, status, IntoResponse("Unauthorized"))
        BY <2>2 DEF Raised, Failures, HasToken
    <3> QED  BY <2>1, <3>1, <3>2
  <2>3. CASE TokenOf(call) # None /\ Decoded(call, status) = "Ok"
    <3>1. Api(call, status) = Handle(call)  BY <2>3 DEF Api
    <3> QED  BY <1>1, <1>4, <1>10, <2>1, <2>3, <3>1, HandledAnswer
  <2>4. CASE TokenOf(call) # None /\ Decoded(call, status) # "Ok"
    <3>1. Api(call, status) = IntoResponse(Decoded(call, status))  BY <2>4 DEF Api
    <3> QED  BY <1>2, <1>6, <2>1, <2>4, <3>1 DEF HasToken
  <2> QED  BY <2>2, <2>3, <2>4
<1> QED
  <2>1. call.route \in {"health", "resource", "security_txt", "mock_token", "manifest"}
          \cup Handled
      BY <1>1, Routed
  <2> QED  BY <1>7, <1>8, <1>9, <1>10, <2>1

(* Statuses of the errors.                                                 *)
LEMMA ErrorStatuses ==
  ASSUME NEW e \in Failures \cup {"InvalidToken"}
  PROVE  /\ Statuses[e] \in {400, 401, 403, 404, 412, 422, 429, 500, 503}
         /\ Statuses[e] = 401 <=> e \in {"InvalidToken", "Unauthorized"}
         /\ Statuses[e] # 200
  BY DEF Statuses, Failures

(* The document on the resource is there for everyone, whatever the token. *)
LEMMA ResourceServed ==
  ASSUME NEW call, call.route = "resource", NEW status
  PROVE  Respond(call, status).headers = {"public", "security"}
<1>1. Respond(call, status) = Layered(Response(200, {"public"}))
    BY Routed DEF Document, Routes
<1>2. Response(200, {"public"}) \in Plain(200, {"public"}, {})  BY ResponseFields
<1>3. {"public"} \cap Challenge = {}  BY DEF Challenge
<1>4. Layered(Response(200, {"public"})).headers = {"public"} \cup {"security"}
    BY <1>2, <1>3, PlainLayered
<1> QED  BY <1>1, <1>4

(* The pairs of calls and answers.                                         *)
LEMMA AnsweredOf ==
  ASSUME NEW status \in Said
  PROVE  \A a \in Answered[status] : a.call \in Calls /\ a.answer = Respond(a.call, status)
<1>1. Answered[status] = {[call |-> call, answer |-> Respond(call, status)] : call \in Calls}
    BY DEF Answered
<1> QED  BY <1>1

(* Every answer of every call says why.                                    *)
LEMMA EveryChallenge ==
  ASSUME NEW status \in Said
  PROVE  Explained[status]
<1> SUFFICES ASSUME NEW call \in Calls
    PROVE  Explains(call, Respond(call, status), status)
  <2>1. \A a \in Answered[status] : a.call \in Calls /\ a.answer = Respond(a.call, status)
      BY AnsweredOf
  <2> QED  BY <2>1 DEF Explained
<1> DEFINE answer == Respond(call, status)
           says == answer.headers \cap Challenge
           decoded == Decoded(call, status)
<1> SUFFICES /\ answer.status # 401 => says = {}
             /\ answer.status = 401 /\ "page" \in answer.headers =>
                  HasToken(call) /\ decoded # "Ok" /\ says = {"Bearer", "resource_metadata"}
             /\ answer.status = 401 /\ "page" \notin answer.headers =>
                  /\ {"Bearer", "resource_metadata"} \subseteq says
                  /\ "invalid_token" \in says <=> HasToken(call) /\ decoded = "InvalidToken"
                  /\ HasToken(call) /\ decoded = "Ok" => ~call.claims.sub
  <2>1. Respond([call EXCEPT !.route = "resource"], status).headers = {"public", "security"}
    <3>1. [call EXCEPT !.route = "resource"].route = "resource"  BY DEF Calls
    <3> QED  BY <3>1, ResourceServed
  <2> QED  BY <2>1 DEF Explains, Challenge
<1>2. PICK response :
           /\ Respond(call, status) = Layered(response)
           /\ \/ \E s \in {200, 404}, headers \in PlainHeaders, lists \in SUBSET {"v1", "v2"} :
                   response \in Plain(s, headers, lists)
              \/ /\ response \in Plain(401, {"page"}, {})
                 /\ HasToken(call) /\ Decoded(call, status) # "Ok"
              \/ Raised(call, status, response)
    BY EveryAnswer
<1>3. \A headers \in PlainHeaders : headers \cap Challenge = {}
    BY DEF PlainHeaders, Challenge
<1>4. CASE \E s \in {200, 404}, headers \in PlainHeaders, lists \in SUBSET {"v1", "v2"} :
             response \in Plain(s, headers, lists)
  <2>1. Layered(response).status # 401 /\ Layered(response).headers \cap Challenge = {}
      BY <1>3, <1>4, PlainLayered
  <2> QED  BY <1>2, <2>1
<1>5. CASE response \in Plain(401, {"page"}, {}) /\ HasToken(call) /\ Decoded(call, status) # "Ok"
  <2>1. {"page"} \cap Challenge = {}  BY DEF Challenge
  <2>2. /\ Layered(response).status = 401 /\ "page" \in Layered(response).headers
        /\ Layered(response).headers \cap Challenge = {"Bearer", "resource_metadata"}
      BY <1>5, <2>1, PlainLayered
  <2> QED  BY <1>2, <1>5, <2>2
<1>6. CASE Raised(call, status, response)
  <2>1. PICK e \in Failures \cup {"InvalidToken"} :
          /\ response = IntoResponse(e)
          /\ e = "InvalidToken" => HasToken(call) /\ Decoded(call, status) = "InvalidToken"
          /\ e = "Unauthorized" /\ HasToken(call) =>
               Decoded(call, status) = "Ok" /\ ~call.claims.sub
      BY <1>6 DEF Raised
  <2>2. /\ Layered(response).status = Statuses[e] /\ "page" \notin Layered(response).headers
        /\ Layered(response).headers \cap Challenge =
             CASE e = "InvalidToken" -> Challenge
               [] e = "Unauthorized" -> {"Bearer", "resource_metadata"}
               [] OTHER -> {}
      BY <2>1, ErrorLayered
  <2>3. Statuses[e] = 401 <=> e \in {"InvalidToken", "Unauthorized"}  BY ErrorStatuses
  <2>4. CASE e = "InvalidToken"
      BY <1>2, <2>1, <2>2, <2>3, <2>4 DEF Challenge
  <2>5. CASE e = "Unauthorized"
      BY <1>2, <2>1, <2>2, <2>3, <2>5
  <2>6. CASE e \notin {"InvalidToken", "Unauthorized"}
      BY <1>2, <2>2, <2>3, <2>6
  <2> QED  BY <2>4, <2>5, <2>6
<1> QED  BY <1>2, <1>4, <1>5, <1>6

(* The layers leave what a handler says its status.                        *)
LEMMA LayersKeepStatus ==
  ASSUME NEW call, call.fault \in Faults, call.route \in Handled,
         NEW status, Decoded(call, status) = "Ok"
  PROVE  Layered(Handle(call)).status = Handle(call).status
<1>1. CASE \E headers \in PlainHeaders \ {{"page"}} : Handle(call) \in Plain(200, headers, {})
  <2>1. PICK headers \in PlainHeaders : Handle(call) \in Plain(200, headers, {})  BY <1>1
  <2>2. headers \cap Challenge = {}  BY DEF PlainHeaders, Challenge
  <2>3. Layered(Handle(call)).status = 200  BY <2>1, <2>2, PlainLayered
  <2>4. Handle(call).status = 200  BY <2>1 DEF Plain
  <2> QED  BY <2>3, <2>4
<1>2. CASE Raised(call, status, Handle(call))
  <2>1. PICK e \in Failures \cup {"InvalidToken"} : Handle(call) = IntoResponse(e)
      BY <1>2 DEF Raised
  <2>2. Layered(Handle(call)).status = Statuses[e]  BY <2>1, ErrorLayered
  <2>3. IntoResponse(e).status = Statuses[e]  BY DEF IntoResponse, Response
  <2> QED  BY <2>1, <2>2, <2>3
<1> QED  BY <1>1, <1>2, HandledAnswer

(* The answers that are no handler's.                                      *)
LEMMA LayeredStatuses ==
  /\ Layered(Response(200, {})).status = 200 /\ Layered(Response(200, {"public"})).status = 200
  /\ Layered(Response(404, {})).status = 404
  /\ Layered(Response(200, {"page"})).status = 200
  /\ Layered(Response(401, {"page"})).status = 401
  /\ \A roles : /\ Layered(Listing(roles)).status = 200
                /\ Layered(Listing(roles)).lists
                     = {v \in {"v1", "v2"} : roles \cap Access(v).read # {}}
                /\ Layered(Listing(roles)).lists = Listing(roles).lists
  /\ \A e \in Failures \cup {"InvalidToken"} :
       /\ Layered(IntoResponse(e)).status = Statuses[e]
       /\ Layered(IntoResponse(e)).lists = {}
  /\ FromCrudError("ServiceUnavailable") = "ServiceUnavailable"
<1>1. \A headers \in PlainHeaders : headers \cap Challenge = {}
    BY DEF PlainHeaders, Challenge
<1>2. \A s \in {200, 401, 404}, headers \in PlainHeaders :
        Layered(Response(s, headers)).status = s
  <2> TAKE s \in {200, 401, 404}, headers \in PlainHeaders
  <2>1. Response(s, headers) \in Plain(s, headers, {})  BY ResponseFields
  <2>2. s \in Nat  OBVIOUS
  <2> QED  BY <1>1, <2>1, <2>2, PlainLayered
<1>3. {{}, {"page"}, {"public"}} \subseteq PlainHeaders  BY DEF PlainHeaders
<1>4. \A roles : /\ Layered(Listing(roles)).status = 200
                 /\ Layered(Listing(roles)).lists
                      = {v \in {"v1", "v2"} : roles \cap Access(v).read # {}}
                 /\ Layered(Listing(roles)).lists = Listing(roles).lists
  <2> TAKE roles
  <2> DEFINE lists == {v \in {"v1", "v2"} : roles \cap Access(v).read # {}}
  <2>1. \A l : [Response(200, {}) EXCEPT !.lists = l] \in Plain(200, {}, l)
      BY ResponseFields
  <2>2. Listing(roles) \in Plain(200, {}, lists)
      BY <2>1 DEF Listing
  <2> HIDE DEF lists
  <2>3. Layered(Listing(roles)).status = 200 /\ Layered(Listing(roles)).lists = lists
      BY <1>1, <1>3, <2>2, PlainLayered
  <2>4. Listing(roles).lists = lists  BY <2>2 DEF Plain
  <2> QED  BY <2>3, <2>4 DEF lists
<1>5. FromCrudError("ServiceUnavailable") = "ServiceUnavailable"
    BY DEF FromCrudError, Statuses
<1> QED  BY <1>2, <1>3, <1>4, <1>5, ErrorLayered

(* A token that the issuer has vouched for, or could not be asked about,   *)
(* is served by every route.                                               *)
LEMMA EveryRouteServes ==
  ASSUME NEW status \in {"accepted", "503"}
  PROVE  Served[status]
<1>1. status \in Said  BY DEF Said
<1> SUFFICES ASSUME NEW call \in Calls, TokenOf(call) = Presented, ~call.mock
    PROVE  Serves(call, Respond(call, status), status)
  <2>1. \A a \in Answered[status] : a.call \in Calls /\ a.answer = Respond(a.call, status)
      BY <1>1, AnsweredOf
  <2> QED  BY <1>1, <2>1 DEF Served
<1>2. /\ call.route \in Routes /\ call.fault \in Faults /\ call.mock \in BOOLEAN
      /\ call.contact \in BOOLEAN
    BY CallOf
<1>3. /\ status = "accepted" => Decoded(call, status) = "Ok"
      /\ status = "503" => Decoded(call, status) = "ServiceUnavailable"
    BY <1>1, <1>2, DecodedAs
<1>4. TokenOf(call) # None  BY AnswersAssumption
<1>5. "ServiceUnavailable" \in Failures /\ Statuses["ServiceUnavailable"] = 503
    BY DEF Failures, Statuses
<1>6. CASE call.route = "health"
    BY <1>2, <1>6, Routed, LayeredStatuses DEF Serves
<1>7. CASE call.route \in {"resource", "security_txt"}
  <2>1. Respond(call, status) = Layered(Document(call))  BY <1>2, <1>7, Routed
  <2>2. Document(call) = IF call.route = "security_txt" /\ ~call.contact
          THEN Response(404, {}) ELSE Response(200, {"public"})
      BY DEF Document
  <2> QED  BY <1>2, <1>7, <2>1, <2>2, LayeredStatuses DEF Serves
<1>8. CASE call.route = "mock_token"
  <2>1. Respond(call, status) = Layered(Response(404, {}))
      BY <1>2, <1>8, Routed DEF MintToken
  <2> QED  BY <1>8, <2>1, LayeredStatuses DEF Serves
<1>9. CASE call.route = "manifest"
  <2>1. Respond(call, status) = Layered(Manifest(call, status))  BY <1>2, <1>9, Routed
  <2>2. CASE status = "accepted"
    <3>1. Manifest(call, status) = Listing(call.claims.roles)
        BY <1>3, <1>4, <2>2 DEF Manifest
    <3>2. Layered(Listing(call.claims.roles)).lists = Listing(call.claims.roles).lists
        BY LayeredStatuses
    <3> QED  BY <1>9, <2>1, <3>1, <3>2 DEF Serves
  <2>3. CASE status = "503"
    <3>1. Manifest(call, status) = IntoResponse("ServiceUnavailable")
        BY <1>3, <1>4, <2>3, LayeredStatuses DEF Manifest
    <3> QED  BY <1>5, <1>9, <2>1, <2>3, <3>1, LayeredStatuses DEF Serves
  <2> QED  BY <2>2, <2>3
<1>10. CASE call.route \in Handled
  <2>1. CASE status = "accepted"
    <3>1. Respond(call, status) = Layered(Handle(call))
      <4>1. CASE IsPage(call.route)
          BY <1>2, <1>3, <1>4, <2>1, <4>1, Routed DEF Page
      <4>2. CASE ~IsPage(call.route)
          BY <1>2, <1>3, <1>4, <1>10, <2>1, <4>2, Routed DEF Api
      <4> QED  BY <4>1, <4>2
    <3>2. Respond(call, status).status = Handle(call).status
        BY <1>2, <1>3, <1>10, <2>1, <3>1, LayersKeepStatus
    <3> QED  BY <1>10, <2>1, <3>2 DEF Serves, Handled
  <2>2. CASE status = "503"
    <3>1. CASE IsPage(call.route)
      <4>1. Respond(call, status) = Layered(Response(401, {"page"}))
          BY <1>2, <1>3, <1>4, <2>2, <3>1, Routed DEF Page, BootstrapPage
      <4>2. Respond(call, status).status = 401  BY <4>1, LayeredStatuses
      <4> QED  BY <1>10, <2>2, <3>1, <4>2 DEF Serves, Handled
    <3>2. CASE ~IsPage(call.route)
      <4>1. Respond(call, status) = Layered(IntoResponse("ServiceUnavailable"))
          BY <1>2, <1>3, <1>4, <1>10, <2>2, <3>2, Routed DEF Api
      <4>2. Respond(call, status).status = 503  BY <1>5, <4>1, LayeredStatuses
      <4> QED  BY <1>10, <2>2, <3>2, <4>2 DEF Serves, Handled
    <3> QED  BY <3>1, <3>2
  <2> QED  BY <2>1, <2>2
<1> QED
  <2>1. call.route \in {"health", "resource", "security_txt", "mock_token", "manifest"}
          \cup Handled
      BY <1>2, Routed
  <2> QED  BY <1>6, <1>7, <1>8, <1>9, <1>10, <2>1

(* A read with nothing else in its way is served if its caller has a role  *)
(* for it.                                                                 *)
LEMMA ReadHandled ==
  ASSUME NEW call, call.route \in {"list", "list_v1", "stats"}, call.fault = "Ok"
  PROVE  /\ Handle(call).status \in Nat
         /\ Handle(call).status = 200 <=> call.claims.roles \cap ReadRoles # {}
<1> DEFINE failed == {i \in 1..5 : Checks(call)[i] # "Ok"}
           first == CHOOSE i \in failed : \A j \in failed : i <= j
<1>1. RolesOf(call.route) = ReadRoles /\ ~NeedsSubject(call.route) /\ ~Limited(call.route)
    BY DEF RolesOf, NeedsSubject, Limited
<1>2. CASE call.claims.roles \cap ReadRoles # {}
  <2>1. failed = {}  BY <1>1, <1>2 DEF Checks, HasRole
  <2>2. Handle(call) = Response(200, {}) \/ Handle(call) = WithSunset(Response(200, {}))
      BY <2>1 DEF Handle
  <2>3. Response(200, {}).status = 200 /\ WithSunset(Response(200, {})).status = 200
      BY DEF Response, WithSunset
  <2> QED  BY <1>2, <2>2, <2>3
<1>3. CASE call.claims.roles \cap ReadRoles = {}
  <2>1. Checks(call) = <<"Ok", "Forbidden", "Ok", "Ok", "Ok">>
      BY <1>1, <1>3 DEF Checks, HasRole
  <2>2. failed = {2}  BY <2>1
  <2>3. first = 2
    <3> HIDE DEF failed
    <3> QED  BY <2>2
  <2>4. Handle(call) = IntoResponse(FromCrudError("Forbidden"))
      BY <2>1, <2>2, <2>3 DEF Handle
  <2>5. FromCrudError("Forbidden") = "Forbidden" /\ Statuses["Forbidden"] = 403
      BY DEF FromCrudError, Statuses
  <2>6. IntoResponse("Forbidden").status = Statuses["Forbidden"]
      BY DEF IntoResponse, Response
  <2> QED  BY <1>3, <2>4, <2>5, <2>6
<1> QED  BY <1>2, <1>3

(* What a read of the same request is answered.                            *)
LEMMA ReadAnswered ==
  ASSUME NEW call \in Calls, call.route = "manifest", NEW status \in Said,
         NEW route \in {"list", "list_v1", "stats"}
  PROVE  /\ TokenOf(call) = None => Read(call, route, status) = 401
         /\ TokenOf(call) # None /\ Decoded(call, status) = "Ok" =>
              (Read(call, route, status) = 200 <=> call.claims.roles \cap ReadRoles # {})
         /\ TokenOf(call) # None /\ Decoded(call, status) = "InvalidToken" =>
              Read(call, route, status) = 401
         /\ TokenOf(call) # None /\ Decoded(call, status) = "ServiceUnavailable" =>
              Read(call, route, status) = 503
<1> DEFINE other == [call EXCEPT !.route = route, !.fault = "Ok"]
<1>1. /\ other.route = route /\ other.fault = "Ok" /\ other.header = call.header
      /\ other.query = call.query /\ other.claims = call.claims /\ other.mock = call.mock
  <2>1. route \in Routes /\ "Ok" \in Faults  BY DEF Routes, Faults
  <2> QED  BY <2>1, CallOf
<1> HIDE DEF other
<1>2. ~IsPage(route) /\ ~IsPage("manifest") /\ route \in Handled /\ route \in Routes
    BY DEF IsPage, Handled, Routes
<1>3. TokenOf(other) = TokenOf(call)  BY <1>1, <1>2 DEF TokenOf
<1>4. Decoded(other, status) = Decoded(call, status)  BY <1>1, <1>3 DEF Decoded
<1>5. Respond(other, status) = Layered(Api(other, status))  BY <1>1, <1>2, Routed
<1>6. \A e \in {"Unauthorized", "InvalidToken", "ServiceUnavailable"} :
        Layered(IntoResponse(e)).status = Statuses[e]
    BY LayeredStatuses DEF Failures
<1>7. /\ Statuses["Unauthorized"] = 401 /\ Statuses["InvalidToken"] = 401
      /\ Statuses["ServiceUnavailable"] = 503
    BY DEF Statuses
<1>8. TokenOf(call) = None => Respond(other, status).status = 401
    BY <1>3, <1>5, <1>6, <1>7 DEF Api
<1>9. TokenOf(call) # None /\ Decoded(call, status) = "InvalidToken" =>
        Respond(other, status).status = 401
    BY <1>3, <1>4, <1>5, <1>6, <1>7 DEF Api
<1>10. TokenOf(call) # None /\ Decoded(call, status) = "ServiceUnavailable" =>
         Respond(other, status).status = 503
    BY <1>3, <1>4, <1>5, <1>6, <1>7 DEF Api
<1>11. ASSUME TokenOf(call) # None, Decoded(call, status) = "Ok"
       PROVE  Respond(other, status).status = 200 <=> call.claims.roles \cap ReadRoles # {}
  <2>1. Respond(other, status) = Layered(Handle(other))
      BY <1>3, <1>4, <1>5, <1>11 DEF Api
  <2>2. other.fault \in Faults  BY <1>1 DEF Faults
  <2>3. Respond(other, status).status = Handle(other).status
      BY <1>1, <1>2, <1>4, <1>11, <2>1, <2>2, LayersKeepStatus
  <2>4. Handle(other).status = 200 <=> other.claims.roles \cap ReadRoles # {}
      BY <1>1, ReadHandled
  <2> QED  BY <1>1, <2>3, <2>4
<1> QED  BY <1>8, <1>9, <1>10, <1>11 DEF other, Read

(* The manifest lists what the same request may read.                      *)
LEMMA EveryManifest ==
  ASSUME NEW status \in Said
  PROVE  Listed[status]
<1> SUFFICES ASSUME NEW call \in Calls, call.route = "manifest"
    PROVE  ListsReadable(call, Respond(call, status), status)
  <2>1. \A a \in Answered[status] : a.call \in Calls /\ a.answer = Respond(a.call, status)
      BY AnsweredOf
  <2> QED  BY <2>1 DEF Listed
<1> DEFINE readable == {v \in {"v1", "v2"} :
             Read(call, IF v = "v1" THEN "list_v1" ELSE "list", status) = 200}
           answer == Respond(call, status)
<1>1. call.route \in Routes /\ call.mock \in BOOLEAN  BY CallOf
<1>2. Decoded(call, status) \in {"Ok", "InvalidToken", "ServiceUnavailable"}
    BY <1>1, DecodedAs
<1>3. answer = Layered(Manifest(call, status))  BY <1>1, Routed
<1>4. Read(call, "stats_v1", status) = 404
  <2>1. [call EXCEPT !.route = "stats_v1", !.fault = "Ok"].route = "stats_v1"  BY DEF Calls
  <2>2. Respond([call EXCEPT !.route = "stats_v1", !.fault = "Ok"], status)
          = Layered(Response(404, {}))
      BY <2>1 DEF Respond, IsPage, Layered
  <2> QED  BY <2>2, LayeredStatuses DEF Read
<1>5. \A route \in {"list", "list_v1", "stats"} :
        /\ TokenOf(call) = None => Read(call, route, status) = 401
        /\ TokenOf(call) # None /\ Decoded(call, status) = "Ok" =>
             (Read(call, route, status) = 200 <=> call.claims.roles \cap ReadRoles # {})
        /\ TokenOf(call) # None /\ Decoded(call, status) = "InvalidToken" => Read(call, route, status) = 401
        /\ TokenOf(call) # None /\ Decoded(call, status) = "ServiceUnavailable" =>
             Read(call, route, status) = 503
    BY ReadAnswered
<1>6. \A roles : /\ Layered(Listing(roles)).status = 200
                 /\ Layered(Listing(roles)).lists
                      = {v \in {"v1", "v2"} : roles \cap ReadRoles # {}}
    BY LayeredStatuses DEF Access
<1>7. Features("v1") = {} /\ "stats" \in Features("v2")  BY DEF Features
<1> SUFFICES /\ answer.status = 200 => answer.lists = readable
             /\ answer.status # 200 => readable = {} /\ answer.status = Read(call, "list", status)
             /\ \A v \in answer.lists :
                  "stats" \in Features(v) <=>
                    Read(call, IF v = "v1" THEN "stats_v1" ELSE "stats", status) = 200
    BY DEF ListsReadable
<1>8. CASE TokenOf(call) = None \/ Decoded(call, status) = "InvalidToken"
  <2>1. Manifest(call, status) = Listing({})  BY <1>8 DEF Manifest
  <2>2. answer.status = 200 /\ answer.lists = {}  BY <1>3, <1>6, <2>1
  <2>3. readable = {}  BY <1>5, <1>8
  <2> HIDE DEF answer, readable
  <2> QED  BY <2>2, <2>3
<1>9. CASE TokenOf(call) # None /\ Decoded(call, status) = "ServiceUnavailable"
  <2>1. Manifest(call, status) = IntoResponse("ServiceUnavailable")
      BY <1>9, LayeredStatuses DEF Manifest
  <2>2. "ServiceUnavailable" \in Failures /\ Statuses["ServiceUnavailable"] = 503
      BY DEF Failures, Statuses
  <2>3. answer.status = 503 /\ answer.lists = {}
      BY <1>3, <2>1, <2>2, LayeredStatuses
  <2>4. readable = {} /\ Read(call, "list", status) = 503  BY <1>5, <1>9
  <2> HIDE DEF answer, readable
  <2> QED  BY <2>3, <2>4
<1>10. CASE TokenOf(call) # None /\ Decoded(call, status) = "Ok"
  <2>1. Manifest(call, status) = Listing(call.claims.roles)  BY <1>10 DEF Manifest
  <2>2. answer.status = 200
        /\ answer.lists = {v \in {"v1", "v2"} : call.claims.roles \cap ReadRoles # {}}
      BY <1>3, <1>6, <2>1
  <2>3. readable = {v \in {"v1", "v2"} : call.claims.roles \cap ReadRoles # {}}
      BY <1>5, <1>10
  <2>4. Read(call, "stats", status) = 200 <=> call.claims.roles \cap ReadRoles # {}
      BY <1>5, <1>10
  <2> HIDE DEF answer, readable
  <2>5. \A v \in answer.lists :
          "stats" \in Features(v) <=>
                    Read(call, IF v = "v1" THEN "stats_v1" ELSE "stats", status) = 200
      BY <1>4, <1>7, <2>2, <2>4
  <2> QED  BY <2>2, <2>3, <2>5
<1> QED  BY <1>2, <1>8, <1>9, <1>10

(* What the last verdict was about and what it said.                       *)
LEMMA VerdictSaid ==
  ASSUME TypeOK, verdict # <<>>
  PROVE  /\ verdict[1] \in Token /\ verdict[2] \in Said
         /\ verdict = <<verdict[1], verdict[2]>>
  BY DEF TypeOK, Said

(* Whatever the verifier has just said, every call it may be asked for is  *)
(* answered with a reason: its challenge tells a missing token from a      *)
(* rejected one and from one without a subject, on every route, for all    *)
(* credentials and claims.                                                 *)
THEOREM EveryAnswerExplains == Spec => []ChallengesSayWhy
<1>1. TypeOK => ChallengesSayWhy
    BY VerdictSaid, EveryChallenge DEF ChallengesSayWhy
<1> QED  BY <1>1, TypeCorrect, PTL

(* A good token whose key has been published for longer than answers lag   *)
(* is not rejected by the verifier (AnswersAreRecent), and what it then    *)
(* says is served on every route or told as the outage it is.              *)
THEOREM NoGoodTokenIsRejected == Spec => []GoodTokensAreServed
<1>1. TypeOK /\ AnswersLagBehindByTtl => GoodTokensAreServed
  <2> SUFFICES ASSUME TypeOK, AnswersLagBehindByTtl, verdict # <<>>,
                      verdict[1].good, verdict[1].kid \in published,
                      since[verdict[1].kid] = Ttl + Latency
               PROVE  Served[verdict[2]]
      BY DEF GoodTokensAreServed
  <2>1. /\ verdict[1] \in Token /\ verdict[2] \in Said
        /\ verdict = <<verdict[1], verdict[2]>>
      BY VerdictSaid
  <2>2. verdict[2] # "401"
    <3>1. ~(since[verdict[1].kid] < Ttl + Latency)
      <4>1. Ttl + Latency \in Nat  OBVIOUS
      <4> QED  BY <4>1
    <3> QED  BY <2>1, <3>1 DEF AnswersLagBehindByTtl
  <2>3. verdict[2] \in {"accepted", "503"}  BY <2>1, <2>2 DEF Said
  <2> QED  BY <2>3, EveryRouteServes
<1> QED  BY <1>1, TypeCorrect, AnswersAreRecent, PTL

(* The manifest and the lists it announces are decided by the same token,  *)
(* roles and outage: it lists what its caller may read.                    *)
THEOREM ManifestIsHonest == Spec => []ManifestListsWhatMayBeRead
<1>1. TypeOK => ManifestListsWhatMayBeRead
    BY VerdictSaid, EveryManifest DEF ManifestListsWhatMayBeRead
<1> QED  BY <1>1, TypeCorrect, PTL
=============================================================================
