--------------------------------- MODULE Jwks ---------------------------------
(***************************************************************************)
(* OidcVerifier: bearer tokens checked against the issuer's key set, which *)
(* each process caches.  A request that finds no fresh entry fetches the   *)
(* discovery document, then the keys, and writes the entry; no lock spans  *)
(* the fetch, so several may be under way and land in any order while the  *)
(* issuer rotates its keys.                                                *)
(*                                                                         *)
(* A token is the key its kid names, and whether signature, expiry, issuer *)
(* and audience are right.                                                 *)
(***************************************************************************)
EXTENDS Naturals

CONSTANTS
  Requests,    (* requests that may be fetching                            *)
  Ttl,         (* JWKS_CACHE_TTL, in ticks                                 *)
  Latency,     (* bound: ticks a fetched key set waits to be written       *)
  MaxKey,      (* bound: the last key the issuer makes                     *)
  NoCache      (* the cache before the first fetch                         *)

ASSUME JwksAssumption ==
  Ttl \in Nat \ {0} /\ Latency \in Nat /\ MaxKey \in Nat

Key == 0..MaxKey

Token == [kid: Key, good: BOOLEAN]

VARIABLES
  published,   (* the keys of the issuer's JWKS document                   *)
  next,        (* the key it will make next                                *)
  since,       (* history: ticks since each key was published or withdrawn *)
  cache,       (* the key set held, and the ticks since fetched_at         *)
  request,     (* where each request is: its token, the keys it fetched    *)
               (* and the ticks since                                      *)
  verdict      (* the answer given by the last step, if it gave one        *)

issuer == <<published, next, since>>
vars == <<issuer, cache, request, verdict>>

Idle == [pc |-> "idle"]

Silent == verdict' = <<>>

TypeOK ==
  /\ published \in SUBSET Key
  /\ next \in 0..MaxKey + 1
  /\ since \in [Key -> 0..Ttl + Latency]
  /\ cache = NoCache \/ cache \in [keys: SUBSET Key, age: 0..Ttl]
  /\ request \in [Requests ->
       {Idle} \cup [pc: {"discovery", "keys"}, token: Token]
       \cup [pc: {"write"}, token: Token, keys: SUBSET Key, held: 0..Latency]]
  /\ verdict = <<>> \/ verdict \in Token \X {"accepted", "401", "503"}

Init ==
  /\ published = {0} /\ next = 1
  /\ since = [k \in Key |-> Ttl + Latency]
  /\ cache = NoCache
  /\ request = [r \in Requests |-> Idle]
  /\ verdict = <<>>

-----------------------------------------------------------------------------
(* The issuer and time.                                                    *)

Publish ==
  /\ next \in Key
  /\ published' = published \cup {next} /\ next' = next + 1
  /\ since' = [since EXCEPT ![next] = 0]
  /\ Silent /\ UNCHANGED <<cache, request>>

Withdraw(k) ==
  /\ k \in published
  /\ published' = published \ {k}
  /\ since' = [since EXCEPT ![k] = 0]
  /\ Silent /\ UNCHANGED <<next, cache, request>>

Later(age, end) == IF age < end THEN age + 1 ELSE age

Writing(r) == request[r].pc = "write"

(* Ages are followed as far as they matter.                                *)
Tick ==
  /\ \A r \in Requests : Writing(r) => request[r].held < Latency
  /\ since' = [k \in Key |-> Later(since[k], Ttl + Latency)]
  /\ cache' = IF cache = NoCache THEN cache
              ELSE [cache EXCEPT !.age = Later(@, Ttl)]
  /\ request' = [r \in Requests |->
       IF Writing(r) THEN [request[r] EXCEPT !.held = @ + 1] ELSE request[r]]
  /\ Silent /\ UNCHANGED <<published, next>>

-----------------------------------------------------------------------------
(* decode_bearer_token and jwks.                                           *)

(* Variant of Fresh: off by one.                                           *)
FreshALittleLonger == cache # NoCache /\ cache.age <= Ttl

Fresh == cache # NoCache /\ cache.age < Ttl

(* Variant of Status: a bad token is forbidden, not unauthorised.          *)
StatusAsForbidden(token, keys) ==
  IF token.kid \notin keys THEN "401"
  ELSE IF token.good THEN "accepted" ELSE "403"

(* A key the set does not have is not looked for at the issuer.            *)
Status(token, keys) ==
  IF token.kid \in keys /\ token.good THEN "accepted" ELSE "401"

(* Variant of Hit: a hit renews the entry.                                 *)
HitRenews(token) ==
  /\ Fresh
  /\ verdict' = <<token, Status(token, cache.keys)>>
  /\ cache' = [cache EXCEPT !.age = 0]
  /\ UNCHANGED <<issuer, request>>

(* Under the read lock: the entry decides, without an await.               *)
Hit(token) ==
  /\ Fresh
  /\ verdict' = <<token, Status(token, cache.keys)>>
  /\ UNCHANGED <<issuer, cache, request>>

Miss(r, token) ==
  /\ request[r] = Idle /\ ~Fresh
  /\ request' = [request EXCEPT ![r] = [pc |-> "discovery", token |-> token]]
  /\ Silent /\ UNCHANGED <<issuer, cache>>

Discover(r) ==
  /\ request[r].pc = "discovery"
  /\ request' = [request EXCEPT ![r].pc = "keys"]
  /\ Silent /\ UNCHANGED <<issuer, cache>>

FetchKeys(r) ==
  /\ request[r].pc = "keys"
  /\ request' = [request EXCEPT ![r] =
       [pc |-> "write", token |-> @.token, keys |-> published, held |-> 0]]
  /\ Silent /\ UNCHANGED <<issuer, cache>>

(* Either answer is missing, an error or not the JSON expected: 503, and   *)
(* the entry stays as it was.                                              *)
FetchFails(r) ==
  /\ request[r].pc \in {"discovery", "keys"}
  /\ request' = [request EXCEPT ![r] = Idle]
  /\ verdict' = <<request[r].token, "503">>
  /\ UNCHANGED <<issuer, cache>>

(* The write lock, whatever another request wrote meanwhile; the entry is  *)
(* dated now, not when its keys were fetched.  The token is checked        *)
(* against the keys of this fetch.                                         *)
WriteCache(r) ==
  /\ Writing(r)
  /\ cache' = [keys |-> request[r].keys, age |-> 0]
  /\ verdict' = <<request[r].token, Status(request[r].token, request[r].keys)>>
  /\ request' = [request EXCEPT ![r] = Idle]
  /\ UNCHANGED issuer

(* The client goes away and the handler is dropped.                        *)
Drop(r) ==
  /\ request[r] # Idle
  /\ request' = [request EXCEPT ![r] = Idle]
  /\ Silent /\ UNCHANGED <<issuer, cache>>

Next ==
  \/ Publish \/ Tick \/ \E k \in Key : Withdraw(k)
  \/ \E token \in Token : Hit(token)
  \/ \E r \in Requests :
       \/ \E token \in Token : Miss(r, token)
       \/ Discover(r) \/ FetchKeys(r) \/ FetchFails(r)
       \/ WriteCache(r) \/ Drop(r)

Spec == Init /\ [][Next]_vars

(* Time passes, and a lock held for an assignment is obtained.             *)
FairSpec ==
  Spec /\ WF_vars(Tick) /\ \A r \in Requests : WF_vars(WriteCache(r))

-----------------------------------------------------------------------------
(* Properties.                                                             *)

(* How far answers lag behind the issuer: a withdrawn key is still         *)
(* accepted, or a published one refused, only within the TTL and the time  *)
(* a fetched set waited to be written.                                     *)
AnswersLagBehindByTtl ==
  \A token \in Token :
    /\ verdict = <<token, "accepted">> =>
         token.kid \in published \/ since[token.kid] < Ttl + Latency
    /\ verdict = <<token, "401">> /\ token.good =>
         token.kid \notin published \/ since[token.kid] < Ttl + Latency

(* Once the issuer leaves its keys alone, the cache holds them: an older   *)
(* set that lands late does not stay.                                      *)
EventuallyCurrent == <>[](Fresh => cache.keys = published)
=============================================================================
