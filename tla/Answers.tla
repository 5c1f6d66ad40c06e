-------------------------------- MODULE Answers --------------------------------
(***************************************************************************)
(* What a caller is told once the verifier has looked at its token: the    *)
(* extractors of the API, the web form and the manifest, the role and      *)
(* subject checks of the handlers, AppError's rendering and the layers     *)
(* every response passes.  The verdict on the token is that of Jwks.       *)
(*                                                                         *)
(* A response is its status and its headers, the parts of the challenge    *)
(* among them, and what the manifest lists.                                *)
(***************************************************************************)
EXTENDS Jwks

CONSTANTS
  Credentials, (* what requests carry: [header, query]                     *)
  ClaimSets,   (* what accepted tokens say: [sub, roles]                   *)
  None,        (* no Authorization header, no ?token=                      *)
  Basic,       (* a header of another scheme                               *)
  Unreadable,  (* a bearer token that is no JWT, or names no key           *)
  Presented    (* a bearer token, the one the verdict is about             *)

(* A request without a token, or with one that cannot be read, is told     *)
(* from one with a token to check.                                         *)
ASSUME AnswersAssumption ==
  /\ Presented \notin {None, Basic, Unreadable} /\ Unreadable \notin {None, Basic}
  /\ ClaimSets \subseteq [sub: BOOLEAN, roles: SUBSET STRING]

ReadRoles == {"viewer", "editor", "maintainer", "detective"}
WriteRoles == {"editor", "maintainer"}
DeleteRoles == {"maintainer"}
AuditRoles == {"security", "detective"}

Routes ==
  {"list", "list_v1", "create", "create_v1", "delete", "stats", "audit",
   "form", "save_form", "manifest", "health", "resource", "security_txt", "mock_token"}

IsPage(route) == route \in {"form", "save_form"}
IsV1(route) == route \in {"list_v1", "create_v1"}
Limited(route) == route \in {"create", "create_v1", "delete", "save_form"}
NeedsSubject(route) == Limited(route) \/ route = "audit"

RolesOf(route) ==
  CASE route \in {"list", "list_v1", "stats", "form"} -> ReadRoles
    [] route \in {"create", "create_v1", "save_form"} -> WriteRoles
    [] route = "delete" -> DeleteRoles
    [] route = "audit" -> AuditRoles

(* What else may go wrong in a handler, as the AppError it becomes; the    *)
(* rate limiter comes before the roles, a payload before the subject.      *)
Faults ==
  {"Ok", "TooManyRequests", "UnprocessableEntity", "NotFound", "PreconditionFailed",
   "ServiceUnavailable", "Internal"}

-----------------------------------------------------------------------------
(* problem_details.rs                                                      *)

Statuses ==
  [Ok |-> 200, NotFound |-> 404, Unauthorized |-> 401, InvalidToken |-> 401,
   Forbidden |-> 403, UnprocessableEntity |-> 422, PreconditionFailed |-> 412,
   ServiceUnavailable |-> 503, TooManyRequests |-> 429, Internal |-> 500]

Response(status, headers) == [status |-> status, headers |-> headers, rejected |-> FALSE, lists |-> {}]

(* IntoResponse of AppError: the challenge of a 401 and, behind it, the    *)
(* extension that tells the layer of a rejected token.                     *)
IntoResponse(error) ==
  [Response(Statuses[error],
      {"problem"} \cup
      CASE error = "InvalidToken" -> {"Bearer", "invalid_token"}
        [] error = "Unauthorized" -> {"Bearer"}
        [] OTHER -> {})
   EXCEPT !.rejected = (error = "InvalidToken")]

(* Variant of AddResourceMetadata: the challenge is replaced by one that   *)
(* gives no reason.                                                        *)
AddMetadataOnly(response) ==
  IF response.status = 401
    THEN [response EXCEPT !.headers = (@ \ {"invalid_token"}) \cup {"Bearer", "resource_metadata"}]
    ELSE response

AddResourceMetadata(response) ==
  IF response.status = 401
    THEN [response EXCEPT !.headers =
           (@ \ {"invalid_token"}) \cup {"Bearer", "resource_metadata"}
              \cup (IF response.rejected THEN {"invalid_token"} ELSE {})]
    ELSE response

SecurityHeaders(response) == [response EXCEPT !.headers = @ \cup {"security"}]

(* From<CrudError>: a variant it does not know is the server's own fault.  *)
FromCrudError(error) == IF error \in DOMAIN Statuses THEN error ELSE "Internal"

-----------------------------------------------------------------------------
(* The extractors.                                                         *)

Bearer(header) == IF header \in {None, Basic} THEN None ELSE header

(* A page takes its token from ?token= where the header has none.          *)
TokenOf(call) ==
  IF IsPage(call.route) /\ Bearer(call.header) = None THEN call.query ELSE Bearer(call.header)

(* decode_bearer_token.  Mock mode believes what it can read; elsewhere    *)
(* the issuer's keys decide.                                               *)
Decoded(call, status) ==
  CASE TokenOf(call) = Unreadable -> "InvalidToken"
    [] TokenOf(call) # Unreadable /\ (call.mock \/ status = "accepted") -> "Ok"
    [] TokenOf(call) # Unreadable /\ ~call.mock /\ status = "401" -> "InvalidToken"
    [] TokenOf(call) # Unreadable /\ ~call.mock /\ status = "503" -> "ServiceUnavailable"

(* require_any_role                                                        *)
HasRole(claims, roles) == claims.roles \cap roles # {}

(* The checks of a handler, in their order.                                *)
Checks(call) ==
  << IF Limited(call.route) /\ call.fault = "TooManyRequests" THEN call.fault ELSE "Ok",
     IF HasRole(call.claims, RolesOf(call.route)) THEN "Ok" ELSE "Forbidden",
     IF call.fault = "UnprocessableEntity" THEN call.fault ELSE "Ok",
     IF NeedsSubject(call.route) /\ ~call.claims.sub THEN "Unauthorized" ELSE "Ok",
     IF call.fault \notin {"TooManyRequests", "UnprocessableEntity"} THEN call.fault ELSE "Ok" >>

(* v1 adds Sunset to what it answers itself, and to no error.              *)
WithSunset(response) ==
  [response EXCEPT !.headers = @ \cup {"Sunset", "Deprecation", "Link"}]

Handle(call) ==
  LET checks == Checks(call)
      failed == {i \in 1..5 : checks[i] # "Ok"}
      first == CHOOSE i \in failed : \A j \in failed : i <= j
  IN  CASE failed # {} -> IntoResponse(FromCrudError(checks[first]))
        [] failed = {} /\ IsV1(call.route) -> WithSunset(Response(200, {}))
        [] OTHER -> Response(200, {})

(* AuthClaims                                                              *)
Api(call, status) ==
  CASE TokenOf(call) = None -> IntoResponse("Unauthorized")
    [] TokenOf(call) # None /\ Decoded(call, status) = "Ok" -> Handle(call)
    [] TokenOf(call) # None /\ Decoded(call, status) # "Ok" ->
         IntoResponse(Decoded(call, status))

(* A page that asks for a token.                                           *)
BootstrapPage(status) == Response(status, {"page"})

(* WebAuthClaims: no token or one that failed, whatever was wrong with it. *)
Page(call, status) ==
  CASE TokenOf(call) = None -> BootstrapPage(200)
    [] TokenOf(call) # None /\ Decoded(call, status) = "Ok" -> Handle(call)
    [] TokenOf(call) # None /\ Decoded(call, status) # "Ok" -> BootstrapPage(401)

(* Variant of Access: read and write are mistaken for one another.         *)
AccessSwapped(version) == [read |-> WriteRoles, write |-> ReadRoles, delete |-> DeleteRoles]

(* hero_descriptor: who may read the two versions it announces.            *)
Access(version) == [read |-> ReadRoles, write |-> WriteRoles, delete |-> DeleteRoles]

(* hero_descriptor: aggregates and forecasts belong to v2.                 *)
Features(version) == IF version = "v2" THEN {"stats", "predict"} ELSE {}

Listing(roles) ==
  [Response(200, {}) EXCEPT !.lists = {v \in {"v1", "v2"} : roles \cap Access(v).read # {}}]

(* Variant of Manifest: every failure makes the caller anonymous.          *)
ManifestOrAnonymous(call, status) ==
  IF TokenOf(call) # None /\ Decoded(call, status) = "Ok" THEN Listing(call.claims.roles)
  ELSE Listing({})

(* ManifestCallers: no token, or a rejected one, is an anonymous caller;   *)
(* an issuer that cannot be asked is an error.                             *)
Manifest(call, status) ==
  LET decoded == IF TokenOf(call) = None THEN "InvalidToken" ELSE Decoded(call, status)
  IN  CASE decoded = "Ok" -> Listing(call.claims.roles)
        [] decoded = "ServiceUnavailable" -> IntoResponse(FromCrudError(decoded))
        [] decoded = "InvalidToken" -> Listing({})

(* The documents under /.well-known; security.txt has a route only if a    *)
(* contact is configured.                                                  *)
Document(call) ==
  IF call.route = "security_txt" /\ ~call.contact THEN Response(404, {})
  ELSE Response(200, {"public"})

(* mint_token: the rate limit is all that stands before it, in mock mode.  *)
MintToken(call) ==
  CASE ~call.mock -> Response(404, {})
    [] call.mock /\ call.fault \in {"TooManyRequests", "Internal"} ->
         IntoResponse(FromCrudError(call.fault))
    [] OTHER -> Response(200, {})

(* build_router: which extractor a route has, and the layers around all.   *)
Respond(call, status) ==
  SecurityHeaders(AddResourceMetadata(
    CASE call.route = "health" -> Response(200, {})
      [] call.route \in {"resource", "security_txt"} -> Document(call)
      [] call.route = "mock_token" -> MintToken(call)
      [] call.route = "manifest" -> Manifest(call, status)
      [] IsPage(call.route) -> Page(call, status)
      [] call.route = "stats_v1" -> Response(404, {})
      [] OTHER -> Api(call, status)))

-----------------------------------------------------------------------------
(* Properties.  They are about every call that a token may come with while *)
(* the verifier says of it what it has just said.                          *)

Calls ==
  {[route |-> route, header |-> c.header, query |-> c.query, claims |-> claims,
    fault |-> fault, mock |-> mock, contact |-> contact] :
     route \in Routes, c \in Credentials, claims \in ClaimSets, fault \in Faults,
     mock \in BOOLEAN, contact \in BOOLEAN}

(* What the verifier says.                                                 *)
Said == {"accepted", "401", "503"}

(* What each call is answered.                                             *)
Answered ==
  [status \in Said |-> {[call |-> call, answer |-> Respond(call, status)] : call \in Calls}]

HasToken(call) == TokenOf(call) # None

(* How an answer explains itself.                                          *)
Explains(call, answer, status) ==
  LET says == answer.headers \cap {"Bearer", "resource_metadata", "invalid_token"}
      decoded == Decoded(call, status)
  IN  /\ "resource_metadata" \in says =>
           Respond([call EXCEPT !.route = "resource"], status).headers = {"public", "security"}
      /\ answer.status # 401 => says = {}
      /\ answer.status = 401 /\ "page" \in answer.headers =>
           /\ HasToken(call) /\ decoded # "Ok"
           /\ says = {"Bearer", "resource_metadata"}
      /\ answer.status = 401 /\ "page" \notin answer.headers =>
           /\ {"Bearer", "resource_metadata"} \subseteq says
           /\ "invalid_token" \in says <=> HasToken(call) /\ decoded = "InvalidToken"
           /\ HasToken(call) /\ decoded = "Ok" => ~call.claims.sub

Explained == [status \in Said |-> \A a \in Answered[status] : Explains(a.call, a.answer, status)]

(* A 401 tells its reason and where to learn more, and nothing else does:  *)
(* no token, a rejected one or one without a subject.  The document it     *)
(* points at is served to the same caller, who has no token yet, and bears *)
(* no challenge of its own.  A page is the exception: its header has no    *)
(* reason, and it tells of a rejection where the issuer was down.          *)
ChallengesSayWhy == verdict # <<>> => Explained[verdict[2]]

(* How a good token is served.                                             *)
Serves(call, answer, status) ==
  CASE call.route \in {"health", "resource"} -> answer.status = 200
    [] call.route = "security_txt" -> answer.status = IF call.contact THEN 200 ELSE 404
    [] call.route = "mock_token" -> answer.status = 404
    [] call.route = "manifest" ->
         \/ status = "503" /\ answer.status = 503
         \/ answer.lists = Listing(call.claims.roles).lists
    [] OTHER ->
         \/ status = "503" /\ answer.status = (IF IsPage(call.route) THEN 401 ELSE 503)
         \/ status = "accepted" /\ answer.status = Handle(call).status

Served ==
  [status \in Said |->
    \A a \in Answered[status] :
      TokenOf(a.call) = Presented /\ ~a.call.mock => Serves(a.call, a.answer, status)]

(* A good token whose key the issuer has published long enough is served   *)
(* on every route, or its caller is told of the outage: it is never taken  *)
(* for a bad token, nor its caller for an anonymous one.  A page says 401  *)
(* for an outage.                                                          *)
GoodTokensAreServed ==
  verdict # <<>> =>
    LET token == verdict[1]
    IN  token.good /\ token.kid \in published /\ since[token.kid] = Ttl + Latency =>
          Served[verdict[2]]

(* The answer to the same request on another route.                        *)
Read(call, route, status) ==
  Respond([call EXCEPT !.route = route, !.fault = "Ok"], status).status

(* What the manifest lists and what the same request may read.             *)
ListsReadable(call, answer, status) ==
  LET readable == {v \in {"v1", "v2"} :
        Read(call, IF v = "v1" THEN "list_v1" ELSE "list", status) = 200}
  IN  /\ answer.status = 200 => answer.lists = readable
      /\ answer.status # 200 => readable = {} /\ answer.status = Read(call, "list", status)
      /\ \A v \in answer.lists :
           "stats" \in Features(v) <=>
             Read(call, IF v = "v1" THEN "stats_v1" ELSE "stats", status) = 200

Listed ==
  [status \in Said |->
    \A a \in Answered[status] :
      a.call.route = "manifest" => ListsReadable(a.call, a.answer, status)]

(* The manifest lists the versions whose records the same request could    *)
(* read, no more and no fewer, with the aggregates it could ask for, and   *)
(* fails where the read would fail for want of the issuer.                 *)
ManifestListsWhatMayBeRead == verdict # <<>> => Listed[verdict[2]]
=============================================================================
