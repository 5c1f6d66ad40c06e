------------------------------ MODULE HeroWrites -----------------------------
(***************************************************************************)
(* The write handlers of the five Hero routers (JSON and XML, each in v1   *)
(* and v2, and the web form), running concurrently over one `heroes`       *)
(* table.                                                                  *)
(*                                                                         *)
(* Every `.await` of a handler is a step boundary, so statements of other  *)
(* requests run in between, and a place where the handler's future may be  *)
(* dropped: the client went away or the process stopped.  The handlers     *)
(* share one shape (rate limit, role, validation, If-Match read, count for *)
(* a bulk, one writing statement, event, response).  v1 and v2 differ only *)
(* in the representation they convert, so a router here is json, xml or    *)
(* web.                                                                    *)
(***************************************************************************)
EXTENDS Naturals, Sequences, FiniteSets

CONSTANTS
  Slots,       (* requests in flight; each slot carries one request        *)
  MaxId,       (* the largest primary key of the instance                  *)
  Subjects,    (* `sub` claims of the callers                              *)
  Values,      (* values of the one filterable, writable field             *)
  Absent,      (* what the table holds under an id that has no record      *)
  NoFilter,    (* a request without any filter parameter                   *)
  NoRequest,   (* what an idle slot carries                                *)
  Unset,       (* a payload that leaves the field alone                    *)
  Past,        (* the writer of the records the table starts with          *)
  MaxMatched,  (* Settings::bulk_action_max_matched                        *)
  Tables,      (* the tables a run may start from                          *)
  Inputs       (* the requests a client may send                           *)

Ids == 1..MaxId
NoId == 0      (* a request without `?id=`                                 *)

Row == [owner: Subjects, value: Values, updated: Nat, live: BOOLEAN]

Verbs == {"create", "update", "delete"}

(* An If-Match header: none, `*`, a weak tag, or the strong tag of the     *)
(* version stamped `at`.                                                   *)
IfMatch == [kind: {"none", "any", "weak", "strong"}, at: Nat]

(* What is wrong with a request, if anything: the bearer token; the syntax *)
(* of what axum's extractors take (query string, path, JSON or form body); *)
(* the content (XML body, payload validation, filter parsing, an archive   *)
(* flag); or a token without `sub`.                                        *)
Flaws == {"none", "token", "syntax", "content", "subject"}

(* A request, as the handler sees it.                                      *)
Request ==
  [via: {"json", "xml", "web"}, verb: Verbs, sub: Subjects,
   role: {"viewer", "editor", "maintainer", "detective"}, flaw: Flaws,
   id: 0..MaxId, filter: {NoFilter} \cup SUBSET Values,
   value: Values \cup {Unset}, ifMatch: IfMatch, includeArchived: BOOLEAN]

(* A committed write of one record: who wrote it and the stamp it carries. *)
Commit == [by: Slots \cup {Past}, verb: Verbs, at: Nat]

Places == {"idle", "match", "count", "write", "execute", "publish", "orphan",
           "dropped", "done"}

Refusals ==
  {"400", "401", "403", "404", "412", "415", "422", "429", "503"}

Answers == {"none", "ok", "500"} \cup Refusals

ASSUME HeroWritesAssumption ==
  /\ MaxId \in Nat /\ MaxMatched \in Nat
  /\ Absent \notin Row
  /\ Past \notin Slots
  /\ \A f \in SUBSET Values : NoFilter # f
  /\ Unset \notin Values
  /\ NoRequest \notin Request
  /\ Inputs \subseteq Request
  /\ \A q \in Inputs : q.verb = "create" => q.value # Unset
  /\ \A q \in Inputs :   (* the web form addresses records by path only *)
       q.via = "web" => q.filter = NoFilter /\ (q.verb = "create" \/ q.id # NoId)
  /\ Tables \subseteq [Ids -> {Absent} \cup Row]
  /\ \A t \in Tables, i \in Ids : t[i] # Absent => t[i].updated = 0

VARIABLES
  heroes,      (* the table                                                *)
  nextId,      (* the primary key sequence                                 *)
  clock,       (* the wall clock; two readings of it differ                *)
  pc,          (* where each request stands: the await it is at            *)
  req,         (* the request each slot carries                            *)
  stamp,       (* Utc::now() as the slot's statement carries it            *)
  hit,         (* ids the slot's statement returned                        *)
  answer,      (* the response's status class                              *)
  seen,        (* history: 1 + the commits the If-Match read saw; 0 before *)
  log,         (* history: the commits of each record, in order            *)
  events       (* history: what the event bus accepted                     *)

vars == <<heroes, nextId, clock, pc, req, stamp, hit, answer, seen, log, events>>

table == <<heroes, nextId, log>>

TypeOK ==
  /\ heroes \in [Ids -> {Absent} \cup Row]
  /\ nextId \in Nat
  /\ clock \in Nat
  /\ pc \in [Slots -> Places]
  /\ req \in [Slots -> {NoRequest} \cup Inputs]
  /\ stamp \in [Slots -> Nat]
  /\ hit \in [Slots -> SUBSET Ids]
  /\ answer \in [Slots -> Answers]
  /\ seen \in [Slots -> Nat]
  /\ log \in [Ids -> Seq(Commit)]
  /\ events \in SUBSET (Slots \X Verbs \X SUBSET Ids)

-----------------------------------------------------------------------------
(* Deciding what a request may do, without touching the table.             *)

WriteRoles == {"editor", "maintainer"}

DeleteRoles == {"maintainer"}

RolesFor(q) == IF q.verb = "delete" THEN DeleteRoles ELSE WriteRoles

ByFilter(q) == q.verb # "create" /\ q.id = NoId /\ q.filter # NoFilter

(* Addressing the resolve functions refuse: an id together with filters,   *)
(* or neither of them.                                                     *)
BadTarget(q) ==
  /\ q.verb # "create"
  /\ (q.id = NoId) <=> (q.filter = NoFilter)

(* Variant of TagMatches: a weak tag counts.                               *)
WeakTagMatches(q, h) ==
  q.ifMatch.kind = "any" \/ q.ifMatch.at = h.updated

(* check_if_match: `*` matches any record, a strong tag the version it was *)
(* computed from, and a weak tag nothing.                                  *)
TagMatches(q, h) ==
  \/ q.ifMatch.kind = "any"
  \/ q.ifMatch.kind = "strong" /\ q.ifMatch.at = h.updated

(* enforce_if_match returns without reading when there is no id or header; *)
(* the web form never calls it.                                            *)
IsConditional(q) ==
  q.via # "web" /\ q.verb # "create" /\ q.id # NoId /\ q.ifMatch.kind # "none"

Visible(h, includeArchived) == h # Absent /\ (includeArchived \/ h.live)

-----------------------------------------------------------------------------
(* What the one statement of a request does to the table.                  *)

Addressed(q, i) ==
  IF q.id # NoId THEN i = q.id ELSE heroes[i].value \in q.filter

(* Variant of Matched: the owner clause is missing.                        *)
MatchedAnyOwner(q) ==
  {i \in Ids : heroes[i] # Absent /\ heroes[i].live /\ Addressed(q, i)}

(* Variant of Matched: archived rows are still written.                    *)
MatchedArchived(q) ==
  {i \in Ids :
     heroes[i] # Absent /\ heroes[i].owner = q.sub /\ Addressed(q, i)}

(* WHERE id AND owner_id AND archived_at IS NULL, or, for a bulk,          *)
(* archived_at IS NULL AND the filters AND the owner clause.               *)
Matched(q) ==
  {i \in Ids :
     /\ heroes[i] # Absent
     /\ heroes[i].live
     /\ heroes[i].owner = q.sub
     /\ Addressed(q, i)}

(* Variant of Written: a field the payload leaves out is set to it.        *)
WrittenWithNull(h, q, now) == [h EXCEPT !.value = q.value, !.updated = now]

(* Variant of Written: a soft delete keeps the old updated_at.             *)
WrittenUnstamped(h, q, now) ==
  IF q.verb = "delete" THEN [h EXCEPT !.live = FALSE]
  ELSE [h EXCEPT !.value = IF q.value = Unset THEN @ ELSE q.value,
                 !.updated = now]

(* The SET list: only the fields the payload carries, or archived_at, and  *)
(* updated_at in both.                                                     *)
Written(h, q, now) ==
  IF q.verb = "delete"
  THEN [h EXCEPT !.live = FALSE, !.updated = now]
  ELSE [h EXCEPT !.value = IF q.value = Unset THEN @ ELSE q.value,
                 !.updated = now]

Created(q, now) ==
  [owner |-> q.sub, value |-> q.value, updated |-> now, live |-> TRUE]

(* The ids the statement of `q` writes.                                    *)
Targets(q) == IF q.verb = "create" THEN {nextId} ELSE Matched(q)

(* The whole statement, atomically.                                        *)
RunStatement(s) ==
  LET q == req[s]  S == Targets(q) IN
  /\ q.verb = "create" => nextId \in Ids
  /\ heroes' = [i \in Ids |->
                  IF i \notin S THEN heroes[i]
                  ELSE IF q.verb = "create" THEN Created(q, stamp[s])
                  ELSE Written(heroes[i], q, stamp[s])]
  /\ log' = [i \in Ids |->
               IF i \notin S THEN log[i]
               ELSE Append(log[i], [by |-> s, verb |-> q.verb, at |-> stamp[s]])]
  /\ nextId' = IF q.verb = "create" THEN nextId + 1 ELSE nextId

-----------------------------------------------------------------------------
Init ==
  /\ heroes \in Tables
  /\ nextId \in 1..(MaxId + 1)
  /\ \A i \in Ids : (heroes[i] # Absent) <=> (i < nextId)
  /\ clock = 0
  /\ pc = [s \in Slots |-> "idle"]
  /\ req = [s \in Slots |-> NoRequest]
  /\ stamp = [s \in Slots |-> 0]
  /\ hit = [s \in Slots |-> {}]
  /\ answer = [s \in Slots |-> "none"]
  /\ seen = [s \in Slots |-> 0]
  /\ log = [i \in Ids |->
              IF heroes[i] = Absent THEN <<>>
              ELSE <<[by |-> Past, at |-> 0,
                      verb |-> IF heroes[i].live THEN "create" ELSE "delete"]>>]
  /\ events = {}

Goto(s, place) == pc' = [pc EXCEPT ![s] = place]

Respond(s, status) ==
  /\ Goto(s, "done")
  /\ answer' = [answer EXCEPT ![s] = status]

(* Where a request that passed its If-Match goes next: resolve_update and  *)
(* resolve_delete refuse bad addressing, count for a bulk and go straight  *)
(* to the write otherwise.                                                 *)
Resolve(s, q) ==
  IF BadTarget(q) THEN Respond(s, "422")
  ELSE Goto(s, IF ByFilter(q) THEN "count" ELSE "write") /\ UNCHANGED answer

(* The extractors took what they need.                                     *)
Extracted(q) == q.flaw \notin {"token", "syntax"}

Admitted(q) == Extracted(q) /\ q.role \in RolesFor(q)

(* A handler up to its first table access.  The extractors come first: 503 *)
(* when the issuer's keys cannot be fetched.  Then the rate limiter (over  *)
(* the limit, or its backend failed), the role, the content, the subject.  *)
Receive(s, q) ==
  /\ pc[s] = "idle"
  /\ req' = [req EXCEPT ![s] = q]
  /\ \/ Respond(s, "503")
     \/ q.flaw = "token" /\ Respond(s, "401")
     \/ q.flaw = "syntax" /\ \E code \in {"400", "415", "422"} : Respond(s, code)
     \/ Extracted(q) /\ \E code \in {"429", "500"} : Respond(s, code)
     \/ Extracted(q) /\ q.role \notin RolesFor(q) /\ Respond(s, "403")
     \/ Admitted(q) /\ q.flaw = "content" /\ Respond(s, "422")
     \/ Admitted(q) /\ q.flaw = "subject" /\ Respond(s, "401")
     \/ /\ Admitted(q) /\ q.flaw = "none"
        /\ IF IsConditional(q)
           THEN Goto(s, "match") /\ UNCHANGED answer
           ELSE Resolve(s, q)
  /\ UNCHANGED <<table, clock, stamp, hit, seen, events>>

(* enforce_if_match: a read of its own, not scoped to the owner.  A record *)
(* it does not see is left to the write's own 404.                         *)
EnforceIfMatch(s) ==
  LET q == req[s]  h == heroes[q.id] IN
  /\ pc[s] = "match"
  /\ seen' = [seen EXCEPT ![s] = 1 + Len(log[q.id])]
  /\ \/ Respond(s, "500")
     \/ ~Visible(h, q.includeArchived) /\ Resolve(s, q)
     \/ Visible(h, q.includeArchived) /\ TagMatches(q, h) /\ Resolve(s, q)
     \/ Visible(h, q.includeArchived) /\ ~TagMatches(q, h) /\ Respond(s, "412")
  /\ UNCHANGED <<table, clock, req, stamp, hit, events>>

(* The bulk size check: a count of its own before the write.               *)
CountMatched(s) ==
  /\ pc[s] = "count"
  /\ \/ Respond(s, "500")
     \/ Cardinality(Matched(req[s])) > MaxMatched /\ Respond(s, "422")
     \/ /\ Cardinality(Matched(req[s])) <= MaxMatched
        /\ Goto(s, "write") /\ UNCHANGED answer
  /\ UNCHANGED <<table, clock, req, stamp, hit, seen, events>>

(* Utc::now() is read in the application, before the statement is sent.    *)
TakeStamp(s) ==
  /\ pc[s] = "write"
  /\ clock' = clock + 1
  /\ stamp' = [stamp EXCEPT ![s] = clock + 1]
  /\ Goto(s, "execute")
  /\ UNCHANGED <<table, req, hit, answer, seen, events>>

(* Variant of Returned: the ids come from a second read of live rows.      *)
ReselectedLive(S) == {i \in S : heroes'[i].live}

(* RETURNING gives back exactly the rows the statement wrote.              *)
Returned(S) == S

(* Variant of NotFound: decided by reading the row after the write.        *)
ArchivedAfterwards(q, S) ==
  q.id # NoId /\ \A i \in S : ~heroes'[i].live

(* A by-id write that matched no row is a 404.                             *)
NotFound(q, S) == q.id # NoId /\ S = {}

(* The statement runs and its rows come back.                              *)
Execute(s) ==
  LET q == req[s]  S == Targets(q) IN
  /\ pc[s] = "execute"
  /\ RunStatement(s)
  /\ hit' = [hit EXCEPT ![s] = Returned(S)]
  /\ IF NotFound(q, S)
     THEN Respond(s, "404")
     ELSE Goto(s, "publish") /\ UNCHANGED answer
  /\ UNCHANGED <<clock, req, stamp, seen, events>>

(* The database fails the statement, or the connection breaks after the    *)
(* server ran it: a 500 either way.                                        *)
ExecuteFails(s) ==
  /\ pc[s] = "execute"
  /\ Respond(s, "500")
  /\ RunStatement(s) \/ UNCHANGED table
  /\ UNCHANGED <<clock, req, stamp, hit, seen, events>>

(* crud_events::publish: the bus takes the event or loses it, and neither  *)
(* changes the response, which only an XML body can still fail.            *)
Publish(s) ==
  /\ pc[s] = "publish"
  /\ events' \in {events, events \cup {<<s, req[s].verb, hit[s]>>}}
  /\ Respond(s, "ok") \/ (req[s].via = "xml" /\ Respond(s, "500"))
  /\ UNCHANGED <<table, clock, req, stamp, hit, seen>>

(* The handler's future is dropped at an await.  A statement already sent  *)
(* may still run.                                                          *)
Drop(s) ==
  /\ pc[s] \in {"match", "count", "write", "execute", "publish"}
  /\ Goto(s, IF pc[s] = "execute" THEN "orphan" ELSE "dropped")
  /\ UNCHANGED <<table, clock, req, stamp, hit, answer, seen, events>>

OrphanExecute(s) ==
  /\ pc[s] = "orphan"
  /\ RunStatement(s)
  /\ Goto(s, "dropped")
  /\ UNCHANGED <<clock, req, stamp, hit, answer, seen, events>>

Next ==
  \E s \in Slots :
    \/ \E q \in Inputs : Receive(s, q)
    \/ EnforceIfMatch(s)
    \/ CountMatched(s)
    \/ TakeStamp(s)
    \/ Execute(s)
    \/ ExecuteFails(s)
    \/ Publish(s)
    \/ Drop(s)
    \/ OrphanExecute(s)

Spec == Init /\ [][Next]_vars

-----------------------------------------------------------------------------
(* Properties.                                                             *)

CommitsOf(s, i) == {k \in DOMAIN log[i] : log[i][k].by = s}

(* Every record change was made by a request whose role allows its verb,   *)
(* which had no flaw, and whose subject owns the record: no handler        *)
(* writes before its checks, and no bulk filter reaches another's record.  *)
OnlyAuthorisedWrites ==
  \A s \in Slots, i \in Ids :
    CommitsOf(s, i) # {} =>
      /\ req[s].role \in RolesFor(req[s])
      /\ req[s].flaw = "none"
      /\ heroes[i].owner = req[s].sub

(* A refused request, whether refused by an extractor, a check or the      *)
(* statement's own 404, changed nothing.                                   *)
RefusedLeavesNoTrace ==
  \A s \in Slots :
    answer[s] \in Refusals => \A i \in Ids : CommitsOf(s, i) = {}

(* One strong tag names one version of a record: every write, a soft       *)
(* delete and a bulk included, restamps updated_at, and the row carries    *)
(* the stamp of its last commit however the commits were ordered.          *)
TagsIdentifyVersions ==
  \A i \in Ids :
    /\ \A j, k \in DOMAIN log[i] : log[i][j].at = log[i][k].at => j = k
    /\ heroes[i] # Absent => heroes[i].updated = log[i][Len(log[i])].at

(* A write that carried If-Match changed only a record whose version at    *)
(* the check was the one the header names; the one way around the check    *)
(* is a record that did not exist yet when it ran (seen is 1).  So a lost  *)
(* update needs two requests that overlap.                                 *)
ConditionalWriteWasCurrent ==
  \A s \in Slots, i \in Ids :
    \A k \in CommitsOf(s, i) :
      IsConditional(req[s]) /\ seen[s] # 1 =>
        /\ seen[s] \in 2..k
        /\ req[s].ifMatch.kind \in {"any", "strong"}
        /\ req[s].ifMatch.kind = "strong" =>
             log[i][seen[s] - 1].at = req[s].ifMatch.at

(* What the bus carried is what was committed: an event names exactly the  *)
(* records its request's statement changed, under the verb that changed    *)
(* them, and never comes before the change.                                *)
EventsNameCommits ==
  \A e \in events :
    {i \in Ids : \E k \in CommitsOf(e[1], i) : log[i][k].verb = e[2]} = e[3]

(* HeroWrites implements HeroStore.                                        *)
Store == INSTANCE HeroStore WITH
           announced <- UNION {{<<e[2], i>> : i \in e[3]} : e \in events}

ImplementsStore == Store!Spec

(* NFR-0027: a bulk action that would match more than the cap is refused   *)
(* before any row is touched.                                              *)
BulkWithinCap ==
  \A s \in Slots :
    pc[s] # "idle" /\ ByFilter(req[s]) =>
      Cardinality({i \in Ids : CommitsOf(s, i) # {}}) <= MaxMatched

(* ADR 0023: a record the write would answer 404 for also answers 404 at   *)
(* the If-Match check, so a request whose check saw an archived record is  *)
(* never a 412.                                                            *)
ArchivedIsNever412 ==
  \A s \in Slots :
    answer[s] = "412" => log[req[s].id][seen[s] - 1].verb # "delete"
=============================================================================
