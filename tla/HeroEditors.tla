------------------------------ MODULE HeroEditors ------------------------------
(***************************************************************************)
(* People and programs that edit heroes at the same time, over the store   *)
(* of mock mode: tabs of the web form, with and without the page's script, *)
(* and clients of the v1 and v2 routes.  A page is filled in once, when it *)
(* is loaded; what is submitted later is the whole form, whatever has      *)
(* happened to the hero in between.                                        *)
(***************************************************************************)
EXTENDS HeroMemory

CONSTANTS
  Tabs,        (* the threads that serve the page                          *)
  Tokens,      (* Tokens[t]: the subjects whose tokens thread t meets      *)
  Typed,       (* what may be typed: Typed[field] is a set of inputs       *)
  Bodies,      (* what clients of the v2 routes send                       *)
  OldBodies,   (* what clients of the v1 routes send                       *)
  Filters,     (* the power levels bulk writes ask for                     *)
  MaxClock,    (* bound: no call begins after this reading of the clock    *)
  NoPage       (* a thread without an open page                            *)

ASSUME EditorsAssumption ==
  /\ Subjects # {} /\ Tokens \in [Threads -> SUBSET Subjects]
  /\ \A field \in DOMAIN Typed : field \in {"name", "powers", "level"}
  /\ \A field \in DOMAIN Typed : \A input \in Typed[field] :
       [EmptyForm EXCEPT ![field] = input] \in Fields
  /\ \A b \in Bodies : b \in Body
  /\ \A b \in OldBodies : b \in BodyV1
  /\ Filters \subseteq SUBSET Int
  /\ NoPage \notin [id: 0..MaxId, fields: Fields, sent: {"no", "form", "script"}]

VARIABLES
  page,        (* the form a thread has open: the id (0 creates), fields   *)
  wrote        (* history: the submission a record's content stems from    *)

vars == <<store, page, wrote>>

(* How a record was last written, and whether with a blank power_level.    *)
Writings == [via: {"form", "script", "api"}, blank: BOOLEAN]

Unwritten == [via |-> "api", blank |-> FALSE]

TypeOK ==
  /\ MemoryTypeOK
  /\ page \in [Threads -> {NoPage} \cup [id: 0..MaxId, fields: Fields, sent: {"no", "form", "script"}]]
  /\ wrote \in [Ids -> Writings]

Init ==
  /\ MemoryInit
  /\ page = [t \in Threads |-> NoPage]
  /\ wrote = [i \in Ids |-> Unwritten]

Budget == clock <= MaxClock

-----------------------------------------------------------------------------
(* The page lists everybody's live heroes, one form each, and one to       *)
(* create a hero with.                                                     *)
OpenPage(t) ==
  /\ t \in Tabs /\ at[t] = "idle" /\ page[t] = NoPage
  /\ \/ page' = [page EXCEPT ![t] = [id |-> 0, fields |-> EmptyForm, sent |-> "no"]]
     \/ \E i \in Ids :
          /\ Live(i)
          /\ page' = [page EXCEPT ![t] =
               [id |-> i, fields |-> FormOf(records[i].value), sent |-> "no"]]
  /\ UNCHANGED <<store, wrote>>

IsOpen(t) == page[t] # NoPage /\ page[t].sent = "no"

Type(t) ==
  /\ IsOpen(t)
  /\ \E field \in DOMAIN Typed : \E input \in Typed[field] :
       page' = [page EXCEPT ![t].fields[field] = input]
  /\ UNCHANGED <<store, wrote>>

Close(t) ==
  /\ IsOpen(t)
  /\ page' = [page EXCEPT ![t] = NoPage]
  /\ UNCHANGED <<store, wrote>>

Saving(id, who, data) ==
  [kind |-> IF id = 0 THEN "create" ELSE "update", id |-> id, owner |-> who,
   data |-> data, filter |-> {}]

Sent(t, how) == page' = [page EXCEPT ![t].sent = how]

(* A browser submits a form whose required inputs are filled in.  A 422    *)
(* replaces the page; otherwise the form's conversion is what is written.  *)
Required(fields) == fields.name # <<"">> /\ fields.powers # <<"">>

SubmitForm(t) ==
  /\ IsOpen(t) /\ Required(page[t].fields) /\ Budget
  /\ \/ /\ FormAccepted(page[t].fields)
        /\ \E who \in Tokens[t] : Begin(t, Saving(page[t].id, who, FromForm(page[t].fields)))
        /\ Sent(t, "form")
     \/ /\ ~FormAccepted(page[t].fields)
        /\ page' = [page EXCEPT ![t] = NoPage] /\ UNCHANGED store
  /\ UNCHANGED wrote

(* The script sends the same to the v2 JSON route; after a 422 the form    *)
(* stays as it is.                                                         *)
SubmitScript(t) ==
  /\ IsOpen(t) /\ Required(page[t].fields) /\ Budget
  /\ AcceptsCreate(FromScript(page[t].fields))
  /\ \E who \in Tokens[t] : Begin(t, Saving(page[t].id, who, FromScript(page[t].fields)))
  /\ Sent(t, "script")
  /\ UNCHANGED wrote

(* The delete button, or a client's DELETE, by id or by filter.            *)
NoData == Contents(Null, Null, Null)

Delete(t) ==
  /\ at[t] = "idle" /\ page[t] = NoPage /\ Budget
  /\ \E who \in Tokens[t] :
       \/ \E i \in Ids : Begin(t, [Saving(i, who, NoData) EXCEPT !.kind = "delete"])
       \/ \E f \in Filters :
            Begin(t, [Saving(0, who, NoData) EXCEPT !.kind = "delete_many", !.filter = f])
  /\ UNCHANGED <<page, wrote>>

(* A client's POST or PATCH, by id or by filter, of either version.        *)
Data == {b \in Bodies : AcceptsUpdate(b)}
          \cup {UpdateFromV1(b) : b \in {b \in OldBodies : AcceptsUpdateV1(b)}}
NewData == {b \in Bodies : AcceptsCreate(b)}
             \cup {CreateFromV1(b) : b \in {b \in OldBodies : AcceptsCreateV1(b)}}

Send(t) ==
  /\ t \notin Tabs /\ at[t] = "idle" /\ Budget
  /\ \E who \in Tokens[t] :
       \/ \E d \in NewData : Begin(t, Saving(0, who, d))
       \/ \E d \in Data, i \in Ids : Begin(t, Saving(i, who, d))
       \/ \E d \in Data, f \in Filters :
            Begin(t, [Saving(0, who, d) EXCEPT !.kind = "update_many", !.filter = f])
  /\ UNCHANGED <<page, wrote>>

-----------------------------------------------------------------------------
(* The store at work; the history follows what it writes.                  *)
Writing(t) ==
  IF page[t] = NoPage THEN Unwritten
  ELSE [via |-> page[t].sent, blank |-> page[t].fields.level = Blank]

Proceed(t) ==
  /\ Work(t)
  /\ wrote' = [i \in Ids |-> IF records'[i] # records[i] THEN Writing(t) ELSE wrote[i]]
  /\ UNCHANGED page

(* The answer: the page is loaded anew or replaced by the error, but for a *)
(* failure told to the script, which leaves the form as it is.             *)
Answer(t) ==
  /\ Return(t)
  /\ IF page[t] # NoPage /\ page[t].sent = "script" /\ hits[t] = {}
       THEN Sent(t, "no")
       ELSE page' = [page EXCEPT ![t] = NoPage]
  /\ UNCHANGED wrote

Next ==
  \E t \in Threads :
    \/ OpenPage(t) \/ Type(t) \/ Close(t) \/ SubmitForm(t) \/ SubmitScript(t)
    \/ Delete(t) \/ Send(t) \/ Proceed(t) \/ Answer(t)

Spec == Init /\ [][Next]_vars

-----------------------------------------------------------------------------
(* Properties.                                                             *)

Stored == {i \in Ids : Live(i)}

(* A client of any representation may write back what it read: the body is *)
(* accepted and the hero stays as it is, but for the powers after the      *)
(* first, which v1 does not show.                                          *)
EveryViewWritesBack ==
  \A i \in Stored :
    LET hero == records[i].value
        v2 == ReadV2(hero)
        v1 == ReadV1(hero)
        old == ApplyUpdate(hero, UpdateFromV1(FromXml(ToXml(v1), DOMAIN v1)))
    IN  /\ AcceptsUpdate(v2) /\ AcceptsUpdateV1(v1)
        /\ ApplyUpdate(hero, FromXml(ToXml(v2), DOMAIN v2)) = hero
        /\ ReadV1(old) = v1 /\ FirstOf(hero.powers) = old.powers[1]

(* A hero that was saved from the page is shown as it was saved: loading   *)
(* the page and submitting its form untouched is accepted and changes      *)
(* nothing, however commas and blanks had been typed.                      *)
FormSettles ==
  \A i \in Stored :
    wrote[i].via \in {"form", "script"} =>
      LET form == FormOf(records[i].value)
      IN  /\ FormAccepted(form)
          /\ ApplyUpdate(records[i].value, FromForm(form)) = records[i].value

(* With the script and without it a page saves the same, or is refused,    *)
(* a level too large for the column included, except for a level only the  *)
(* script reads as a number.                                               *)
ScriptAgreesWithForm ==
  \A t \in Threads :
    IsOpen(t) /\ page[t].fields.level # Exponent =>
      /\ FromScript(page[t].fields) = FromForm(page[t].fields)
      /\ FormAccepted(page[t].fields) <=> AcceptsCreate(FromScript(page[t].fields))

Scripted == {FromScript(page[t].fields) : t \in {t \in Threads : IsOpen(t)}}

(* The schemas of the manifest are written by hand beside the validators.  *)
(* But for the width of power_level, which they do not announce, they      *)
(* describe what the routes of both versions accept, no more and no less:  *)
(* a body is accepted if and only if it conforms and its level, if any,    *)
(* fits an i32.  What either version shows of a hero conforms.             *)
ManifestDescribesBodies ==
  /\ \A body \in Bodies \cup Scripted :
       /\ AcceptsCreate(body) <=>
            Conforms(body, BodySchema("v2", TRUE)) /\ body.level \in Levels
       /\ AcceptsUpdate(body) <=>
            Conforms(body, BodySchema("v2", FALSE)) /\ body.level \in Levels
  /\ \A body \in OldBodies :
       /\ AcceptsCreateV1(body) <=>
            Conforms(body, BodySchema("v1", TRUE)) /\ body.level \in Levels
       /\ AcceptsUpdateV1(body) <=>
            Conforms(body, BodySchema("v1", FALSE)) /\ body.level \in Levels
  /\ \A i \in Stored :
       /\ Conforms(ReadV2(records[i].value), BodySchema("v2", FALSE))
       /\ Conforms(ReadV1(records[i].value), BodySchema("v1", FALSE))

(* hero_form.rs:10-12: an empty power_level means "no power level".        *)
EmptyLevelClears ==
  \A i \in Stored :
    wrote[i].via = "form" /\ wrote[i].blank => records[i].value.level = Null
=============================================================================
