------------------------------ MODULE HeroStore ------------------------------
(***************************************************************************)
(* What the Hero resource promises, whatever the interleaving of the       *)
(* requests that write it: a record is created once under a fresh id,      *)
(* changed and archived only by its owner, never touched again once it is  *)
(* archived, and announced on the event bus only after the change.         *)
(* HeroWrites is shown to implement this module.                           *)
(***************************************************************************)
EXTENDS Naturals

CONSTANTS
  MaxId,       (* the largest primary key of the instance                  *)
  Subjects,    (* `sub` claims of the callers                              *)
  Values,      (* values of the one filterable, writable field             *)
  Absent       (* what the table holds under an id that has no record      *)

Ids == 1..MaxId

(* One row of `heroes`; `live` stands for archived_at IS NULL.             *)
Row == [owner: Subjects, value: Values, updated: Nat, live: BOOLEAN]

VARIABLES
  heroes,      (* the table: a row or Absent under each id                 *)
  announced    (* set of <<action, id>> pairs the bus has carried          *)

vars == <<heroes, announced>>

Exists(i) == heroes[i] # Absent

OwnedLive(i, sub) == Exists(i) /\ heroes[i].live /\ heroes[i].owner = sub

Init ==
  /\ heroes \in [Ids -> {Absent} \cup Row]
  /\ announced = {}

(* A new record appears, live, under an id that had none.                  *)
Create(i) ==
  /\ ~Exists(i)
  /\ heroes'[i] \in Row
  /\ heroes'[i].live
  /\ heroes' = [heroes EXCEPT ![i] = heroes'[i]]
  /\ UNCHANGED announced

(* One caller's live records change together.  The owner never changes     *)
(* and the version stamp of each record always does.                       *)
Change(S, sub) ==
  /\ \A i \in S : OwnedLive(i, sub)
  /\ heroes' \in [Ids -> {Absent} \cup Row]
  /\ \A i \in Ids \ S : heroes'[i] = heroes[i]
  /\ \A i \in S :
       /\ heroes'[i] # Absent
       /\ heroes'[i].owner = sub
       /\ heroes'[i].updated # heroes[i].updated
  /\ UNCHANGED announced

(* An announcement names records that exist; a delete names archived ones. *)
Announce(action, S) ==
  /\ \A i \in S : Exists(i) /\ (action = "delete" => ~heroes[i].live)
  /\ announced' = announced \cup {<<action, i>> : i \in S}
  /\ UNCHANGED heroes

Next ==
  \/ \E i \in Ids : Create(i)
  \/ \E S \in SUBSET Ids, sub \in Subjects : Change(S, sub)
  \/ \E S \in SUBSET Ids, action \in {"create", "update", "delete"} :
       Announce(action, S)

Spec == Init /\ [][Next]_vars
=============================================================================
