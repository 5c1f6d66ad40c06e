----------------------------- MODULE MCHeroWrites ----------------------------
(***************************************************************************)
(* Instances of HeroWrites for TLC.  The table starts with one live record *)
(* of alice's and, in one of the two tables, one of bob's or an archived   *)
(* one.  The inputs are the requests that can interfere: each verb, by id  *)
(* and by filter, with and without If-Match.                               *)
(***************************************************************************)
EXTENDS HeroWrites

CONSTANTS alice, bob, low, high, s1, s2

Live(o, v) == [owner |-> o, value |-> v, updated |-> 0, live |-> TRUE]
Gone(o, v) == [Live(o, v) EXCEPT !.live = FALSE]

MCTables ==
  {<<Live(alice, low), Live(bob, low), Absent>>,
   <<Live(alice, low), Gone(alice, low), Absent>>}

NoHeader == [kind |-> "none", at |-> 0]
Strong(t) == [kind |-> "strong", at |-> t]

Base ==
  [via |-> "json", verb |-> "update", sub |-> alice, role |-> "maintainer", flaw |-> "none",
   id |-> NoId, filter |-> NoFilter, value |-> high, ifMatch |-> NoHeader,
   includeArchived |-> FALSE]

ById(v, i, h, arch) ==
  [Base EXCEPT !.verb = v, !.id = i, !.ifMatch = h, !.includeArchived = arch]

Bulk(v, f) == [Base EXCEPT !.verb = v, !.filter = f]

MCInputs ==
  {[Base EXCEPT !.verb = "create", !.value = v] : v \in {low, high}}
  \cup {[Base EXCEPT !.verb = "create", !.sub = bob, !.value = low]}
  \cup {ById(v, 1, h, FALSE) : v \in {"update", "delete"},
          h \in {NoHeader, Strong(0), Strong(1), Strong(2)}}
  \cup {ById("update", i, h, TRUE) : i \in {2, 3},
          h \in {[kind |-> "any", at |-> 0], [kind |-> "weak", at |-> 0],
                 Strong(0), Strong(1)}}
  \cup {[ById("update", 2, NoHeader, FALSE) EXCEPT !.sub = bob, !.value = Unset]}
  \cup {Bulk(v, f) : v \in {"update", "delete"}, f \in {{low}, {low, high}}}
  \cup {[Bulk("delete", {low}) EXCEPT !.role = "editor"],
        [Bulk("delete", {low}) EXCEPT !.id = 1],
        [ById("update", 1, NoHeader, FALSE) EXCEPT !.flaw = "token"],
        [ById("update", 1, NoHeader, FALSE) EXCEPT !.flaw = "syntax"],
        [ById("update", 1, NoHeader, FALSE) EXCEPT !.flaw = "content", !.via = "xml"],
        [ById("update", 1, NoHeader, FALSE) EXCEPT !.flaw = "subject"],
        [ById("delete", 1, NoHeader, FALSE) EXCEPT !.via = "xml"],
        [ById("update", 1, Strong(1), FALSE) EXCEPT !.via = "web"],
        ById("delete", 1, [kind |-> "weak", at |-> 0], FALSE)}
=============================================================================
