------------------------------ MODULE HeroQueries -----------------------------
(***************************************************************************)
(* Listing the Hero table: the filters, the archive scopes, the sort and   *)
(* the pages, as the SeaORM repository hands them to Postgres and as the   *)
(* repository of mock mode computes them over its map.                     *)
(*                                                                         *)
(* Integers of a request are 64 bits wide and those of a column 32; here a *)
(* column holds -Half..Half-1.  Text is a sequence over {a, A, %, _}.      *)
(***************************************************************************)
EXTENDS Integers, SequencesExt

CONSTANTS
  Tables,      (* the tables a client may find                             *)
  Clauses,     (* the filter clauses it may send                           *)
  Sorts,       (* the sort orders                                          *)
  Pages,       (* skip and limit                                           *)
  Null,        (* SQL's NULL, Rust's None                                  *)
  Half         (* 2^31 of the code                                         *)

(* LIKE's wildcards.                                                       *)
AnyText == "%"
AnyChar == "_"
Wildcards == {AnyText, AnyChar}

Text == Seq({"a", "A"} \cup Wildcards)

(* A row: powers, owner and the two other dates play no part.              *)
Row ==
  [id: Nat, level: {Null} \cup (-Half..Half - 1), name: {Null} \cup Text,
   live: BOOLEAN]

(* An id is one row's, and NULL is no value.                               *)
ASSUME HeroQueriesAssumption ==
  /\ Half \in Nat \ {0} /\ Null \notin Int /\ Null \notin Text
  /\ \A T \in Tables :
       /\ T \subseteq Row /\ IsFiniteSet(T)
       /\ \A g, h \in T : g.id = h.id => g = h

(* Only text contains text; an order of text is the database's collation   *)
(* and not modelled.                                                       *)
ASSUME RequestsAssumption ==
  /\ \A c \in Clauses : c.op \in {"contains", "icontains"} =>
                        c.field = "name" /\ c.value \in Text
  /\ Sorts \subseteq Seq([field: {"id", "power_level"}, descending: BOOLEAN])
  /\ Pages \subseteq [skip: Nat, limit: Nat]

VARIABLES
  heroes,      (* the rows, by id                                          *)
  filters,     (* the clauses of the list request, all to hold             *)
  scope,       (* include_archived and only_archived                       *)
  sort,        (* fields in order of priority, each with its direction     *)
  page         (* skip and limit                                           *)

vars == <<heroes, filters, scope, sort, page>>

Scopes == {"live", "all", "archived"}

Init ==
  /\ heroes \in Tables
  /\ filters = {} /\ scope = "live" /\ sort = <<>> /\ page \in Pages

(* A client asks again, changing one part of its request.                  *)
Filter ==
  /\ filters' \in {{c, d} : c, d \in Clauses}
  /\ UNCHANGED <<heroes, scope, sort, page>>

Scope == scope' \in Scopes /\ UNCHANGED <<heroes, filters, sort, page>>

Sort == sort' \in Sorts /\ UNCHANGED <<heroes, filters, scope, page>>

Next == Filter \/ Scope \/ Sort

Spec == Init /\ [][Next]_vars

-----------------------------------------------------------------------------
(* Text.                                                                   *)

Lower(t) == [i \in DOMAIN t |-> IF t[i] = "A" THEN "a" ELSE t[i]]

Stripped(t) ==
  FlattenSeq([i \in DOMAIN t |-> IF t[i] \in Wildcards THEN <<>> ELSE <<t[i]>>])

(* Whether part occurs in t as it stands.                                  *)
IsSubstring(part, t) ==
  \E i \in 0..Len(t) - Len(part) : \A j \in DOMAIN part : t[i + j] = part[j]

(* SQL's LIKE: % stands for any text, _ for any character.  fits[j] are    *)
(* the lengths of the beginnings of t that the first j of pattern stand    *)
(* for.                                                                    *)
Like(t, pattern) ==
  LET fits[j \in 0..Len(pattern)] ==
        IF j = 0 THEN {0}
        ELSE {i \in 0..Len(t) :
                IF pattern[j] = AnyText THEN \E k \in fits[j - 1] : k <= i
                ELSE i - 1 \in fits[j - 1] /\ pattern[j] \in {AnyChar, t[i]}}
  IN Len(t) \in fits[Len(pattern)]

-----------------------------------------------------------------------------
(* Which rows.                                                             *)

FieldOf(h, field) ==
  CASE field = "id" -> h.id
    [] field = "power_level" -> h.level
    [] field = "name" -> h.name

(* The values a clause compares with: the items of `in`, or its one value. *)
Operands(c) == IF c.op = "in" THEN c.value ELSE {c.value}

Compares(v, op, operands) ==
  \E x \in operands :
    CASE op \in {"eq", "in"} -> v = x [] op = "gte" -> v >= x [] op = "lte" -> v <= x

(* matches_one of mock mode: the numbers as they were parsed, and text     *)
(* without wildcards.  A field that is None matches nothing.               *)
MatchesOne(h, c) ==
  LET v == FieldOf(h, c.field) IN
  /\ v # Null
  /\ CASE c.op = "contains" -> IsSubstring(c.value, v)
       [] c.op = "icontains" -> IsSubstring(Lower(c.value), Lower(v))
       [] OTHER -> Compares(v, c.op, Operands(c))

(* `*v as i32`                                                             *)
AsColumn(v) == ((v + Half) % (2 * Half)) - Half

Scalar(field, v) == IF field = "name" THEN v ELSE AsColumn(v)

(* Variant of Pattern: icontains does not lower its text.                  *)
PatternKeepingCase(c) ==
  <<AnyText>> \o (IF c.op = "contains" THEN c.value ELSE Stripped(c.value)) \o <<AnyText>>

(* contains leaves wildcards in, icontains drops them.                     *)
Pattern(c) ==
  <<AnyText>> \o (IF c.op = "contains" THEN c.value ELSE Stripped(Lower(c.value)))
  \o <<AnyText>>

(* condition_for, where SQL's comparison with NULL is not true.            *)
ConditionFor(h, c) ==
  LET v == FieldOf(h, c.field) IN
  /\ v # Null
  /\ CASE c.op = "contains" -> Like(v, Pattern(c))
       [] c.op = "icontains" -> Like(Lower(v), Pattern(c))
       [] OTHER -> Compares(v, c.op, {Scalar(c.field, x) : x \in Operands(c)})

(* archive_scope, and visible of mock mode.                                *)
InScope(h) ==
  CASE scope = "archived" -> ~h.live [] scope = "all" -> TRUE [] scope = "live" -> h.live

SqlRows == {h \in heroes : InScope(h) /\ \A c \in filters : ConditionFor(h, c)}

MemoryRows == {h \in heroes : InScope(h) /\ \A c \in filters : MatchesOne(h, c)}

-----------------------------------------------------------------------------
(* In which order, and which page.                                         *)

(* The sequences of all of S in which nothing is behind what R, a set of   *)
(* pairs, puts after it.                                                   *)
Arrangements(S, R) ==
  {s \in SetToSeqs(S) : \A i, j \in DOMAIN s : i < j => <<s[j], s[i]>> \notin R}

Arranged(S, R) == CHOOSE s \in Arrangements(S, R) : TRUE

(* skip and then take, OFFSET and LIMIT.                                   *)
PageOf(rows) ==
  SubSeq(rows, page.skip + 1, Min({page.skip + page.limit, Len(rows)}))

ById == <<[field |-> "id", descending |-> FALSE]>>

(* Variant of SortOrById: no order without a sort.                         *)
SortAsSent == sort

(* No sort parameter: by id.                                               *)
SortOrById == IF sort = <<>> THEN ById ELSE sort

(* Postgres puts NULL after every value, and with DESC before.             *)
SqlRank(v) == IF v = Null THEN Half ELSE v

(* ORDER BY: the first key that tells the two rows apart.                  *)
SqlBefore(g, h) ==
  \E k \in DOMAIN SortOrById :
    LET rank(x, j) == SqlRank(FieldOf(x, SortOrById[j].field)) IN
    /\ IF SortOrById[k].descending THEN rank(g, k) > rank(h, k)
       ELSE rank(g, k) < rank(h, k)
    /\ \A j \in 1..k - 1 : rank(g, j) = rank(h, j)

(* Every result Postgres may give: rows that tie come in any order.        *)
SqlLists ==
  LET R == {p \in SqlRows \X SqlRows : SqlBefore(p[1], p[2])}
  IN {PageOf(rows) : rows \in Arrangements(SqlRows, R)}

(* Option's order: None before every value.                                *)
MemoryRank(v) == IF v = Null THEN -Half - 1 ELSE v

(* One stable pass over one key.                                           *)
StablySorted(rows, key) ==
  LET rank(i) == MemoryRank(FieldOf(rows[i], key.field))
      before(i, j) == \/ IF key.descending THEN rank(i) > rank(j) ELSE rank(i) < rank(j)
                      \/ rank(i) = rank(j) /\ i < j
      places == DOMAIN rows
      order == Arranged(places, {p \in places \X places : before(p[1], p[2])})
  IN [i \in DOMAIN rows |-> rows[order[i]]]

(* One pass after the other.                                               *)
Passes(rows, keys) ==
  LET sorted[k \in 0..Len(keys)] ==
        IF k = 0 THEN rows ELSE StablySorted(sorted[k - 1], keys[k])
  IN sorted[Len(keys)]

(* Variant of ApplySort: the passes run from the first key.                *)
ApplySortForwards(rows) == Passes(rows, SortOrById)

(* The passes run from the last key to the first, which settles last.      *)
ApplySort(rows) == Passes(rows, Reverse(SortOrById))

(* The map holds its rows by id.                                           *)
MemoryList ==
  LET R == {p \in MemoryRows \X MemoryRows : p[1].id < p[2].id}
  IN PageOf(ApplySort(Arranged(MemoryRows, R)))

-----------------------------------------------------------------------------
(* Properties.                                                             *)

InRange(c) == c.field = "name" \/ \A x \in Operands(c) : x = AsColumn(x)

Plain(c) ==
  c.field # "name" \/ \A x \in Operands(c) : \A i \in DOMAIN x : x[i] \notin Wildcards

(* Mock mode filters as Postgres does: the two repositories interpret one  *)
(* clause separately, and agree as long as its numbers fit the column and  *)
(* its text holds no wildcard of LIKE.                                     *)
RepositoriesFilterAlike ==
  (\A c \in filters : InRange(c) /\ Plain(c)) => SqlRows = MemoryRows

(* Mock mode returns a page Postgres might return, where no sort key is    *)
(* NULL: reversed stable passes are ORDER BY.                              *)
PagesAlike ==
  (/\ \A c \in filters : InRange(c) /\ Plain(c)
   /\ \A h \in MemoryRows, k \in DOMAIN sort : FieldOf(h, sort[k].field) # Null)
  => MemoryList \in SqlLists

(* Pages of a list fit together only if Postgres has no choice of order:   *)
(* it has none without a sort, or with one that reaches the id.            *)
OrderByIdIsTotal ==
  sort = <<>> \/ (\E k \in DOMAIN sort : sort[k].field = "id")
    => Cardinality(SqlLists) = 1

(* FR-0025: field=value returns only records whose field equals the value. *)
EqualityReturnsOnlyEquals ==
  \A h \in SqlRows : \A c \in filters :
    c.op = "eq" => FieldOf(h, c.field) = c.value
=============================================================================
