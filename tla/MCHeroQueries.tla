---------------------------- MODULE MCHeroQueries -----------------------------
(***************************************************************************)
(* Instances of HeroQueries and HeroStats for TLC: tables of three rows    *)
(* with ties, NULLs and an archived row, clauses at the edges of the       *)
(* column's range, and a history over two kinds of buckets.                *)
(***************************************************************************)
EXTENDS HeroStats

Hero(i, level, name, live) == [id |-> i, level |-> level, name |-> name, live |-> live]

MCTables ==
  {{Hero(1, 1, <<"a">>, TRUE), Hero(2, 1, <<"A", "a">>, TRUE), Hero(3, 0, <<"%">>, FALSE)},
   {Hero(1, Half - 1, <<"A", "%">>, TRUE), Hero(2, Null, Null, TRUE), Hero(3, -Half, <<"_">>, TRUE)}}

MCCreatedIn == [day |-> <<3, 1, 2>>, week |-> <<2, 1, 2>>]

MCBuckets == {Null, "day", "week", "fortnight"}

MCRequests ==
  [kind: {"stats"}, scope: Scopes, bucket: MCBuckets]
  \cup [kind: {"predict"}, bucket: MCBuckets, field: {Null, "id", "power_level", "name"},
        periods: {Null, 0, 2, 4, 52, 53}]

Numeric(op, v) == [field |-> "power_level", op |-> op, value |-> v]

Textual(op, t) == [field |-> "name", op |-> op, value |-> t]

MCClauses ==
  {Numeric(op, v) : op \in {"eq", "gte", "lte"}, v \in {-Half, 1, Half - 1, Half, 2 * Half + 1}}
  \cup {Numeric("in", {1, -Half})}
  \cup {Textual(op, t) : op \in {"eq", "contains", "icontains"},
           t \in {<<"a">>, <<"A">>, <<"%">>, <<"_", "a">>}}

Key(field, descending) == [field |-> field, descending |-> descending]

MCSorts ==
  {<<>>} \cup {<<Key("id", d)>> : d \in BOOLEAN}
  \cup {<<Key("power_level", d)>> : d \in BOOLEAN}
  \cup {<<Key("power_level", d), Key("id", TRUE)>> : d \in BOOLEAN}

MCPages == {[skip |-> s, limit |-> 2] : s \in {0, 1}}
=============================================================================
