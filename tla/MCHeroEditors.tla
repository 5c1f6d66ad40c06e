---------------------------- MODULE MCHeroEditors ------------------------------
(***************************************************************************)
(* Instances of HeroEditors for TLC: a person with the page open and a     *)
(* client of the routes with the same person's token or another one.       *)
(***************************************************************************)
EXTENDS HeroEditors

CONSTANTS alice, bob, t1, t2

MCTokens == (t1 :> {alice}) @@ (t2 :> {alice, bob})

MCTyped ==
  [name |-> {<<"a">>}, powers |-> {<<"a", " b", "">>, <<" ">>},
   level |-> {Blank, Half - 1, Half, Exponent}]

MCBodies ==
  {Contents(<<"b">>, <<<<"a", "b">>, <<" b">>>>, 1), Contents(<<" ">>, <<<<" ">>>>, Null),
   Contents(Null, Null, 2), Contents(<<"b">>, <<<<"a">>>>, -Half - 1),
   Contents(<<"long">>, <<>>, Null), Contents(<<"">>, Null, Null)}

MCOldBodies ==
  {[name |-> <<"b">>, superpower |-> <<"a", "">>, level |-> Null],
   [name |-> Null, superpower |-> <<"b">>, level |-> Null],
   [name |-> <<"b">>, superpower |-> <<"b">>, level |-> Half],
   [name |-> <<"b">>, superpower |-> <<"long">>, level |-> -Half]}

MCFilters == {{1, 2}}
=============================================================================
