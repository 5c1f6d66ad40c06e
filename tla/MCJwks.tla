-------------------------------- MODULE MCJwks --------------------------------
(***************************************************************************)
(* Instances of Jwks and Answers for TLC.                                  *)
(***************************************************************************)
EXTENDS Answers

MCCredentials ==
  {[header |-> Presented, query |-> None], [header |-> None, query |-> Presented],
   [header |-> Basic, query |-> Presented], [header |-> Unreadable, query |-> Presented],
   [header |-> None, query |-> None]}

MCClaimSets ==
  {[sub |-> TRUE, roles |-> {}], [sub |-> TRUE, roles |-> {"viewer"}],
   [sub |-> TRUE, roles |-> {"editor", "security"}], [sub |-> FALSE, roles |-> {"detective"}],
   [sub |-> FALSE, roles |-> {"maintainer"}]}
=============================================================================
