----------------------------- MODULE MCRateLimit ------------------------------
(***************************************************************************)
(* Instances of RateLimit for TLC: two addresses of one scope.             *)
(***************************************************************************)
EXTENDS RateLimit

MCCallers == {[scope |-> "hero-write", ip |-> 1], [scope |-> "hero-write", ip |-> 2]}

MCLimit == [c \in Callers |-> c.ip]
=============================================================================
