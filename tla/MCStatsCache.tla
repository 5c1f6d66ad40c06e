----------------------------- MODULE MCStatsCache ----------------------------
(***************************************************************************)
(* Instances of StatsCache for TLC: two replicas of two versions (a canary *)
(* release) for the invalidation tasks, one replica for the counts and for *)
(* liveness.                                                               *)
(***************************************************************************)
EXTENDS StatsCache, TLC

(* Each replica runs a version of its own, named after it.                 *)
MCVersion == [p \in Replicas |-> p]

MCSymmetry == Permutations(Replicas)
=============================================================================
