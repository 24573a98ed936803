---------------------------- MODULE MCStatsCache ----------------------------
(* Instances of StatsCache: two replicas of two app versions (a canary      *)
(* release) that share one Redis, and a single replica with a longer clock. *)
EXTENDS StatsCache

CONSTANTS r1, r2, old, new

TwoReplicas == {r1, r2}
Canary == [r \in TwoReplicas |-> IF r = r1 THEN old ELSE new]
OneReplica == {r1}
OneVersion == [r \in OneReplica |-> new]
=============================================================================
