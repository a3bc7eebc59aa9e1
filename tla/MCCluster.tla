------------------------------- MODULE MCCluster -------------------------------
(* Two nodes, each owning one key; one session per node (ids 4 = (1,1) and *)
(* 5 = (1,2)), two requests per session, deltas -1 and 2 so that a commit  *)
(* can fail its consistency check and another can pass it.                *)
EXTENDS Cluster

MCNodes == {1, 2}
MCKeys == {"x", "y"}
MCOwner == [k \in MCKeys |-> IF k = "x" THEN 1 ELSE 2]
MCDiffs == {-1, 2}

=============================================================================
