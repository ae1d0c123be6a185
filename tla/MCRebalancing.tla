-------------------------- MODULE MCRebalancing --------------------------
(* Bounds for model checking Rebalancing.  The job counts include the    *)
(* lengths used by state_test.go (9, 15, 27) and the totals its twelve     *)
(* workers; two versions suffice, since the version is only stored.        *)
EXTENDS Rebalancing

MCJobCounts == 0 .. 9 \cup {15, 27}
MCTotals    == 0 .. 5 \cup {12}
MCVersions  == 1 .. 2
=============================================================================
