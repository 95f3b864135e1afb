-------------------------- MODULE MCRoutingCatalog --------------------------
(* Instances of RoutingCatalog for TLC.  RC.cfg takes one instance and one  *)
(* tree; the sets of two and their symmetry are for longer runs.            *)
EXTENDS RoutingCatalog, TLC

CONSTANTS i1, i2, t1, t2, c1

OneInstance == {i1}
TwoInstances == {i1, i2}
OneTree == {t1}
TwoTrees == {t1, t2}
OneCampaign == {c1}
OneAdmin == {1}

\* Instances and trees are told apart by nothing but their state.
Symmetry == Permutations(TwoInstances) \cup Permutations(TwoTrees)
=============================================================================
