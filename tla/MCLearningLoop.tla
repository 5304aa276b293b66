--------------------------- MODULE MCLearningLoop ---------------------------
(***************************************************************************)
(* Two processes that analyse the same two operators, so that they race on *)
(* the fingerprints of both; one target where the order does not matter.   *)
(***************************************************************************)
EXTENDS LearningLoop

OneTarget  == <<"sriov">>
TwoTargets == <<"sriov", "ptp">>
Ops        == {"sriov", "ptp"}
Symm       == Permutations(Procs)
=============================================================================
