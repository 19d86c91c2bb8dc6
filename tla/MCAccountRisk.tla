--------------------------- MODULE MCAccountRisk ---------------------------
(* Symmetry for the runs of AccountRisk.                                   *)
EXTENDS AccountRisk, TLC

Symmetry == Permutations(Engines)
=============================================================================
