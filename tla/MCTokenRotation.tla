-------------------------- MODULE MCTokenRotation --------------------------
(* Instances of TokenRotation for TLC. *)
EXTENDS TokenRotation, TLC
Symmetry == Permutations(Conns)
AllScenarios == {{"slow", "restart"}, {"restart"}}
=============================================================================
