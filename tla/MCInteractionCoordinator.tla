----------------------- MODULE MCInteractionCoordinator -----------------------
(* Instances of InteractionCoordinator for TLC.                              *)
EXTENDS InteractionCoordinator, TLC

Symmetry == Permutations(Responders)
=============================================================================
