--------------------------- MODULE MCProviderCall ----------------------------
(* Instances of the provider call for TLC.                                 *)
EXTENDS ProviderCall, TLC

TaskSymmetry == Permutations(Tasks)
=============================================================================
