------------------------- MODULE MCServiceDiscovery -------------------------
(* Instances of ServiceDiscovery for model checking. *)
EXTENDS ServiceDiscovery, TLC

CallerSymmetry == Permutations(Callers)
=============================================================================
