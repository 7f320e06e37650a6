------------------------------ MODULE MCMuxPool ------------------------------
(* Instances of MuxPool for model checking. *)
EXTENDS MuxPool, TLC

\* Connections, and identities, are interchangeable.
PoolSymmetry == Permutations(Conns) \cup Permutations(Identities)
=============================================================================
