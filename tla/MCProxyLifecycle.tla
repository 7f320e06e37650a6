-------------------------- MODULE MCProxyLifecycle --------------------------
(* Small instances of ProxyLifecycle for TLC. *)
EXTENDS ProxyLifecycle, TLC

\* Acceptors and connections are interchangeable.
LifecycleSymmetry == Permutations(Acceptors) \cup Permutations(Conns)
=============================================================================
