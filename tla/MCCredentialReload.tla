------------------------- MODULE MCCredentialReload -------------------------
(* Small instances of CredentialReload for TLC. *)
EXTENDS CredentialReload, TLC

\* Issues 0 and 1 share a root, issue 2 comes with a new one.
MCRootOf == [i \in Issues |-> IF i < 2 THEN "old" ELSE "new"]

\* Requests are interchangeable, and so are handshakes.
ReloadSymmetry == Permutations(Reloads) \cup Permutations(Handshakes)
=============================================================================
