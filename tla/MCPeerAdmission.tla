--------------------------- MODULE MCPeerAdmission ---------------------------
(* A small instance of PeerAdmission for TLC. *)
EXTENDS PeerAdmission, TLC

MCSegments == {"", "ns", "sa", "*", "default", "proxy", "a", "b"}
MCToLower == [s \in MCSegments |-> s]
MCMatched == [s \in MCSegments |-> IF s = "*" THEN MCSegments ELSE {s}]

Id(td, sa) == [trust_domain |-> <<td>>, namespace |-> <<"default">>, service_account |-> <<sa>>]
MCLocalId == Id("a", "proxy")

\* A reload replaces the root.
MCRootsOf == [g \in 0..1 |-> IF g = 0 THEN {"old"} ELSE {"new"}]

\* A replica's leaf of the new root; of the old one, the leaf of another workload,
\* one of another trust domain and one that carries no SPIFFE identity.
MCCerts ==
  {issue_leaf_with_key("new", MCLocalId, <<>>),
   issue_leaf_with_key("old", Id("a", "a"), <<>>),
   issue_leaf_with_key("old", Id("b", "a"), <<>>),
   [issuer |-> "old", san |-> <<[type |-> "dns"]>>]}

\* Two rules that contradict each other on every pair of the own trust domain.
MCRules == {allow_same_namespace("a", "default"),
            deny([spiffe |-> TRUE, text |-> <<"a", "ns", "*", "sa", "*">>])}

MCNamespaces == {<<"default">>}

AdmissionSymmetry == Permutations(Conns)
=============================================================================
