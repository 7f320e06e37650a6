------------------------------ MODULE MCStartup ------------------------------
(* A small instance of Startup for TLC. *)
EXTENDS Startup

MCSegments == {"", "ns", "sa", "*", "default", "proxy", "cluster.local", "a", "A", "a:1", "a?", "a*"}
MCToLower == [s \in MCSegments |-> IF s = "A" THEN "a" ELSE s]
MCMatched == [s \in MCSegments |-> CASE s = "*" -> MCSegments
                                     [] s = "a*" -> {"a", "a:1", "a?", "a*"}
                                     [] OTHER -> {s}]

\* Trust domains: none, plain, in upper case, with a port, with a path.
Domains == {Empty, <<"a">>, <<"A">>, <<"a:1">>, <<"a", "ns", "a", "sa">>}

Identity(td, ns, sa) == [spiffe |-> TRUE, text |-> <<td, "ns", ns, "sa", sa>>]

\* Identities: every shape the parser tells apart.
MCUris ==
  {Identity(td, ns, sa) : td \in {"", "a", "A", "a:1"}, ns \in {"", "a", "a?"},
                          sa \in {"", "a", "a?", "default"}}
  \cup {Identity("a", "*", "a"), Identity("a", "a*", "a"), Identity("a", "a", "a*"),
        [spiffe |-> FALSE, text |-> <<"a", "ns", "a", "sa", "a">>],
        [spiffe |-> TRUE, text |-> Empty],
        [spiffe |-> TRUE, text |-> <<"a", "ns", "a", "sa", "a", "a">>],
        [spiffe |-> TRUE, text |-> <<"a", "sa", "a", "ns", "a">>]}

MCFileLayers ==
  {None, Unreadable}
  \cup [trust_domain : {Empty, <<"A">>}, identity : {None, Identity("a", "a", "a"), Identity("a", "", "a")},
        max_connections : {0, 1}, port : {1}]

MCEnvLayers ==
  [trust_domain : Domains \cup {None}, identity : MCUris \cup {None},
   max_connections : {None, Unreadable, MaxPermits, MaxPermits + 1},
   port : {None}, allow_all : {FALSE}]
  \cup [trust_domain : {None, <<"a">>}, identity : {None, Identity("A", "a", "a")},
        max_connections : {None, 1}, port : {None, 2, Unreadable}, allow_all : BOOLEAN]

\* Leaves: one that carries the identity of the workload, or another, or none,
\* behind a name that is no SPIFFE ID.
Leaves ==
  {issue_leaf_with_key(r, id, <<[type |-> "dns"]>>) :
     r \in {"root", "other"},
     id \in {try_new(td, ns, sa) : td \in Domains \ {Empty}, ns \in {<<"a">>, <<"*">>, <<"default">>},
                                   sa \in {<<"a">>, <<"proxy">>}}
            \cup {try_new(<<"a">>, <<"a*">>, <<"a">>), try_new(<<"a">>, <<"a">>, <<"a*">>)}}
  \cup {[issuer |-> "root", san |-> <<[type |-> "dns"], [type |-> "uri", uri |-> [spiffe |-> FALSE, text |-> <<"a">>]],
                                      [type |-> "uri", uri |-> Identity("a", "a", "a")]>>]}

MCDisks ==
  {Unreadable} \cup [roots : {{"root"}}, cert : Leaves, key_matches : {TRUE}]
               \cup [roots : {{"root"}}, cert : {issue_leaf_with_key("root", try_new(<<"a">>, <<"a">>, <<"a">>), <<>>)},
                     key_matches : {FALSE}]
=============================================================================
