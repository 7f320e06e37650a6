--------------------------- MODULE SpiffeIdentity ---------------------------
(***************************************************************************)
(* SPIFFE identities, the patterns compiled from their URIs, and the       *)
(* certificates that carry them.                                           *)
(*                                                                         *)
(* A text is the sequence of the segments between its slashes, so that     *)
(* joining texts with slashes is concatenation and "" is the text <<"">>.  *)
(* A URI is a text behind a scheme.                                        *)
(***************************************************************************)
EXTENDS Naturals, Sequences

CONSTANTS
  Segments,        \* pieces of text without a slash
  ToLower,         \* ToLower[s]: the segment in lower case
  NotInAuthority,  \* the segments with one of @ : [ ] \ ? # or a blank in them
  NotInPath,       \* the segments with a ? or # in them
  Starred,         \* the segments with a * in them
  Matched,         \* Matched[s]: the segments that s matches as a SegmentGlob
  None

ASSUME SegmentAssumption ==
  /\ {"", "ns", "sa", "*", "default", "proxy"} \subseteq Segments
  /\ ToLower \in [Segments -> Segments]
  /\ \A s \in Segments : /\ ToLower[ToLower[s]] = ToLower[s]
                         /\ ToLower[s] = "" <=> s = ""
                         /\ ToLower[s] \in NotInAuthority <=> s \in NotInAuthority
  /\ NotInPath \subseteq NotInAuthority
  /\ NotInAuthority \subseteq Segments
  /\ {"", "ns", "sa", "*", "default", "proxy"} \cap NotInAuthority = {}
  /\ Starred \subseteq Segments
  /\ "*" \in Starred
  /\ {"", "ns", "sa", "default", "proxy"} \cap Starred = {}
  /\ Matched \in [Segments -> SUBSET Segments]
  /\ Matched["*"] = Segments
  /\ \A s \in Segments : s \in Matched[s] /\ (s \notin Starred => Matched[s] = {s})

Texts == Seq(Segments) \ {<<>>}
Empty == <<"">>
to_ascii_lowercase(t) == [i \in DOMAIN t |-> ToLower[t[i]]]

\* A trust domain from the configuration may hold slashes, the names never do.
Names == {<<s>> : s \in Segments}
SpiffeId == [trust_domain : Texts, namespace : Names, service_account : Names]
Uris == [spiffe : BOOLEAN, text : Texts]

-----------------------------------------------------------------------------
\* The parts of a URI, or None.
parse_spiffe_uri(uri) ==
  LET s == uri.text IN
  IF /\ uri.spiffe
     /\ Len(s) = 5
     /\ s[1] \notin NotInAuthority \cup {""}
     /\ s[2] = "ns"
     /\ s[3] \notin NotInPath \cup {""}
     /\ s[4] = "sa"
     /\ s[5] \notin NotInPath \cup {""}
  THEN [trust_domain |-> <<s[1]>>, namespace |-> <<s[3]>>, service_account |-> <<s[5]>>]
  ELSE None

\* Validation of the segments asks for nothing more than that they are there.
try_new(td, ns, sa) ==
  IF Empty \in {td, ns, sa} THEN None
  ELSE [trust_domain |-> td, namespace |-> ns, service_account |-> sa]

from_uri(uri) ==
  LET parts == parse_spiffe_uri(uri) IN
  IF parts = None THEN None
  ELSE try_new(to_ascii_lowercase(parts.trust_domain), parts.namespace,
               parts.service_account)

to_uri(id) ==
  [spiffe |-> TRUE,
   text   |-> id.trust_domain \o <<"ns">> \o id.namespace \o <<"sa">>
                \o id.service_account]

-----------------------------------------------------------------------------
\* Policy patterns: an exact trust domain and two globs, each kept as the segment
\* it was compiled from.
CompiledPattern(uri) ==
  LET parts == parse_spiffe_uri(uri) IN
  IF parts = None THEN None
  ELSE [parts EXCEPT !.trust_domain = to_ascii_lowercase(@)]

AnyPattern ==
  [trust_domain |-> Empty, namespace |-> <<"*">>, service_account |-> <<"*">>]

\* SegmentGlob::matches: module SegmentGlob has the matcher, and its theorem
\* WholeSegments what is assumed of Matched.
GlobMatches(glob, name) == name[1] \in Matched[glob[1]]

matches_compiled(id, pattern) ==
  /\ pattern.trust_domain \in {Empty, id.trust_domain}
  /\ GlobMatches(pattern.namespace, id.namespace)
  /\ GlobMatches(pattern.service_account, id.service_account)

-----------------------------------------------------------------------------
\* Certificates: who signed, and the subject alternative names in their order.
issue_leaf_with_key(root, id, names) ==
  [issuer |-> root,
   san    |-> <<[type |-> "uri", uri |-> to_uri(id)]>> \o names]

\* The first URI name that parses.
spiffe_id_from_cert_der(cert) ==
  LET ids == {i \in DOMAIN cert.san :
                /\ cert.san[i].type = "uri"
                /\ from_uri(cert.san[i].uri) # None}
  IN IF ids = {} THEN None
     ELSE from_uri(cert.san[CHOOSE i \in ids : \A j \in ids : i <= j].uri)
=============================================================================
