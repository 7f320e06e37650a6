--------------------------- MODULE StartupProofs ----------------------------
(***************************************************************************)
(* Proofs about Startup, for any texts, configuration layers and           *)
(* credential files: the start panics only at the connection limit, and a  *)
(* process that serves has one identity, the one it was given, and admits  *)
(* its replicas.                                                           *)
(***************************************************************************)
EXTENDS Startup, SequenceTheorems, NaturalsInduction, WellFoundedInduction, TLAPS

-----------------------------------------------------------------------------
(* Identities read from a URI, and back *)

Id(td, ns, sa) ==
  [trust_domain |-> <<td>>, namespace |-> <<ns>>, service_account |-> <<sa>>]

DomainParts == {s \in Segments \ (NotInAuthority \cup {""}) : ToLower[s] = s}
PathParts == Segments \ (NotInPath \cup {""})

\* The identities from_uri returns: three segments, the first in lower case.
Proper == {Id(x[1], x[2], x[3]) : x \in DomainParts \X PathParts \X PathParts}

LEMMA InProper ==
  ASSUME NEW td \in DomainParts, NEW ns \in PathParts, NEW sa \in PathParts
  PROVE  Id(td, ns, sa) \in Proper
<1>1. <<td, ns, sa>> \in DomainParts \X PathParts \X PathParts
  OBVIOUS
<1>2. Id(td, ns, sa) = Id(<<td, ns, sa>>[1], <<td, ns, sa>>[2], <<td, ns, sa>>[3])
  OBVIOUS
<1>. QED  BY <1>1, <1>2 DEF Proper

LEMMA ProperParts ==
  ASSUME NEW id \in Proper
  PROVE  \E td \in DomainParts, ns \in PathParts, sa \in PathParts : id = Id(td, ns, sa)
<1>1. PICK x \in DomainParts \X PathParts \X PathParts : id = Id(x[1], x[2], x[3])
  BY Zenon DEF Proper
<1>2. x[1] \in DomainParts /\ x[2] \in PathParts /\ x[3] \in PathParts
  OBVIOUS
<1>. QED  BY <1>1, <1>2, Zenon

\* A text of one segment.
LEMMA OneSegment ==
  ASSUME NEW s \in Segments
  PROVE  /\ <<s>> \in Texts /\ <<s>> \in Names
         /\ to_ascii_lowercase(<<s>>) = <<ToLower[s]>>
         /\ <<s>> = Empty <=> s = ""
<1>1. <<s>> \in Texts
  BY DEF Texts
<1>2. to_ascii_lowercase(<<s>>) = <<ToLower[s]>>
  BY DEF to_ascii_lowercase
<1>3. <<s>> = Empty <=> s = ""
  BY DEF Empty
<1>4. <<s>> \in Names
  BY Zenon DEF Names
<1>. QED  BY <1>1, <1>2, <1>3, <1>4, Zenon

\* try_new on three such texts.
LEMMA NewOfSegments ==
  ASSUME NEW td \in Segments, NEW ns \in Segments, NEW sa \in Segments,
         td # "", ns # "", sa # ""
  PROVE  /\ try_new(<<td>>, <<ns>>, <<sa>>) = Id(td, ns, sa)
         /\ Id(td, ns, sa) \in SpiffeId
<1>1. Empty \notin {<<td>>, <<ns>>, <<sa>>}
  BY OneSegment, Zenon
<1>2. <<td>> \in Texts /\ <<ns>> \in Names /\ <<sa>> \in Names
  BY OneSegment, Zenon
<1>. QED  BY <1>1, <1>2 DEF try_new, Id, SpiffeId

\* A segment in lower case.
LEMMA Lowered ==
  ASSUME NEW s \in Segments
  PROVE  /\ ToLower[s] \in Segments /\ ToLower[ToLower[s]] = ToLower[s]
         /\ ToLower[s] = "" <=> s = ""
         /\ ToLower[s] \in NotInAuthority <=> s \in NotInAuthority
<1>1. ToLower \in [Segments -> Segments]
  BY SegmentAssumption, Zenon
<1>2. \A x \in Segments : /\ ToLower[ToLower[x]] = ToLower[x]
                          /\ ToLower[x] = "" <=> x = ""
                          /\ ToLower[x] \in NotInAuthority <=> x \in NotInAuthority
  BY SegmentAssumption, Zenon
<1>. QED  BY <1>1, <1>2, Zenon

\* Whatever from_uri accepts, of whatever spelling, is proper.
LEMMA FromUriProper ==
  ASSUME NEW u \in Uris, from_uri(u) # None
  PROVE  from_uri(u) \in Proper
<1> DEFINE s == u.text
<1>1. parse_spiffe_uri(u) # None
  BY Zenon DEF from_uri
<1>2. /\ Len(s) = 5 /\ s[1] \notin NotInAuthority \cup {""}
      /\ s[3] \notin NotInPath \cup {""} /\ s[5] \notin NotInPath \cup {""}
      /\ parse_spiffe_uri(u) = Id(s[1], s[3], s[5])
  BY <1>1, Zenon DEF parse_spiffe_uri, Id
<1>3. s[1] \in Segments /\ s[3] \in Segments /\ s[5] \in Segments
  <2>1. s \in Seq(Segments)
    BY DEF Uris, Texts
  <2>2. 1 \in 1..5 /\ 3 \in 1..5 /\ 5 \in 1..5
    OBVIOUS
  <2> HIDE DEF s
  <2>. QED  BY <1>2, <2>1, <2>2, ElementOfSeq, Zenon
<1> HIDE DEF s
<1>4. from_uri(u) = try_new(to_ascii_lowercase(<<s[1]>>), <<s[3]>>, <<s[5]>>)
  <2>1. /\ Id(s[1], s[3], s[5]).trust_domain = <<s[1]>>
        /\ Id(s[1], s[3], s[5]).namespace = <<s[3]>>
        /\ Id(s[1], s[3], s[5]).service_account = <<s[5]>>
    BY DEF Id
  <2>. QED  BY <1>1, <1>2, <2>1, Zenon DEF from_uri
<1> DEFINE l == ToLower[s[1]]
<1>5. l \in DomainParts
  BY <1>2, <1>3, Lowered, Zenon DEF DomainParts
<1>6. s[3] \in PathParts /\ s[5] \in PathParts
  BY <1>2, <1>3, Zenon DEF PathParts
<1>7. from_uri(u) = Id(l, s[3], s[5])
  <2>1. from_uri(u) = try_new(<<l>>, <<s[3]>>, <<s[5]>>)
    BY <1>3, <1>4, OneSegment, Zenon
  <2>2. l \in Segments /\ l # "" /\ s[3] # "" /\ s[5] # ""
    BY <1>5, <1>6, Zenon DEF DomainParts, PathParts
  <2> HIDE DEF l
  <2>. QED  BY <1>3, <2>1, <2>2, NewOfSegments, Zenon
<1> HIDE DEF l
<1>. QED  BY <1>5, <1>6, <1>7, InProper, Zenon

\* One segment more.
LEMMA Extended ==
  ASSUME NEW s \in Seq(Segments), NEW x \in Segments
  PROVE  /\ s \o <<x>> \in Seq(Segments) /\ Len(s \o <<x>>) = Len(s) + 1
         /\ \A i \in 1..Len(s) : (s \o <<x>>)[i] = s[i]
         /\ (s \o <<x>>)[Len(s) + 1] = x
<1>1. <<x>> \in Seq(Segments) /\ Len(<<x>>) = 1 /\ <<x>>[1] = x
  OBVIOUS
<1>. QED  BY <1>1, ConcatProperties

\* The URI an identity is printed as.
LEMMA Printed ==
  ASSUME NEW td \in Segments, NEW ns \in Segments, NEW sa \in Segments
  PROVE  to_uri(Id(td, ns, sa)) = [spiffe |-> TRUE, text |-> <<td, "ns", ns, "sa", sa>>]
<1>0. "ns" \in Segments /\ "sa" \in Segments
  BY SegmentAssumption, Zenon
<1> DEFINE t1 == <<td>>
           t2 == t1 \o <<"ns">>
           t3 == t2 \o <<ns>>
           t4 == t3 \o <<"sa">>
           t5 == t4 \o <<sa>>
           t == <<td, "ns", ns, "sa", sa>>
<1>1. t1 \in Seq(Segments) /\ Len(t1) = 1 /\ t1[1] = td
  OBVIOUS
<1> HIDE DEF t1
<1>2. t2 \in Seq(Segments) /\ Len(t2) = 2 /\ t2[1] = td /\ t2[2] = "ns"
  <2>1. /\ t2 \in Seq(Segments) /\ Len(t2) = Len(t1) + 1 /\ t2[Len(t1) + 1] = "ns"
        /\ \A i \in 1..Len(t1) : t2[i] = t1[i]
    BY <1>0, <1>1, Extended
  <2> HIDE DEF t2
  <2>. QED  BY <1>1, <2>1
<1> HIDE DEF t2
<1>3. t3 \in Seq(Segments) /\ Len(t3) = 3 /\ t3[1] = td /\ t3[2] = "ns" /\ t3[3] = ns
  <2>1. /\ t3 \in Seq(Segments) /\ Len(t3) = Len(t2) + 1 /\ t3[Len(t2) + 1] = ns
        /\ \A i \in 1..Len(t2) : t3[i] = t2[i]
    BY <1>0, <1>2, Extended
  <2> HIDE DEF t3
  <2>. QED  BY <1>2, <2>1
<1> HIDE DEF t3
<1>4. t4 \in Seq(Segments) /\ Len(t4) = 4 /\ t4[1] = td /\ t4[2] = "ns" /\ t4[3] = ns /\ t4[4] = "sa"
  <2>1. /\ t4 \in Seq(Segments) /\ Len(t4) = Len(t3) + 1 /\ t4[Len(t3) + 1] = "sa"
        /\ \A i \in 1..Len(t3) : t4[i] = t3[i]
    BY <1>0, <1>3, Extended
  <2> HIDE DEF t4
  <2>. QED  BY <1>3, <2>1
<1> HIDE DEF t4
<1>5. t5 \in Seq(Segments) /\ Len(t5) = 5 /\ t5[1] = td /\ t5[2] = "ns" /\ t5[3] = ns /\ t5[4] = "sa" /\ t5[5] = sa
  <2>1. /\ t5 \in Seq(Segments) /\ Len(t5) = Len(t4) + 1 /\ t5[Len(t4) + 1] = sa
        /\ \A i \in 1..Len(t4) : t5[i] = t4[i]
    BY <1>0, <1>4, Extended
  <2> HIDE DEF t5
  <2>. QED  BY <1>4, <2>1
<1> HIDE DEF t5
<1>6. /\ t \in Seq(Segments) /\ Len(t) = 5
      /\ t[1] = td /\ t[2] = "ns" /\ t[3] = ns /\ t[4] = "sa" /\ t[5] = sa
  BY <1>0
<1> HIDE DEF t
<1>7. t5 = t
  <2>1. \A i \in 1..5 : i = 1 \/ i = 2 \/ i = 3 \/ i = 4 \/ i = 5
    OBVIOUS
  <2>2. \A i \in 1..5 : t5[i] = t[i]
    BY <1>5, <1>6, <2>1, Zenon
  <2>. QED  BY <1>5, <1>6, <2>2, SeqEqual, Zenon
<1>8. to_uri(Id(td, ns, sa)) = [spiffe |-> TRUE, text |-> t5]
  BY DEF to_uri, Id, t1, t2, t3, t4, t5
<1>. QED  BY <1>7, <1>8, Zenon DEF t

\* A proper identity reads back from the URI it is printed as, and the pattern
\* compiled from that URI is the identity itself.
LEMMA ReadsBack ==
  ASSUME NEW id \in Proper
  PROVE  /\ id \in SpiffeId /\ id # None
         /\ from_uri(to_uri(id)) = id
         /\ CompiledPattern(to_uri(id)) = id
<1>1. PICK td \in DomainParts, ns \in PathParts, sa \in PathParts : id = Id(td, ns, sa)
  BY ProperParts, Zenon
<1>2. /\ td \in Segments /\ td \notin NotInAuthority \cup {""} /\ ToLower[td] = td
      /\ ns \in Segments /\ ns \notin NotInPath \cup {""}
      /\ sa \in Segments /\ sa \notin NotInPath \cup {""}
  BY <1>1, Zenon DEF DomainParts, PathParts
<1>3. id \in SpiffeId /\ try_new(<<td>>, <<ns>>, <<sa>>) = id
  BY <1>1, <1>2, NewOfSegments, Zenon
<1>4. id # None
  BY <1>3, StartupAssumption, Zenon
<1> DEFINE t == <<td, "ns", ns, "sa", sa>>
           u == [spiffe |-> TRUE, text |-> t]
<1>5. to_uri(id) = u
  BY <1>1, <1>2, Printed, Zenon
<1>6. parse_spiffe_uri(u) = id
  <2>1. Len(t) = 5 /\ t[1] = td /\ t[2] = "ns" /\ t[3] = ns /\ t[4] = "sa" /\ t[5] = sa
    OBVIOUS
  <2>2. u.spiffe = TRUE /\ u.text = t
    OBVIOUS
  <2> HIDE DEF t, u
  <2>. QED  BY <1>1, <1>2, <2>1, <2>2, Zenon DEF parse_spiffe_uri, Id
<1> HIDE DEF u
<1>7. id.trust_domain = <<td>> /\ id.namespace = <<ns>> /\ id.service_account = <<sa>>
  BY <1>1 DEF Id
<1>8. to_ascii_lowercase(id.trust_domain) = <<td>>
  BY <1>2, <1>7, OneSegment, Zenon
<1>9. from_uri(u) = id
  BY <1>3, <1>4, <1>6, <1>7, <1>8, Zenon DEF from_uri
<1>10. CompiledPattern(u) = id
  <2>1. CompiledPattern(u) = [id EXCEPT !.trust_domain = <<td>>]
    BY <1>4, <1>6, <1>8, Zenon DEF CompiledPattern
  <2>. QED  BY <1>1, <2>1 DEF Id
<1>. QED  BY <1>3, <1>4, <1>5, <1>9, <1>10, Zenon

-----------------------------------------------------------------------------
(* The identity in a leaf *)

LEMMA LeastPosition ==
  ASSUME NEW T \in SUBSET Nat, T # {}
  PROVE  \E m \in T : \A j \in T : m <= j
<1> DEFINE Less == {ss \in Nat \X Nat : ss[1] < ss[2]}
<1>1. IsWellFoundedOn(Less, Nat)
  BY NatLessThanWellFounded, Zenon DEF OpToRel
<1>2. \A i, j \in T : ~(<<j, i>> \in Less) => i <= j
  OBVIOUS
<1> HIDE DEF Less
<1>3. \E m \in T : \A j \in T : ~(<<j, m>> \in Less)
  BY <1>1, WFMin, Zenon
<1>. QED  BY <1>2, <1>3, Zenon

\* What is read from a leaf on disk is proper, or nothing.
LEMMA LeafProper ==
  ASSUME NEW d \in Disks, d # Unreadable, spiffe_id_from_cert_der(d.cert) # None
  PROVE  spiffe_id_from_cert_der(d.cert) \in Proper
<1> DEFINE san == d.cert.san
           ids == {i \in DOMAIN san : san[i].type = "uri" /\ from_uri(san[i].uri) # None}
           m == CHOOSE i \in ids : \A j \in ids : i <= j
<1>1. spiffe_id_from_cert_der(d.cert) = IF ids = {} THEN None ELSE from_uri(san[m].uri)
  BY Zenon DEF spiffe_id_from_cert_der
<1>2. san \in Seq([type : {"uri"}, uri : Uris] \cup [type : {"dns"}])
  BY StartupAssumption, Zenon
<1> HIDE DEF san
<1>3. ids \in SUBSET Nat
  BY <1>2
<1>4. ids # {}
  BY <1>1, Zenon
<1>5. m \in ids
  <2>1. \E i \in ids : \A j \in ids : i <= j
    BY <1>3, <1>4, LeastPosition, Zenon
  <2> HIDE DEF ids
  <2>. QED  BY <2>1, Zenon
<1> HIDE DEF m
<1>6. m \in DOMAIN san /\ san[m].type = "uri" /\ from_uri(san[m].uri) # None
  BY <1>5, Zenon
<1>7. san[m].uri \in Uris
  <2>1. san[m] \in [type : {"uri"}, uri : Uris] \cup [type : {"dns"}]
    BY <1>2, <1>6
  <2>. QED  BY <1>6, <2>1
<1>. QED  BY <1>1, <1>4, <1>6, <1>7, FromUriProper, Zenon

-----------------------------------------------------------------------------
(* The start *)

\* The identity someone configured, before and after the environment is read.
InFile == IF file = None THEN None ELSE file.identity
Configured == IF env.identity # None THEN env.identity ELSE InFile

Validated == {"identity", "credentials", "policy", "discovery", "inbound", "outbound", "serving"}
Derived == Validated \ {"identity"}
Loaded == Derived \ {"credentials"}
Admitting == Loaded \ {"policy"}

Inv ==
  /\ file \in FileLayers /\ env \in EnvLayers /\ disk \in Disks
  /\ config.trust_domain \in Texts /\ config.identity \in Uris \cup {None}
  /\ DOMAIN local_id = Proxies
  /\ pc = "file" => config.identity = None
  /\ pc = "env" => config.identity = InFile
  /\ pc \in {"env", "validate"} \cup Validated => file # Unreadable
  /\ pc \in {"validate"} \cup Validated => config.identity = Configured
  /\ pc \in Validated => ValidConfig(config)
  /\ pc \in Derived => expected = DerivedIdentity /\ expected # None
  /\ pc \in Loaded => Accepts(disk)
  /\ pc \in Admitting => /\ rule = [source |-> expected, destination |-> expected]
                         /\ fallback = IF env.allow_all THEN "Allow" ELSE "Deny"
  /\ pc \in {"outbound", "serving"} => local_id["inbound"] = expected
  /\ pc = "serving" => local_id["outbound"] = expected
  /\ OnlyLimitPanics

\* The three places that derive an identity have one to derive, once the
\* configuration is valid.
LEMMA HasIdentity ==
  ASSUME config.trust_domain \in Texts, ValidConfig(config)
  PROVE  DerivedIdentity # None
<1>1. CASE config.identity # None
  BY <1>1, Zenon DEF ValidConfig, DerivedIdentity
<1>2. CASE config.identity = None
  <2>1. DerivedIdentity = try_new(config.trust_domain, <<"default">>, <<"proxy">>)
    BY <1>2, Zenon DEF DerivedIdentity
  <2>2. /\ "default" \in Segments /\ "default" # ""
        /\ "proxy" \in Segments /\ "proxy" # ""
    BY SegmentAssumption, Zenon
  <2>3. /\ <<"default">> \in Names /\ <<"default">> # Empty
        /\ <<"proxy">> \in Names /\ <<"proxy">> # Empty
    BY <2>2, OneSegment, Zenon
  <2>4. DerivedIdentity =
          [trust_domain |-> config.trust_domain, namespace |-> <<"default">>,
           service_account |-> <<"proxy">>]
    BY <2>1, <2>3, Zenon DEF ValidConfig, try_new
  <2>5. DerivedIdentity \in SpiffeId
    BY <2>3, <2>4 DEF SpiffeId
  <2>. QED  BY <2>5, StartupAssumption, Zenon
<1>. QED  BY <1>1, <1>2, Zenon

LEMMA InvInit == Init => Inv
<1> SUFFICES ASSUME Init PROVE Inv
  OBVIOUS
<1>1. config = Default /\ pc = "file" /\ file \in FileLayers /\ env \in EnvLayers /\ disk \in Disks
      /\ DOMAIN local_id = Proxies
  BY DEF Init
<1>2. Default.trust_domain = <<"cluster.local">> /\ Default.identity = None
  BY DEF Default
<1>3. <<"cluster.local">> \in Texts
  BY StartupAssumption, OneSegment
<1>. QED  BY <1>1, <1>2, <1>3 DEF Inv, Validated, Derived, Loaded, Admitting, OnlyLimitPanics

\* main() fails: nothing but pc changes.
LEMMA InvEnds ==
  ASSUME Inv, NEW how, Ends(how), UNCHANGED inputs, how \notin {"file", "env", "validate"},
         how \in Validated => ValidConfig(config) /\ file # Unreadable /\ config.identity = Configured,
         how \in Derived => expected = DerivedIdentity /\ expected # None,
         how \in Loaded => Accepts(disk),
         how \in Admitting => /\ rule = [source |-> expected, destination |-> expected]
                              /\ fallback = IF env.allow_all THEN "Allow" ELSE "Deny",
         how \notin {"outbound", "serving"},
         how = "panicked" => config.max_connections > MaxPermits
  PROVE  Inv'
<1>1. pc' = how /\ UNCHANGED <<config, expected, rule, fallback, local_id, file, env, disk>>
  BY DEF Ends, inputs
<1>2. /\ ValidConfig(config)' <=> ValidConfig(config)
      /\ DerivedIdentity' = DerivedIdentity
      /\ Accepts(disk)' <=> Accepts(disk)
      /\ Configured' = Configured
  BY <1>1, Zenon DEF ValidConfig, DerivedIdentity, Accepts, Configured, InFile
<1>. QED  BY <1>1, <1>2, Zenon DEF Inv, OnlyLimitPanics

-----------------------------------------------------------------------------
(* Every step keeps the invariant *)

\* What the file holds, field by field.
LEMMA FileFields ==
  ASSUME file \in FileLayers, file # None, file # Unreadable
  PROVE  file.trust_domain \in Texts /\ file.identity \in Uris \cup {None}
<1>1. file \in [trust_domain : Texts, identity : Uris \cup {None}, max_connections : Nat, port : Nat]
  BY StartupAssumption, Zenon
<1>. QED  BY <1>1

\* What the environment holds.
LEMMA EnvFields ==
  ASSUME env \in EnvLayers
  PROVE  env.trust_domain \in Texts \cup {None} /\ env.identity \in Uris \cup {None}
<1>1. env \in [trust_domain : Texts \cup {None}, identity : Uris \cup {None},
               max_connections : Nat \cup {None, Unreadable},
               port : Nat \cup {None, Unreadable}, allow_all : BOOLEAN]
  BY StartupAssumption, Zenon
<1>. QED  BY <1>1

\* A layer is laid over what is there.
LEMMA Layered ==
  ASSUME NEW c
  PROVE  /\ with_file(c).trust_domain = file.trust_domain
         /\ with_file(c).identity = IF file.identity = None THEN c.identity ELSE file.identity
         /\ with_env(c).trust_domain = IF env.trust_domain = None THEN c.trust_domain ELSE env.trust_domain
         /\ with_env(c).identity = IF env.identity = None THEN c.identity ELSE env.identity
<1>1. "trust_domain" \in Fields /\ "identity" \in Fields
  BY DEF Fields
<1>. QED  BY <1>1 DEF with_file, with_env

LEMMA InvLoadFile == ASSUME Inv, LoadFile PROVE Inv'
<1>1. pc = "file" /\ UNCHANGED <<file, env, disk>>
  BY Zenon DEF LoadFile, inputs
<1>2. CASE file = Unreadable /\ Ends("error")
  BY <1>1, <1>2, InvEnds, Zenon DEF inputs, Validated, Derived, Loaded, Admitting
<1>3. CASE /\ file # Unreadable /\ pc' = "env"
           /\ config' = IF file = None THEN config ELSE with_file(config)
           /\ UNCHANGED <<expected, rule, fallback, local_id>>
  <2>1. config.identity = None /\ config.trust_domain \in Texts
    BY <1>1, Zenon DEF Inv
  <2>2. config'.trust_domain \in Texts /\ config'.identity \in Uris \cup {None} /\ config'.identity = InFile
    <3>1. CASE file = None
      BY <1>3, <2>1, <3>1, Zenon DEF InFile
    <3>2. CASE file # None
      BY <1>1, <1>3, <2>1, <3>2, FileFields, Layered, Zenon DEF Inv, InFile
    <3>. QED  BY <3>1, <3>2, Zenon
  <2>3. InFile' = InFile
    BY <1>1, Zenon DEF InFile
  <2>. QED
    BY <1>1, <1>3, <2>2, <2>3, Zenon DEF Inv, Validated, Derived, Loaded, Admitting, OnlyLimitPanics
<1>. QED  BY <1>2, <1>3, Zenon DEF LoadFile

LEMMA InvLoadEnv == ASSUME Inv, LoadEnv PROVE Inv'
<1>1. pc = "env" /\ UNCHANGED <<file, env, disk>>
  BY Zenon DEF LoadEnv, inputs
<1>2. CASE Ends("error")
  BY <1>1, <1>2, InvEnds, Zenon DEF inputs, Validated, Derived, Loaded, Admitting
<1>3. CASE /\ config' = with_env(config) /\ pc' = "validate"
           /\ UNCHANGED <<expected, rule, fallback, local_id>>
  <2>1. /\ config.identity = InFile /\ config.trust_domain \in Texts /\ file # Unreadable
        /\ config.identity \in Uris \cup {None} /\ env \in EnvLayers
    BY <1>1, Zenon DEF Inv
  <2>2. /\ config'.trust_domain \in Texts /\ config'.identity \in Uris \cup {None}
        /\ config'.identity = Configured
    BY <1>3, <2>1, EnvFields, Layered, Zenon DEF Configured
  <2>3. Configured' = Configured
    BY <1>1, Zenon DEF InFile, Configured
  <2>. QED
    BY <1>1, <1>3, <2>1, <2>2, <2>3, Zenon
       DEF Inv, Validated, Derived, Loaded, Admitting, OnlyLimitPanics
<1>. QED  BY <1>2, <1>3, Zenon DEF LoadEnv

LEMMA InvValidate == ASSUME Inv, Validate PROVE Inv'
<1>1. /\ pc = "validate" /\ UNCHANGED inputs
      /\ Ends(IF ValidConfig(config) THEN "identity" ELSE "error")
  BY Zenon DEF Validate
<1>2. file # Unreadable /\ config.identity = Configured
  BY <1>1, Zenon DEF Inv
<1>3. CASE ValidConfig(config)
  BY <1>1, <1>2, <1>3, InvEnds, Zenon DEF Validated, Derived, Loaded, Admitting
<1>4. CASE ~ValidConfig(config)
  BY <1>1, <1>4, InvEnds, Zenon DEF Validated, Derived, Loaded, Admitting
<1>. QED  BY <1>3, <1>4, Zenon

\* Once validated, the configuration stays so: what later steps start from.
LEMMA AfterValidate ==
  ASSUME Inv, pc \in Validated
  PROVE  /\ config.trust_domain \in Texts /\ ValidConfig(config)
         /\ file # Unreadable /\ config.identity = Configured
         /\ DerivedIdentity # None
<1>1. /\ config.trust_domain \in Texts /\ ValidConfig(config)
      /\ file # Unreadable /\ config.identity = Configured
  BY Zenon DEF Inv
<1>. QED  BY <1>1, HasIdentity, Zenon

LEMMA InvDeriveIdentity == ASSUME Inv, DeriveIdentity PROVE Inv'
<1>1. /\ pc = "identity" /\ UNCHANGED <<file, env, disk>>
  BY Zenon DEF DeriveIdentity, inputs
<1>2. /\ ValidConfig(config) /\ file # Unreadable /\ config.identity = Configured
      /\ DerivedIdentity # None
  BY <1>1, AfterValidate, Zenon DEF Validated
<1>3. /\ expected' = DerivedIdentity /\ pc' = "credentials"
      /\ UNCHANGED <<config, rule, fallback, local_id>>
  BY <1>2, Zenon DEF DeriveIdentity
<1>4. /\ ValidConfig(config)' <=> ValidConfig(config)
      /\ DerivedIdentity' = DerivedIdentity
      /\ Configured' = Configured
  BY <1>1, <1>3, Zenon DEF ValidConfig, DerivedIdentity, Configured, InFile
<1>. QED  BY <1>1, <1>2, <1>3, <1>4, Zenon
          DEF Inv, Validated, Derived, Loaded, Admitting, OnlyLimitPanics

LEMMA InvLoadCredentials == ASSUME Inv, LoadCredentials PROVE Inv'
<1>1. /\ pc = "credentials" /\ UNCHANGED inputs
      /\ Ends(IF Accepts(disk) THEN "policy" ELSE "error")
  BY Zenon DEF LoadCredentials
<1>2. /\ ValidConfig(config) /\ file # Unreadable /\ config.identity = Configured
      /\ expected = DerivedIdentity /\ expected # None
  BY <1>1, AfterValidate, Zenon DEF Inv, Validated, Derived
<1>3. CASE Accepts(disk)
  BY <1>1, <1>2, <1>3, InvEnds, Zenon DEF Validated, Derived, Loaded, Admitting
<1>4. CASE ~Accepts(disk)
  BY <1>1, <1>4, InvEnds, Zenon DEF Validated, Derived, Loaded, Admitting
<1>. QED  BY <1>3, <1>4, Zenon

\* The expected identity was read from the leaf by the time it is printed into
\* the policy: it is proper, also where it was made up from the trust domain.
LEMMA ExpectedProper ==
  ASSUME Inv, pc \in Loaded
  PROVE  expected \in Proper
<1>1. /\ disk \in Disks /\ Accepts(disk) /\ expected # None
  BY Zenon DEF Inv, Loaded
<1>. QED  BY <1>1, LeafProper, Zenon DEF Accepts

LEMMA InvBuildPolicy == ASSUME Inv, BuildPolicy PROVE Inv'
<1>1. pc = "policy" /\ UNCHANGED <<file, env, disk>>
  BY Zenon DEF BuildPolicy, inputs
<1>2. /\ ValidConfig(config) /\ file # Unreadable /\ config.identity = Configured
      /\ expected = DerivedIdentity /\ expected # None /\ Accepts(disk)
  BY <1>1, AfterValidate, Zenon DEF Inv, Validated, Derived, Loaded
<1>3. CompiledPattern(to_uri(expected)) = expected
  BY <1>1, ExpectedProper, ReadsBack, Zenon DEF Validated, Derived, Loaded
<1>4. /\ rule' = [source |-> expected, destination |-> expected]
      /\ fallback' = IF env.allow_all THEN "Allow" ELSE "Deny"
      /\ pc' = "discovery" /\ UNCHANGED <<config, expected, local_id>>
  BY <1>2, <1>3, Zenon DEF BuildPolicy
<1>5. /\ ValidConfig(config)' <=> ValidConfig(config)
      /\ DerivedIdentity' = DerivedIdentity
      /\ Accepts(disk)' <=> Accepts(disk)
      /\ Configured' = Configured
  BY <1>1, <1>4, Zenon DEF ValidConfig, DerivedIdentity, Accepts, Configured, InFile
<1>. QED  BY <1>1, <1>2, <1>4, <1>5, Zenon
          DEF Inv, Validated, Derived, Loaded, Admitting, OnlyLimitPanics

LEMMA InvBuildDiscovery == ASSUME Inv, BuildDiscovery PROVE Inv'
<1>1. pc = "discovery" /\ UNCHANGED inputs
  BY Zenon DEF BuildDiscovery
<1>2. /\ ValidConfig(config) /\ file # Unreadable /\ config.identity = Configured
      /\ expected = DerivedIdentity /\ expected # None /\ Accepts(disk)
      /\ rule = [source |-> expected, destination |-> expected]
      /\ fallback = IF env.allow_all THEN "Allow" ELSE "Deny"
  BY <1>1, AfterValidate, Zenon DEF Inv, Validated, Derived, Loaded, Admitting
<1>3. CASE Ends("inbound")
  BY <1>1, <1>2, <1>3, InvEnds, Zenon
<1>4. CASE Ends("error")
  BY <1>1, <1>4, InvEnds, Zenon DEF Validated, Derived, Loaded, Admitting
<1>. QED  BY <1>3, <1>4, Zenon DEF BuildDiscovery

LEMMA InvBuildProxy ==
  ASSUME Inv, NEW p, NEW next, BuildProxy(p, next),
         \/ p = "inbound" /\ next = "outbound"
         \/ p = "outbound" /\ next = "serving"
  PROVE  Inv'
<1>1. pc = p /\ UNCHANGED <<file, env, disk>> /\ UNCHANGED inputs
  BY Zenon DEF BuildProxy, inputs
<1>2. pc \in Admitting
  BY <1>1, Zenon DEF Validated, Derived, Loaded, Admitting
<1>3. /\ ValidConfig(config) /\ file # Unreadable /\ config.identity = Configured
      /\ expected = DerivedIdentity /\ expected # None /\ Accepts(disk)
      /\ rule = [source |-> expected, destination |-> expected]
      /\ fallback = IF env.allow_all THEN "Allow" ELSE "Deny"
  BY <1>2, AfterValidate, Zenon DEF Inv, Derived, Loaded, Admitting
<1>4. CASE config.max_connections > MaxPermits /\ Ends("panicked")
  BY <1>1, <1>4, InvEnds, Zenon DEF Validated, Derived, Loaded, Admitting
<1>5. CASE /\ local_id' = [local_id EXCEPT ![p] = DerivedIdentity] /\ pc' = next
           /\ UNCHANGED <<config, expected, rule, fallback>>
  <2>1. /\ ValidConfig(config)' <=> ValidConfig(config)
        /\ DerivedIdentity' = DerivedIdentity
        /\ Accepts(disk)' <=> Accepts(disk)
        /\ Configured' = Configured
    BY <1>1, <1>5, Zenon DEF ValidConfig, DerivedIdentity, Accepts, Configured, InFile
  <2>2. /\ DOMAIN local_id' = Proxies /\ local_id'[p] = expected
        /\ p = "outbound" => local_id'["inbound"] = expected
    <3>1. DOMAIN local_id = Proxies /\ p \in Proxies
      BY Zenon DEF Inv, Proxies
    <3>2. p = "outbound" => local_id["inbound"] = expected
      BY <1>1, Zenon DEF Inv
    <3>. QED  BY <1>3, <1>5, <3>1, <3>2 DEF Proxies
  <2>. QED  BY <1>1, <1>3, <1>5, <2>1, <2>2, Zenon
            DEF Inv, Validated, Derived, Loaded, Admitting, OnlyLimitPanics
<1>. QED  BY <1>3, <1>4, <1>5, Zenon DEF BuildProxy

LEMMA InvNext == Inv /\ [Next]_vars => Inv'
<1> SUFFICES ASSUME Inv, [Next]_vars PROVE Inv'
  BY Zenon
<1>1. CASE Next
  <2>1. CASE BuildProxy("inbound", "outbound")  BY <2>1, InvBuildProxy
  <2>2. CASE BuildProxy("outbound", "serving")  BY <2>2, InvBuildProxy
  <2>. QED
    BY <1>1, <2>1, <2>2, InvLoadFile, InvLoadEnv, InvValidate, InvDeriveIdentity,
       InvLoadCredentials, InvBuildPolicy, InvBuildDiscovery, Zenon DEF Next
<1>2. CASE UNCHANGED vars
  <2>1. UNCHANGED <<pc, file, env, disk, config, expected, rule, fallback, local_id>>
    BY <1>2, Zenon DEF vars
  <2>2. /\ ValidConfig(config)' <=> ValidConfig(config)
        /\ DerivedIdentity' = DerivedIdentity
        /\ Accepts(disk)' <=> Accepts(disk)
        /\ Configured' = Configured /\ InFile' = InFile
    BY <2>1, Zenon DEF ValidConfig, DerivedIdentity, Accepts, Configured, InFile
  <2>. QED  BY <2>1, <2>2, ZenonT(40) DEF Inv, OnlyLimitPanics
<1>. QED  BY <1>1, <1>2, Zenon

-----------------------------------------------------------------------------
(* Theorems *)

LEMMA InvAlways == Spec => []Inv
<1>1. Init => Inv
  BY InvInit, Zenon
<1>2. Inv /\ [Next]_vars => Inv'
  BY InvNext, Zenon
<1>. QED  BY <1>1, <1>2, PTL DEF Spec

\* No expect or unwrap on the way to serving fails, whatever the configuration
\* and the credential files: main() and the proxies panic only in Semaphore::new,
\* on a limit that Config::validate lets through.
THEOREM StartPanicsOnlyAtLimit == Spec => []OnlyLimitPanics
<1>1. Inv => OnlyLimitPanics
  BY Zenon DEF Inv
<1>. QED  BY <1>1, InvAlways, PTL

\* The leaf, the expected identity and both proxies' local_id agree when the
\* process serves, and the identity survives being printed and parsed.
THEOREM ServingHasOneIdentity == Spec => []OneIdentity
<1>1. Inv => OneIdentity
  <2> SUFFICES ASSUME Inv, pc = "serving" PROVE OneIdentity
    BY Zenon DEF OneIdentity
  <2>1. pc \in Loaded
    BY Zenon DEF Validated, Derived, Loaded
  <2>2. from_uri(to_uri(expected)) = expected
    BY <2>1, ExpectedProper, ReadsBack, Zenon
  <2>3. spiffe_id_from_cert_der(disk.cert) = expected
    BY <2>1, Zenon DEF Inv, Accepts
  <2>4. \A p \in Proxies : local_id[p] = expected
    BY Zenon DEF Inv, Proxies
  <2>. QED  BY <2>2, <2>3, <2>4, Zenon DEF OneIdentity
<1>. QED  BY <1>1, InvAlways, PTL

\* The identity in the environment, else the one in the file, is the one a serving
\* process has: the default service account stands in only where neither is set.
THEOREM ConfiguredIdentityIsUsed == Spec => []ConfiguredIdentityKept
<1>1. Inv => ConfiguredIdentityKept
  <2> SUFFICES ASSUME Inv, pc = "serving", Configured # None
               PROVE  expected = from_uri(Configured)
    <3>1. Inv /\ pc = "serving" => file # Unreadable
      BY Zenon DEF Inv, Validated
    <3>. QED  BY <3>1, Zenon DEF ConfiguredIdentityKept, Configured, InFile
  <2>1. /\ config.identity = Configured /\ expected = DerivedIdentity /\ ValidConfig(config)
    BY Zenon DEF Inv, Validated, Derived
  <2>. QED  BY <2>1, Zenon DEF DerivedIdentity, ValidConfig
<1>. QED  BY <1>1, InvAlways, PTL

\* A proper identity matches itself as a pattern, and otherwise identities of its
\* trust domain, provided that there is a star in it.
LEMMA MatchesItself ==
  ASSUME NEW id \in Proper, NEW peer \in Proper
  PROVE  /\ peer = id => matches_compiled(peer, id)
         /\ matches_compiled(peer, id) => /\ peer.trust_domain = id.trust_domain
                                          /\ peer = id \/ IsGlob(id)
<1>1. PICK td \in DomainParts, ns \in PathParts, sa \in PathParts : id = Id(td, ns, sa)
  BY ProperParts, Zenon
<1>2. PICK td2 \in DomainParts, ns2 \in PathParts, sa2 \in PathParts : peer = Id(td2, ns2, sa2)
  BY ProperParts, Zenon
<1>3. /\ id.trust_domain = <<td>> /\ id.namespace = <<ns>> /\ id.service_account = <<sa>>
      /\ peer.trust_domain = <<td2>> /\ peer.namespace = <<ns2>> /\ peer.service_account = <<sa2>>
  BY <1>1, <1>2 DEF Id
<1>4. /\ ns \in Segments /\ sa \in Segments /\ ns2 \in Segments /\ sa2 \in Segments
      /\ <<td>> # Empty
  BY <1>1, <1>2, OneSegment, Zenon DEF DomainParts, PathParts
<1>5. /\ <<ns>>[1] = ns /\ <<sa>>[1] = sa /\ <<ns2>>[1] = ns2 /\ <<sa2>>[1] = sa2
      /\ <<td>> = <<td2>> <=> td = td2
  OBVIOUS
<1>6. matches_compiled(peer, id) <=> <<td>> = <<td2>> /\ ns2 \in Matched[ns] /\ sa2 \in Matched[sa]
  BY <1>3, <1>4, <1>5, Zenon DEF matches_compiled, GlobMatches
<1>7. IsGlob(id) <=> ns \in Starred \/ sa \in Starred
  BY <1>3, <1>5, Zenon DEF IsGlob
<1>8. /\ ns \in Matched[ns] /\ sa \in Matched[sa]
      /\ ns2 \in Matched[ns] => ns2 = ns \/ ns \in Starred
      /\ sa2 \in Matched[sa] => sa2 = sa \/ sa \in Starred
  <2>1. \A s \in Segments : s \in Matched[s] /\ (s \notin Starred => Matched[s] = {s})
    BY SegmentAssumption, Zenon
  <2>. QED  BY <1>4, <2>1, Zenon
<1>9. peer = id => ns2 = ns /\ sa2 = sa /\ td2 = td
  BY <1>3, <1>5, Zenon
<1>10. ns2 = ns /\ sa2 = sa /\ td2 = td => peer = id
  BY <1>1, <1>2, Zenon
<1>. QED  BY <1>3, <1>5, <1>6, <1>7, <1>8, <1>9, <1>10, Zenon

\* The identities certificates carry are proper.
LEMMA PeerProper ==
  ASSUME NEW td \in Segments, NEW ns \in Segments, NEW sa \in Segments, PeerId(td, ns, sa) # None
  PROVE  PeerId(td, ns, sa) \in Proper
<1> DEFINE t == <<td, "ns", ns, "sa", sa>>
<1>1. t \in Texts
  <2>1. "ns" \in Segments /\ "sa" \in Segments
    BY SegmentAssumption, Zenon
  <2>2. t \in Seq(Segments) /\ Len(t) = 5
    BY <2>1
  <2>3. t # <<>>
    OBVIOUS
  <2>. QED  BY <2>2, <2>3, Zenon DEF Texts
<1> HIDE DEF t
<1>2. [spiffe |-> TRUE, text |-> t] \in Uris
  BY <1>1 DEF Uris
<1>3. PeerId(td, ns, sa) = from_uri([spiffe |-> TRUE, text |-> t])
  BY Zenon DEF PeerId, t
<1>. QED  BY <1>2, <1>3, FromUriProper, Zenon

\* The rule that main() compiles from its own URI admits, in both directions, the
\* peers of its own identity, none of another trust domain, and no others at all
\* unless the identity holds a wildcard.
THEOREM PolicyAdmitsReplicasOnly == Spec => []OnlyReplicasAllowed
<1>1. Inv => OnlyReplicasAllowed
  <2> SUFFICES ASSUME Inv, pc = "serving", ~env.allow_all,
                      NEW td \in Segments, NEW ns \in Segments, NEW sa \in Segments,
                      PeerId(td, ns, sa) # None
               PROVE  LET peer == PeerId(td, ns, sa) IN
                      /\ peer = expected => /\ Allowed(peer, local_id["inbound"])
                                            /\ Allowed(local_id["outbound"], peer)
                      /\ PeerAllowed(peer) => /\ peer.trust_domain = expected.trust_domain
                                              /\ peer = expected \/ IsGlob(expected)
    BY Zenon DEF OnlyReplicasAllowed
  <2> DEFINE peer == PeerId(td, ns, sa)
  <2>1. pc \in Loaded /\ pc \in Admitting
    BY Zenon DEF Validated, Derived, Loaded, Admitting
  <2>2. expected \in Proper /\ peer \in Proper
    BY <2>1, ExpectedProper, PeerProper, Zenon
  <2>3. /\ matches_compiled(expected, expected)
        /\ matches_compiled(peer, expected) =>
             /\ peer.trust_domain = expected.trust_domain
             /\ peer = expected \/ IsGlob(expected)
    BY <2>2, MatchesItself, Zenon
  <2>4. /\ local_id["inbound"] = expected /\ local_id["outbound"] = expected
        /\ rule = [source |-> expected, destination |-> expected] /\ fallback = "Deny"
    BY <2>1, Zenon DEF Inv
  <2>5. rule.source = expected /\ rule.destination = expected /\ fallback # "Allow"
    BY <2>4
  <2>. QED  BY <2>3, <2>4, <2>5, Zenon DEF Allowed, PeerAllowed
<1>. QED  BY <1>1, InvAlways, PTL

=============================================================================
