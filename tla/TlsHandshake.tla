---------------------------- MODULE TlsHandshake ----------------------------
(***************************************************************************)
(* TLS handshakes of both directions: the generation a handshake loads,    *)
(* full and resumed sessions, and the peer's identity, taken from a cache  *)
(* that all generations share.                                             *)
(*                                                                         *)
(* A certificate stands for its DER bytes, the key of that cache.          *)
(***************************************************************************)
EXTENDS SpiffeIdentity, FiniteSets

CONSTANTS
  Conns,          \* connections
  Certs,          \* the leaves peers present
  MaxGeneration,  \* bound: the last generation a reload publishes
  RootsOf,        \* RootsOf[g]: the roots of generation g's bundle
  LocalId         \* the identity the process runs under

Generations == 0..MaxGeneration
Sides == {"accept", "connect"}

ASSUME HandshakeAssumption ==
  /\ MaxGeneration \in Nat
  /\ LocalId \in SpiffeId
  /\ None \notin Certs

VARIABLES
  generation,  \* the published generation
  sessions,    \* the sessions that can be resumed: those of each generation's
               \* server and client, with the leaf their full handshake verified
  cache,       \* IDENTITY_CACHE: the identities of some leaves
  hs,          \* hs[c]: where the handshake is
  side,        \* side[c]: who calls, TlsServer::accept or TlsClient::connect
  gen,         \* gen[c]: the generation it loaded
  leaf,        \* leaf[c]: the peer's certificate
  peer         \* peer[c]: peer_identity

shared == <<generation, sessions, cache>>
tlsVars == <<shared, hs, side, gen, leaf, peer>>

HsPCs == {"idle", "tcp", "tls", "extract", "parse", "established", "failed"}

TlsTypeOK ==
  /\ generation \in Generations
  /\ sessions \subseteq [gen : Generations, side : Sides, leaf : Certs]
  /\ DOMAIN cache \subseteq Certs
  /\ \A l \in DOMAIN cache : cache[l] \in SpiffeId
  /\ hs \in [Conns -> HsPCs]
  /\ side \in [Conns -> Sides \cup {None}]
  /\ gen \in [Conns -> Generations \cup {None}]
  /\ leaf \in [Conns -> Certs \cup {None}]
  /\ peer \in [Conns -> SpiffeId \cup {None}]

TlsInit ==
  /\ generation = 0
  /\ sessions = {}
  /\ cache = <<>>
  /\ hs = [c \in Conns |-> "idle"]
  /\ side = [c \in Conns |-> None]
  /\ gen = [c \in Conns |-> None]
  /\ leaf = [c \in Conns |-> None]
  /\ peer = [c \in Conns |-> None]

-----------------------------------------------------------------------------
\* A reload publishes the next generation, with session stores of its own.
Publish ==
  /\ generation < MaxGeneration
  /\ generation' = generation + 1
  /\ UNCHANGED <<sessions, cache, hs, side, gen, leaf, peer>>

\* TlsCredentialReloader::connect and accept load the generation once.
LoadGeneration(c, s) ==
  /\ hs[c] = "idle"
  /\ side' = [side EXCEPT ![c] = s]
  /\ gen' = [gen EXCEPT ![c] = generation]
  /\ hs' = [hs EXCEPT ![c] = IF s = "connect" THEN "tcp" ELSE "tls"]
  /\ UNCHANGED <<shared, leaf, peer>>

\* Mutant: a generation published during the TCP connect is taken up.
ConnectedReloading(c) ==
  /\ hs[c] = "tcp"
  /\ gen' = [gen EXCEPT ![c] = generation]
  /\ hs' = [hs EXCEPT ![c] = "tls"]
  /\ UNCHANGED <<shared, side, leaf, peer>>

Connected(c) ==
  /\ hs[c] = "tcp"
  /\ hs' = [hs EXCEPT ![c] = "tls"]
  /\ UNCHANGED <<shared, side, gen, leaf, peer>>

\* The connect or the handshake fails, or the handshake times out.
HandshakeFails(c) ==
  /\ hs[c] \in {"tcp", "tls"}
  /\ hs' = [hs EXCEPT ![c] = "failed"]
  /\ UNCHANGED <<shared, side, gen, leaf, peer>>

\* The verifiers: the server's checks the path alone, the client's the trust
\* domain too.
Verifies(s, g, l) ==
  /\ l.issuer \in RootsOf[g]
  /\ s = "connect" => LET id == spiffe_id_from_cert_der(l)
                      IN id # None /\ id.trust_domain = LocalId.trust_domain

\* A full handshake leaves a session that can be resumed.
FullHandshake(c, l) ==
  /\ hs[c] = "tls"
  /\ Verifies(side[c], gen[c], l)
  /\ leaf' = [leaf EXCEPT ![c] = l]
  /\ sessions' = sessions \cup {[gen |-> gen[c], side |-> side[c], leaf |-> l]}
  /\ hs' = [hs EXCEPT ![c] = "extract"]
  /\ UNCHANGED <<generation, cache, side, gen, peer>>

\* Mutant: the session stores outlive their generation.
ResumedFromAnyGeneration(c, s) ==
  /\ hs[c] = "tls"
  /\ s \in sessions
  /\ s.side = side[c]
  /\ leaf' = [leaf EXCEPT ![c] = s.leaf]
  /\ hs' = [hs EXCEPT ![c] = "extract"]
  /\ UNCHANGED <<shared, side, gen, peer>>

\* A resumed handshake takes the certificate of its session, unverified.
ResumedHandshake(c, s) ==
  /\ hs[c] = "tls"
  /\ s \in sessions
  /\ s.gen = gen[c]
  /\ s.side = side[c]
  /\ leaf' = [leaf EXCEPT ![c] = s.leaf]
  /\ hs' = [hs EXCEPT ![c] = "extract"]
  /\ UNCHANGED <<shared, side, gen, peer>>

-----------------------------------------------------------------------------
\* extract_identity_from_tls_stream

\* Mutant: the cache is keyed by what names a leaf's subject, which is empty.
CacheLookupBySubject(c) ==
  /\ hs[c] = "extract"
  /\ IF DOMAIN cache # {}
     THEN /\ \E l \in DOMAIN cache : peer' = [peer EXCEPT ![c] = cache[l]]
          /\ hs' = [hs EXCEPT ![c] = "established"]
     ELSE /\ hs' = [hs EXCEPT ![c] = "parse"]
          /\ UNCHANGED peer
  /\ UNCHANGED <<shared, side, gen, leaf>>

CacheLookup(c) ==
  /\ hs[c] = "extract"
  /\ IF leaf[c] \in DOMAIN cache
     THEN /\ peer' = [peer EXCEPT ![c] = cache[leaf[c]]]
          /\ hs' = [hs EXCEPT ![c] = "established"]
     ELSE /\ hs' = [hs EXCEPT ![c] = "parse"]
          /\ UNCHANGED peer
  /\ UNCHANGED <<shared, side, gen, leaf>>

\* A leaf without a SPIFFE URI ends the handshake and is not cached.
ParseLeaf(c) ==
  LET id == spiffe_id_from_cert_der(leaf[c]) IN
  /\ hs[c] = "parse"
  /\ IF id = None
     THEN /\ hs' = [hs EXCEPT ![c] = "failed"]
          /\ UNCHANGED <<cache, peer>>
     ELSE /\ peer' = [peer EXCEPT ![c] = id]
          /\ cache' = [l \in DOMAIN cache \cup {leaf[c]} |->
                        IF l = leaf[c] THEN id ELSE cache[l]]
          /\ hs' = [hs EXCEPT ![c] = "established"]
  /\ UNCHANGED <<generation, sessions, side, gen, leaf>>

\* The cache is bounded and drops entries as it sees fit.
Evict(l) ==
  /\ l \in DOMAIN cache
  /\ cache' = [k \in DOMAIN cache \ {l} |-> cache[k]]
  /\ UNCHANGED <<generation, sessions, hs, side, gen, leaf, peer>>

HandshakeStep(c) ==
  \/ \E s \in Sides : LoadGeneration(c, s)
  \/ Connected(c)
  \/ HandshakeFails(c)
  \/ \E l \in Certs : FullHandshake(c, l)
  \/ \E s \in sessions : ResumedHandshake(c, s)
  \/ CacheLookup(c)
  \/ ParseLeaf(c)

-----------------------------------------------------------------------------
\* The peer of a handshake, full or resumed, holds a certificate that the roots
\* of the generation it loaded vouch for, and on the connecting side one of the
\* own trust domain: neither a session nor a cached identity of an earlier
\* generation gets a peer past a reload that changed the roots.
PeerVerified ==
  \A c \in Conns :
    leaf[c] # None =>
      /\ leaf[c].issuer \in RootsOf[gen[c]]
      /\ side[c] = "connect" /\ hs[c] = "established" =>
           peer[c].trust_domain = LocalId.trust_domain

\* The handshakes use of the reloader what CredentialRegister promises, no more:
\* each reads the generation in force once and keeps to it.
AnyGeneration(g) == TRUE
LaterGeneration(g, h) == h <= g

Register == INSTANCE CredentialRegister
  WITH Users <- Conns, Values <- Generations, Acceptable <- AnyGeneration,
       NotOlderThan <- LaterGeneration, current <- generation, used <- gen

UsesRegister == Register!Spec
=============================================================================
