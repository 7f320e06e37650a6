------------------------------- MODULE Startup -------------------------------
(***************************************************************************)
(* main() up to the point where both proxies serve: the layers of the      *)
(* configuration, the workload's identity, the first TLS credentials, the  *)
(* policy that admits its replicas, and the two proxies.  Each of the last *)
(* four derives the identity it needs for itself.  ProxyLifecycle takes    *)
(* over from here.                                                         *)
(*                                                                         *)
(* The fields of the configuration that only choose a file, a port or a    *)
(* log level are left out; one port stands for the three.                  *)
(***************************************************************************)
EXTENDS SpiffeIdentity, Integers

CONSTANTS
  FileLayers,  \* what the config file may hold
  EnvLayers,   \* what the environment may hold
  Disks,       \* what the three credential files may hold
  MaxPermits,  \* the most permits a tokio Semaphore takes
  Unreadable   \* a file or a number that does not parse

Fields == {"trust_domain", "identity", "max_connections", "port"}
Proxies == {"inbound", "outbound"}

ASSUME StartupAssumption ==
  /\ "cluster.local" \in Segments \ NotInAuthority
  /\ ToLower["cluster.local"] = "cluster.local"
  /\ MaxPermits \in Nat
  /\ FileLayers \ {None, Unreadable} \subseteq
       [trust_domain : Texts, identity : Uris \cup {None}, max_connections : Nat, port : Nat]
  /\ EnvLayers \subseteq
       [trust_domain : Texts \cup {None}, identity : Uris \cup {None},
        max_connections : Nat \cup {None, Unreadable}, port : Nat \cup {None, Unreadable},
        allow_all : BOOLEAN]
  /\ \A d \in Disks \ {Unreadable} :
       d.cert.san \in Seq([type : {"uri"}, uri : Uris] \cup [type : {"dns"}])
  /\ None \notin SpiffeId

VARIABLES
  pc,        \* the step main() is at
  file,      \* the config file: None, Unreadable, or the fields it sets
  env,       \* the environment: the fields it sets, and INTERLINK_ALLOW_ALL
  disk,      \* the credential files
  config,    \* the configuration so far
  expected,  \* the identity the credentials must carry
  rule,      \* the global policy: one rule that allows, or None yet
  fallback,  \* default_decision
  local_id   \* local_id[p]: the identity proxy p takes itself for

vars == <<pc, file, env, disk, config, expected, rule, fallback, local_id>>
inputs == <<file, env, disk>>

PCs == {"file", "env", "validate", "identity", "credentials", "policy", "discovery",
        "inbound", "outbound", "serving", "error", "panicked"}

TypeOK ==
  /\ pc \in PCs
  /\ config.trust_domain \in Texts
  /\ config.identity \in Uris \cup {None}
  /\ config.max_connections \in Nat
  /\ config.port \in Nat
  /\ expected \in SpiffeId \cup {None}
  /\ fallback \in {"Allow", "Deny"}
  /\ local_id \in [Proxies -> SpiffeId \cup {None}]

Default ==
  [trust_domain |-> <<"cluster.local">>, identity |-> None, max_connections |-> 1024,
   port |-> 4143]

Init ==
  /\ pc = "file"
  /\ file \in FileLayers
  /\ env \in EnvLayers
  /\ disk \in Disks
  /\ config = Default
  /\ expected = None
  /\ rule = None
  /\ fallback = "Deny"
  /\ local_id = [p \in Proxies |-> None]

\* An error leaves main(), a panic aborts the process.
Ends(how) ==
  /\ pc' = how
  /\ UNCHANGED <<config, expected, rule, fallback, local_id>>

-----------------------------------------------------------------------------
\* Config::load

\* Every field but identity must be in the file.
with_file(c) == [f \in Fields |-> IF f = "identity" /\ file[f] = None THEN c[f] ELSE file[f]]

with_env(c) == [f \in Fields |-> IF env[f] = None THEN c[f] ELSE env[f]]

LoadFile ==
  /\ pc = "file"
  /\ \/ /\ file = Unreadable
        /\ Ends("error")
     \/ /\ file # Unreadable
        /\ config' = IF file = None THEN config ELSE with_file(config)
        /\ pc' = "env"
        /\ UNCHANGED <<expected, rule, fallback, local_id>>
  /\ UNCHANGED inputs

LoadEnv ==
  /\ pc = "env"
  /\ \/ /\ \E f \in Fields : env[f] = Unreadable
        /\ Ends("error")
     \/ /\ \A f \in Fields : env[f] # Unreadable
        /\ config' = with_env(config)
        /\ pc' = "validate"
        /\ UNCHANGED <<expected, rule, fallback, local_id>>
  /\ UNCHANGED inputs

\* Mutant: the identity is left to those who use it.
ValidConfigAnyIdentity(c) ==
  /\ c.trust_domain # Empty
  /\ c.max_connections > 0

ValidConfig(c) ==
  /\ c.trust_domain # Empty
  /\ c.max_connections > 0
  /\ c.identity # None => from_uri(c.identity) # None

Validate ==
  /\ pc = "validate"
  /\ Ends(IF ValidConfig(config) THEN "identity" ELSE "error")
  /\ UNCHANGED inputs

-----------------------------------------------------------------------------
\* The identity main() expects, and each proxy's local_id: the configured one
\* where it parses, else the default service account of the trust domain.
DerivedIdentity ==
  LET configured == IF config.identity = None THEN None ELSE from_uri(config.identity)
  IN IF configured # None THEN configured
     ELSE try_new(config.trust_domain, <<"default">>, <<"proxy">>)

DeriveIdentity ==
  /\ pc = "identity"
  /\ \/ /\ DerivedIdentity = None
        /\ Ends("panicked")
     \/ /\ DerivedIdentity # None
        /\ expected' = DerivedIdentity
        /\ pc' = "credentials"
        /\ UNCHANGED <<config, rule, fallback, local_id>>
  /\ UNCHANGED inputs

\* Mutant: the certificate's identity is not looked at.
AcceptsAnyLeaf(d) ==
  /\ d # Unreadable
  /\ d.cert.issuer \in d.roots
  /\ d.key_matches

\* build_generation: the files parse, the leaf carries the expected identity and
\* chains to the bundle, in whose trust domain it then is, and the key is its own.
Accepts(d) ==
  /\ d # Unreadable
  /\ spiffe_id_from_cert_der(d.cert) = expected
  /\ d.cert.issuer \in d.roots
  /\ d.key_matches

LoadCredentials ==
  /\ pc = "credentials"
  /\ Ends(IF Accepts(disk) THEN "policy" ELSE "error")
  /\ UNCHANGED inputs

\* Mutant: the rule admits the whole namespace.
BuildPolicyNamespace ==
  /\ pc = "policy"
  /\ rule' = LET p == [CompiledPattern(to_uri(expected)) EXCEPT !.service_account = <<"*">>]
             IN [source |-> p, destination |-> p]
  /\ fallback' = IF env.allow_all THEN "Allow" ELSE "Deny"
  /\ pc' = "discovery"
  /\ UNCHANGED <<config, expected, local_id>>
  /\ UNCHANGED inputs

\* patterns::allow unwraps the two patterns it compiles.
BuildPolicy ==
  /\ pc = "policy"
  /\ LET pattern == CompiledPattern(to_uri(expected)) IN
     \/ /\ pattern = None
        /\ Ends("panicked")
     \/ /\ pattern # None
        /\ rule' = [source |-> pattern, destination |-> pattern]
        /\ fallback' = IF env.allow_all THEN "Allow" ELSE "Deny"
        /\ pc' = "discovery"
        /\ UNCHANGED <<config, expected, local_id>>
  /\ UNCHANGED inputs

\* ServiceDiscovery::new reads the system's resolver configuration.
BuildDiscovery ==
  /\ pc = "discovery"
  /\ \E outcome \in {"inbound", "error"} : Ends(outcome)
  /\ UNCHANGED inputs

\* Mutant: a proxy that has no configured identity takes the default domain's.
BuildProxyDefaultDomain(p, next) ==
  /\ pc = p
  /\ local_id' = [local_id EXCEPT ![p] =
                    IF config.identity # None THEN DerivedIdentity
                    ELSE try_new(Default.trust_domain, <<"default">>, <<"proxy">>)]
  /\ pc' = next
  /\ UNCHANGED <<config, expected, rule, fallback>>
  /\ UNCHANGED inputs

\* new_with_discovery of either proxy: Semaphore::new asserts its bound.
BuildProxy(p, next) ==
  /\ pc = p
  /\ \/ /\ DerivedIdentity = None \/ config.max_connections > MaxPermits
        /\ Ends("panicked")
     \/ /\ DerivedIdentity # None
        /\ config.max_connections <= MaxPermits
        /\ local_id' = [local_id EXCEPT ![p] = DerivedIdentity]
        /\ pc' = next
        /\ UNCHANGED <<config, expected, rule, fallback>>
  /\ UNCHANGED inputs

Next ==
  \/ LoadFile
  \/ LoadEnv
  \/ Validate
  \/ DeriveIdentity
  \/ LoadCredentials
  \/ BuildPolicy
  \/ BuildDiscovery
  \/ BuildProxy("inbound", "outbound")
  \/ BuildProxy("outbound", "serving")

Spec == Init /\ [][Next]_vars

-----------------------------------------------------------------------------
\* The expects and unwraps on the way (of the derived identity in main() and in
\* both proxies, of the patterns in patterns::allow) are never reached, whatever
\* the configuration: what they need was checked by Config::validate or by the
\* comparison with the certificate.  The one panic left is the semaphore's, for a
\* max_connections that validate() lets through.
OnlyLimitPanics == pc = "panicked" => config.max_connections > MaxPermits

\* A process that serves has one identity: the certificate on disk, the reloader
\* and both proxies agree on it, and it reads back from its own URI.
OneIdentity ==
  pc = "serving" =>
    /\ spiffe_id_from_cert_der(disk.cert) = expected
    /\ \A p \in Proxies : local_id[p] = expected
    /\ from_uri(to_uri(expected)) = expected

\* An identity someone configured is used or the start fails: the fallback to
\* the default service account never replaces it.
ConfiguredIdentityKept ==
  LET set == IF env.identity # None THEN env.identity
             ELSE IF file \in {None, Unreadable} THEN None ELSE file.identity
  IN pc = "serving" /\ set # None => expected = from_uri(set)

\* The identity a certificate with such a URI carries, or None.
PeerId(td, ns, sa) == from_uri([spiffe |-> TRUE, text |-> <<td, "ns", ns, "sa", sa>>])

Allowed(source, destination) ==
  \/ fallback = "Allow"
  \/ matches_compiled(source, rule.source) /\ matches_compiled(destination, rule.destination)

\* Whether the policy lets a peer call this process, or be called by it.
PeerAllowed(peer) == Allowed(peer, local_id["inbound"]) \/ Allowed(local_id["outbound"], peer)

\* An identity that the rule's pattern, compiled from it, reads as wildcards.
IsGlob(id) == id.namespace[1] \in Starred \/ id.service_account[1] \in Starred

\* Without INTERLINK_ALLOW_ALL a serving process exchanges traffic with the peers
\* that have its own identity, in both directions, and with no others.  When there
\* is a * in its namespace or service account, which from_uri accepts, the others
\* that the wildcard stands for are let in too, of the same trust domain always.
OnlyReplicasAllowed ==
  pc = "serving" /\ ~env.allow_all =>
    \A td, ns, sa \in Segments :
      LET peer == PeerId(td, ns, sa) IN
      peer # None =>
        /\ peer = expected => /\ Allowed(peer, local_id["inbound"])
                              /\ Allowed(local_id["outbound"], peer)
        /\ PeerAllowed(peer) => /\ peer.trust_domain = expected.trust_domain
                                /\ peer = expected \/ IsGlob(expected)
=============================================================================
