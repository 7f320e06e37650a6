------------------------ MODULE PeerAdmissionProofs ------------------------
(***************************************************************************)
(* Proofs about PeerAdmission, for any number of connections, leaves,      *)
(* generations and rules: who the peer of a handshake is, that the policy  *)
(* judges that peer, and what a decision made in two reads amounts to.     *)
(*                                                                         *)
(* How a leaf's identity is read plays no part: spiffe_id_from_cert_der    *)
(* is never expanded.                                                      *)
(***************************************************************************)
EXTENDS PeerAdmission, NaturalsInduction, WellFoundedInduction, TLAPS

HsTypes ==
  /\ generation \in Generations
  /\ hs \in [Conns -> HsPCs]
  /\ DOMAIN side = Conns
  /\ gen \in [Conns -> Generations \cup {None}]
  /\ leaf \in [Conns -> Certs \cup {None}]
  /\ DOMAIN peer = Conns

\* A handshake has a leaf once it is past the TLS exchange, and a generation once
\* it has begun.
Progress ==
  \A c \in Conns :
    /\ hs[c] \in {"idle", "tcp", "tls"} => leaf[c] = None
    /\ hs[c] \in {"extract", "parse", "established"} => leaf[c] # None
    /\ hs[c] = "idle" => gen[c] = None

\* Every session is one that a full handshake of its generation verified, and so
\* is the leaf of every handshake.
Verified ==
  /\ \A s \in sessions : s.leaf \in Certs /\ Verifies(s.side, s.gen, s.leaf)
  /\ \A c \in Conns : leaf[c] # None => Verifies(side[c], gen[c], leaf[c])

\* The cache and the handshakes name no one but the owner of the leaf.
Identified ==
  /\ \A l \in DOMAIN cache : cache[l] = spiffe_id_from_cert_der(l)
  /\ \A c \in Conns : hs[c] = "established" => peer[c] = spiffe_id_from_cert_der(leaf[c])

HsInv == HsTypes /\ Progress /\ Verified /\ Identified

-----------------------------------------------------------------------------
LEMMA HsInit == Init => HsInv
<1> SUFFICES ASSUME Init PROVE HsInv  BY Zenon
<1>1. 0 \in Generations  BY HandshakeAssumption DEF Generations
<1>. QED
  BY <1>1 DEF Init, TlsInit, HsInv, HsTypes, Progress, Verified, Identified, HsPCs

\* What a step of one handshake leaves alone: the others.
LEMMA HsOthers ==
  ASSUME HsTypes, NEW c \in Conns, HandshakeStep(c)
  PROVE  \A d \in Conns \ {c} : /\ hs'[d] = hs[d]
                                /\ side'[d] = side[d]
                                /\ gen'[d] = gen[d]
                                /\ leaf'[d] = leaf[d]
                                /\ peer'[d] = peer[d]
<1>1. CASE \E s \in Sides : LoadGeneration(c, s)
  BY <1>1, Zenon DEF HsTypes, LoadGeneration
<1>2. CASE Connected(c) \/ HandshakeFails(c)
  BY <1>2, Zenon DEF HsTypes, Connected, HandshakeFails
<1>3. CASE \E l \in Certs : FullHandshake(c, l)
  BY <1>3, Zenon DEF HsTypes, FullHandshake
<1>4. CASE \E s \in sessions : ResumedHandshake(c, s)
  BY <1>4, Zenon DEF HsTypes, ResumedHandshake
<1>5. CASE CacheLookup(c)
  BY <1>5, Zenon DEF HsTypes, CacheLookup
<1>6. CASE ParseLeaf(c)
  BY <1>6, Zenon DEF HsTypes, ParseLeaf
<1>. QED  BY <1>1, <1>2, <1>3, <1>4, <1>5, <1>6, Zenon DEF HandshakeStep

LEMMA HsStep ==
  ASSUME HsInv, NEW c \in Conns, HandshakeStep(c)
  PROVE  HsInv'
<1> USE DEF HsInv
<1>0. \A d \in Conns \ {c} : /\ hs'[d] = hs[d]
                             /\ side'[d] = side[d]
                             /\ gen'[d] = gen[d]
                             /\ leaf'[d] = leaf[d]
                             /\ peer'[d] = peer[d]
  BY HsOthers, Zenon
<1>1. ASSUME NEW s \in Sides, LoadGeneration(c, s) PROVE HsInv'
  <2>1. /\ HsTypes'
        /\ hs[c] = "idle" /\ hs'[c] \in {"tcp", "tls"} /\ leaf'[c] = leaf[c]
        /\ sessions' = sessions /\ cache' = cache
    BY <1>1, Zenon DEF HsTypes, LoadGeneration, HsPCs, shared
  <2>. QED  BY <1>0, <2>1, Zenon DEF Progress, Verified, Identified
<1>2. CASE Connected(c) \/ HandshakeFails(c)
  <2>1. /\ HsTypes'
        /\ hs[c] \in {"tcp", "tls"} /\ hs'[c] \in {"tls", "failed"}
        /\ UNCHANGED <<sessions, cache, side, gen, leaf, peer>>
    BY <1>2, Zenon DEF HsTypes, Connected, HandshakeFails, HsPCs, shared
  <2>. QED  BY <1>0, <2>1, Zenon DEF Progress, Verified, Identified
<1>3. ASSUME NEW l \in Certs, FullHandshake(c, l) PROVE HsInv'
  <2>1. /\ HsTypes'
        /\ hs[c] = "tls" /\ hs'[c] = "extract" /\ leaf'[c] = l
        /\ Verifies(side[c], gen[c], l)
        /\ sessions' = sessions \cup {[gen |-> gen[c], side |-> side[c], leaf |-> l]}
        /\ UNCHANGED <<cache, side, gen, peer>>
    BY <1>3, Zenon DEF HsTypes, FullHandshake, HsPCs
  <2>2. Progress' /\ Identified'
    BY <1>0, <2>1, HandshakeAssumption, Zenon DEF Progress, Identified
  <2>3. \A s \in sessions' : s.leaf \in Certs /\ Verifies(s.side, s.gen, s.leaf)
    BY <2>1 DEF Verified
  <2>. QED  BY <1>0, <2>1, <2>2, <2>3, Zenon DEF Verified
<1>4. ASSUME NEW s \in sessions, ResumedHandshake(c, s) PROVE HsInv'
  <2>1. s.leaf \in Certs /\ Verifies(s.side, s.gen, s.leaf)
    BY Zenon DEF Verified
  <2>2. /\ HsTypes'
        /\ hs[c] = "tls" /\ hs'[c] = "extract" /\ leaf'[c] = s.leaf
        /\ s.gen = gen[c] /\ s.side = side[c]
        /\ UNCHANGED <<sessions, cache, side, gen, peer>>
    BY <1>4, <2>1, Zenon DEF HsTypes, ResumedHandshake, HsPCs, shared
  <2>. QED  BY <1>0, <2>1, <2>2, HandshakeAssumption DEF Progress, Verified, Identified
<1>5. CASE CacheLookup(c)
  <2>1. /\ HsTypes'
        /\ hs[c] = "extract"
        /\ \/ leaf[c] \in DOMAIN cache /\ peer'[c] = cache[leaf[c]] /\ hs'[c] = "established"
           \/ hs'[c] = "parse"
        /\ UNCHANGED <<sessions, cache, side, gen, leaf>>
    BY <1>5, Zenon DEF HsTypes, CacheLookup, HsPCs, shared
  <2>. QED  BY <1>0, <2>1, Zenon DEF Progress, Verified, Identified
<1>6. CASE ParseLeaf(c)
  <2>1. /\ HsTypes'
        /\ hs[c] = "parse"
        /\ \/ hs'[c] = "failed" /\ cache' = cache
           \/ /\ hs'[c] = "established"
              /\ peer'[c] = spiffe_id_from_cert_der(leaf[c])
              /\ cache' = [l \in DOMAIN cache \cup {leaf[c]} |->
                             IF l = leaf[c] THEN spiffe_id_from_cert_der(leaf[c])
                             ELSE cache[l]]
        /\ UNCHANGED <<sessions, side, gen, leaf>>
    BY <1>6, Zenon DEF HsTypes, ParseLeaf, HsPCs
  <2>2. \A l \in DOMAIN cache' : cache'[l] = spiffe_id_from_cert_der(l)
    BY <2>1, Zenon DEF Identified
  <2>. QED  BY <1>0, <2>1, <2>2 DEF Progress, Verified, Identified
<1>. QED  BY <1>1, <1>2, <1>3, <1>4, <1>5, <1>6, Zenon DEF HandshakeStep

LEMMA HsNext == HsInv /\ [Next]_vars => HsInv'
<1> SUFFICES ASSUME HsInv, [Next]_vars PROVE HsInv'  BY Zenon
<1>1. ASSUME NEW c \in Conns, Authenticate(c) PROVE HsInv'
  BY <1>1, HsStep, Zenon DEF Authenticate
<1>2. CASE UNCHANGED tlsVars
  BY <1>2, Zenon DEF HsInv, HsTypes, Progress, Verified, Identified, tlsVars, shared
<1>3. CASE Publish
  <2>1. generation' \in Generations
    BY <1>3, HandshakeAssumption DEF Publish, HsInv, HsTypes, Generations
  <2>. QED  BY <1>3, <2>1, Zenon DEF HsInv, HsTypes, Progress, Verified, Identified, Publish
<1>4. ASSUME NEW l \in Certs, Evict(l) PROVE HsInv'
  <2>1. \A k \in DOMAIN cache' : cache'[k] = spiffe_id_from_cert_der(k)
    BY <1>4, Zenon DEF Evict, HsInv, Identified
  <2>. QED  BY <1>4, <2>1, Zenon DEF HsInv, HsTypes, Progress, Verified, Identified, Evict
<1>. QED
  BY <1>1, <1>2, <1>3, <1>4, Zenon DEF Next, Environment, Authorize, vars

LEMMA HsInvariance == Spec => []HsInv
BY HsInit, HsNext, PTL DEF Spec

\* The peer of every handshake, full or resumed, holds a leaf that the roots of the
\* generation it loaded vouch for, and a dialled peer is of the own trust domain.
\* The sessions carry it: each was verified by the generation that may resume it.
THEOREM PeersAreVerified == Spec => []PeerVerified
<1>1. HsInv => PeerVerified
  <2> SUFFICES ASSUME HsInv, NEW c \in Conns, leaf[c] # None
               PROVE  /\ leaf[c].issuer \in RootsOf[gen[c]]
                      /\ side[c] = "connect" /\ hs[c] = "established" =>
                           peer[c].trust_domain = LocalId.trust_domain
    BY Zenon DEF PeerVerified
  <2>1. Verifies(side[c], gen[c], leaf[c])  BY Zenon DEF HsInv, Verified
  <2>2. hs[c] = "established" => peer[c] = spiffe_id_from_cert_der(leaf[c])
    BY Zenon DEF HsInv, Identified
  <2>. QED  BY <2>1, <2>2, Zenon DEF Verifies
<1>. QED  BY <1>1, HsInvariance, PTL

-----------------------------------------------------------------------------
\* The refinement of the register that the reloader promises.
LEMMA HandshakeUsesRegister ==
  HsInv /\ [Next]_vars => [Register!Next]_<<generation, gen>>
<1> SUFFICES ASSUME HsInv, [Next]_vars PROVE Register!Next \/ UNCHANGED <<generation, gen>>
  BY Zenon
<1>1. ASSUME NEW c \in Conns, NEW s \in Sides, LoadGeneration(c, s) PROVE Register!Next
  <2>1. gen[c] = None  BY <1>1, Zenon DEF LoadGeneration, HsInv, Progress
  <2>. QED  BY <1>1, <2>1, Zenon DEF LoadGeneration, Register!Next, Register!Read, shared
<1>2. CASE Publish
  <2>1. /\ generation' \in Generations /\ generation <= generation'
        /\ UNCHANGED gen
    BY <1>2, HandshakeAssumption DEF Publish, HsInv, HsTypes, Generations
  <2>. QED
    BY <2>1, Zenon DEF Register!Next, Register!Publish, AnyGeneration, LaterGeneration
<1>3. ASSUME NEW c \in Conns, HandshakeStep(c), ~\E s \in Sides : LoadGeneration(c, s)
      PROVE  UNCHANGED <<generation, gen>>
  BY <1>3, Zenon DEF HandshakeStep, Connected, HandshakeFails, FullHandshake, ResumedHandshake,
              CacheLookup, ParseLeaf, shared
<1>4. ASSUME NEW l \in Certs, Evict(l) PROVE UNCHANGED <<generation, gen>>
  BY <1>4, Zenon DEF Evict
<1>5. CASE UNCHANGED tlsVars
  BY <1>5, Zenon DEF tlsVars, shared
<1>. QED
  BY <1>1, <1>2, <1>3, <1>4, <1>5, Zenon DEF Next, Environment, Authenticate, Authorize, vars

\* The handshakes see of the reloader nothing but its register: each reads the
\* generation in force once and keeps to it, whatever is published meanwhile.
THEOREM HandshakesUseRegister == Spec => UsesRegister
<1>1. Init => Register!Init
  BY HsInit, Zenon DEF Init, TlsInit, Register!Init, AnyGeneration, HsInv, HsTypes
<1>. QED
  BY <1>1, HandshakeUsesRegister, HsInvariance, PTL DEF Spec, UsesRegister, Register!Spec

-----------------------------------------------------------------------------
\* A nonempty set of positions has a first one.
LEMMA LeastPosition ==
  ASSUME NEW T \in SUBSET Nat, T # {}
  PROVE  \E m \in T : \A j \in T : m <= j
<1> DEFINE Less == {ss \in Nat \X Nat : ss[1] < ss[2]}
<1>1. IsWellFoundedOn(Less, Nat)
  BY NatLessThanWellFounded, Zenon DEF OpToRel
<1>2. \A i, j \in T : ~(<<j, i>> \in Less) => i <= j
  OBVIOUS
<1> HIDE DEF Less
<1>3. \E m \in T : \A j \in T : ~(<<j, m>> \in Less)
  BY <1>1, WFMin, Zenon
<1>. QED  BY <1>2, <1>3, Zenon

\* The first rule that matches stays the first when one is added at the end.
LEMMA FirstMatchAppend ==
  ASSUME NEW R, NEW rules \in Seq(R), NEW rule \in R, NEW p, FirstMatch(rules, p) # None
  PROVE  FirstMatch(Append(rules, rule), p) = FirstMatch(rules, p)
<1> DEFINE M == Matching(rules, p)
           N == Matching(Append(rules, rule), p)
           First(S) == CHOOSE i \in S : \A j \in S : i <= j
<1>1. /\ DOMAIN rules = 1..Len(rules) /\ Len(rules) \in Nat
      /\ DOMAIN Append(rules, rule) = 1..(Len(rules) + 1)
      /\ \A i \in 1..Len(rules) : Append(rules, rule)[i] = rules[i]
  OBVIOUS
<1>2. M # {} /\ M \subseteq 1..Len(rules)
  BY <1>1, Zenon DEF FirstMatch, Matching
<1>3. M \subseteq N /\ N \subseteq M \cup {Len(rules) + 1}
  BY <1>1 DEF Matching
<1>4. PICK m \in M : \A j \in M : m <= j
  <2>1. M \in SUBSET Nat  BY <1>1, <1>2
  <2>. QED  BY <1>2, <2>1, LeastPosition, Zenon
<1> HIDE DEF M, N
<1>5. m \in 1..Len(rules) /\ \A j \in N : m <= j
  BY <1>1, <1>2, <1>3, <1>4
<1>6. First(M) = m
  <2>1. \A i \in M : (\A j \in M : i <= j) => i = m
    BY <1>1, <1>2, <1>4
  <2>. QED  BY <1>4, <2>1, Zenon
<1>7. First(N) = m
  <2>1. \A i \in N : (\A j \in N : i <= j) => i = m
    BY <1>1, <1>2, <1>3, <1>4, <1>5
  <2>2. m \in N  BY <1>3, Zenon
  <2>. QED  BY <1>5, <2>1, <2>2, Zenon
<1>8. FirstMatch(rules, p) = rules[m].decision
  BY <1>2, <1>6, Zenon DEF FirstMatch, M
<1>9. FirstMatch(Append(rules, rule), p) = Append(rules, rule)[m].decision
  BY <1>2, <1>3, <1>7, Zenon DEF FirstMatch, N
<1>. QED  BY <1>1, <1>5, <1>8, <1>9, Zenon

-----------------------------------------------------------------------------
PolicyTypes ==
  /\ namespace_policies \in [Namespaces -> Seq(Rules)]
  /\ at \in [Conns -> {"idle", "global", "done"}]
  /\ DOMAIN pair = Conns
  /\ DOMAIN decision = Conns
  /\ DOMAIN moments = Conns
  /\ crossed \in [Conns -> {"nothing", "namespace", "namespaceThenGlobal"}]

\* Between its two reads an evaluation is about to give an answer that was right at
\* some moment, and until a rule joins the destination's namespace none of its
\* rules applies.
Between ==
  \A e \in Conns :
    at[e] = "global" =>
      /\ crossed[e] = "nothing" =>
           FirstMatch(OwnRules(namespace_policies, pair[e].destination.namespace), pair[e]) = None
      /\ crossed[e] # "namespaceThenGlobal" =>
           GlobalDecision(global_policies, pair[e]) \in moments[e]

\* The policy is asked about established connections only.
Presented ==
  \A c \in Conns : at[c] # "idle" => hs[c] = "established" /\ pair[c] = Pair(c)

PolicyInv == PolicyTypes /\ Between /\ DecisionOfSomeMoment /\ Presented

LEMMA PolicyInvInit == Init => PolicyInv
BY AdmissionAssumption
   DEF Init, PolicyInit, PolicyInv, PolicyTypes, Between, DecisionOfSomeMoment, Presented

LEMMA PolicyRead ==
  ASSUME HsInv, PolicyInv, NEW c \in Conns, Authorize(c)
  PROVE  PolicyInv'
<1> USE AdmissionAssumption DEF PolicyInv
<1>1. CASE hs[c] = "established" /\ EvaluateNamespace(c, Pair(c))
  <2> DEFINE own == FirstMatch(OwnRules(namespace_policies, Pair(c).destination.namespace),
                               Pair(c))
  <2>1. /\ PolicyTypes'
        /\ \A d \in Conns \ {c} : /\ at'[d] = at[d] /\ pair'[d] = pair[d]
                                  /\ decision'[d] = decision[d] /\ moments'[d] = moments[d]
        /\ at'[c] = IF own = None THEN "global" ELSE "done"
        /\ pair'[c] = Pair(c)
        /\ decision'[c] = own
        /\ moments'[c] = {Says(namespace_policies, global_policies, Pair(c))}
        /\ UNCHANGED <<namespace_policies, global_policies, crossed>>
    BY <1>1, Zenon DEF PolicyTypes, EvaluateNamespace, store
  <2>2. Says(namespace_policies, global_policies, Pair(c)) =
          IF own = None THEN GlobalDecision(global_policies, Pair(c)) ELSE own
    BY Zenon DEF Says
  <2>3. Presented'
    BY <1>1, <2>1, Zenon DEF Presented, Authorize, tlsVars, Pair
  <2> HIDE DEF own
  <2>4. DecisionOfSomeMoment'
    BY <2>1, <2>2, Zenon DEF DecisionOfSomeMoment
  <2>5. Between'
    BY <2>1, <2>2, Zenon DEF Between, own
  <2>. QED  BY <2>1, <2>3, <2>4, <2>5, Zenon
<1>2. CASE EvaluateGlobal(c)
  <2>1. /\ PolicyTypes'
        /\ \A d \in Conns \ {c} : at'[d] = at[d] /\ decision'[d] = decision[d]
        /\ at[c] = "global" /\ at'[c] = "done"
        /\ decision'[c] = GlobalDecision(global_policies, pair[c])
        /\ UNCHANGED <<namespace_policies, global_policies, pair, moments, crossed>>
    BY <1>2, Zenon DEF PolicyTypes, EvaluateGlobal, store
  <2>2. Presented'
    BY <2>1, Zenon DEF Presented, Authorize, tlsVars, Pair
  <2>. QED  BY <2>1, <2>2, Zenon DEF Between, DecisionOfSomeMoment
<1>. QED  BY <1>1, <1>2, Zenon DEF Authorize

LEMMA PolicyWrite ==
  ASSUME HsInv, PolicyInv, PolicyChange, UNCHANGED tlsVars
  PROVE  PolicyInv'
<1> USE AdmissionAssumption DEF PolicyInv
<1>1. Presented'
  <2>1. UNCHANGED <<hs, side, peer, at, pair>>
    BY Zenon DEF PolicyChange, add_namespace_rule, set_global_policies, tlsVars
  <2>. QED  BY <2>1, Zenon DEF Presented, Pair
<1>2. ASSUME NEW n \in Namespaces, NEW r \in Rules, add_namespace_rule(n, r)
      PROVE  PolicyTypes' /\ Between' /\ DecisionOfSomeMoment'
  <2>1. namespace_policies' \in [Namespaces -> Seq(Rules)]
    BY <1>2 DEF add_namespace_rule, PolicyTypes
  <2>2. /\ PolicyTypes'
        /\ \A e \in Conns : moments[e] \subseteq moments'[e]
        /\ \A e \in Conns : \/ crossed'[e] = crossed[e]
                            \/ crossed[e] = "nothing" /\ crossed'[e] = "namespace"
        /\ UNCHANGED <<global_policies, at, pair, decision>>
    BY <1>2, <2>1, Zenon DEF add_namespace_rule, PolicyTypes, Observe
  <2>3. \A e \in Conns :
          at[e] = "global" /\ crossed'[e] = "nothing" =>
            /\ crossed[e] = "nothing"
            /\ OwnRules(namespace_policies', pair[e].destination.namespace)
                 = OwnRules(namespace_policies, pair[e].destination.namespace)
    BY <1>2, <2>1, Zenon DEF add_namespace_rule, PolicyTypes, OwnRules
  <2>4. DecisionOfSomeMoment'
    BY <2>2, Zenon DEF DecisionOfSomeMoment
  <2>5. Between'
    BY <2>2, <2>3, Zenon DEF Between
  <2>. QED  BY <2>2, <2>4, <2>5, Zenon
<1>3. ASSUME NEW rules \in RuleLists(GlobalBound), set_global_policies(rules)
      PROVE  PolicyTypes' /\ Between' /\ DecisionOfSomeMoment'
  <2>1. /\ PolicyTypes'
        /\ \A e \in Conns : moments[e] \subseteq moments'[e]
        /\ \A e \in Conns : at[e] = "global" =>
             Says(namespace_policies, global_policies', pair[e]) \in moments'[e]
        /\ \A e \in Conns : \/ crossed'[e] = crossed[e]
                            \/ crossed[e] = "namespace" /\ crossed'[e] = "namespaceThenGlobal"
        /\ \A e \in Conns : at[e] = "global" => crossed'[e] # "namespace"
        /\ UNCHANGED <<namespace_policies, at, pair, decision>>
    BY <1>3, Zenon DEF set_global_policies, PolicyTypes, Observe
  <2>2. DecisionOfSomeMoment'
    BY <2>1, Zenon DEF DecisionOfSomeMoment
  <2>3. ASSUME NEW e \in Conns, at[e] = "global", crossed'[e] # "namespaceThenGlobal"
        PROVE  GlobalDecision(global_policies', pair[e]) \in moments'[e]
    <3>1. crossed'[e] = "nothing" /\ crossed[e] = "nothing"
      BY <2>1, <2>3, Zenon DEF PolicyTypes
    <3>2. FirstMatch(OwnRules(namespace_policies, pair[e].destination.namespace), pair[e]) = None
      BY <2>3, <3>1, Zenon DEF Between
    <3>. QED  BY <2>1, <2>3, <3>2, Zenon DEF Says
  <2>4. Between'
    BY <2>1, <2>3, Zenon DEF Between
  <2>. QED  BY <2>1, <2>2, <2>4, Zenon
<1>. QED  BY <1>1, <1>2, <1>3, Zenon DEF PolicyChange

LEMMA PolicyNext == HsInv /\ PolicyInv /\ [Next]_vars => PolicyInv'
<1> SUFFICES ASSUME HsInv, PolicyInv, [Next]_vars PROVE PolicyInv'  BY Zenon
<1>1. ASSUME NEW c \in Conns, Authorize(c) PROVE PolicyInv'
  BY <1>1, PolicyRead, Zenon
<1>2. CASE PolicyChange /\ UNCHANGED tlsVars
  BY <1>2, PolicyWrite, Zenon
<1>3. ASSUME UNCHANGED policyVars, Presented' PROVE PolicyInv'
  BY <1>3, Zenon DEF PolicyInv, PolicyTypes, Between, DecisionOfSomeMoment, policyVars, store, calls
<1>4. ASSUME NEW c \in Conns, Authenticate(c) PROVE Presented'
  <2>1. hs[c] # "established"
    BY <1>4, Zenon DEF Authenticate, HandshakeStep, LoadGeneration, Connected, HandshakeFails,
                FullHandshake, ResumedHandshake, CacheLookup, ParseLeaf
  <2>2. UNCHANGED <<at, pair>>
    BY <1>4, Zenon DEF Authenticate, policyVars, calls
  <2>3. \A d \in Conns \ {c} : hs'[d] = hs[d] /\ side'[d] = side[d] /\ peer'[d] = peer[d]
    BY <1>4, HsOthers, Zenon DEF Authenticate, HsInv
  <2>. QED  BY <2>1, <2>2, <2>3, Zenon DEF PolicyInv, Presented, Pair
<1>5. CASE Publish /\ UNCHANGED policyVars
  BY <1>3, <1>5, Zenon DEF Publish, PolicyInv, Presented, Pair, policyVars, calls
<1>6. ASSUME NEW l \in Certs, Evict(l), UNCHANGED policyVars PROVE PolicyInv'
  BY <1>3, <1>6, Zenon DEF Evict, PolicyInv, Presented, Pair, policyVars, calls
<1>7. CASE UNCHANGED vars
  BY <1>3, <1>7, Zenon DEF vars, tlsVars, policyVars, calls, PolicyInv, Presented, Pair
<1>. QED
  BY <1>1, <1>2, <1>3, <1>4, <1>5, <1>6, <1>7, Zenon DEF Next, Environment, Authenticate

LEMMA PolicyInvariance == Spec => [](HsInv /\ PolicyInv)
BY HsInit, HsNext, PolicyInvInit, PolicyNext, PTL DEF Spec

\* The answer of evaluate, read in two steps, is the answer of the whole policy at
\* some moment of the call, but for a namespace rule that slips in behind the first
\* read and a global list that replaces the one it was to override.
THEOREM DecisionsAreAtomic == Spec => []DecisionOfSomeMoment
BY PolicyInvariance, PTL DEF PolicyInv

\* The engine is asked about the identity in the leaf that the peer showed in this
\* very handshake, in the role the peer has, whether the identity was parsed now,
\* came from the shared cache or belongs to a resumed session.
THEOREM PeersAreJudged == Spec => []JudgedAsPresented
<1>1. HsInv /\ PolicyInv => JudgedAsPresented
  BY Zenon DEF HsInv, Identified, PolicyInv, Presented, Pair, JudgedAsPresented
<1>. QED  BY <1>1, PolicyInvariance, PTL

-----------------------------------------------------------------------------
\* In a namespace the first rule wins for good: what its rules say of a pair stays
\* what the engine answers, whatever the operator adds there or does globally.
THEOREM NamespaceDecisionsStay == Spec => NamespaceRulesStable
<1>1. HsInv /\ PolicyInv /\ [Next]_vars =>
        [\A e \in Evals :
           pair[e] # None =>
             LET own == FirstMatch(OwnRules(namespace_policies, pair[e].destination.namespace),
                                   pair[e])
             IN own # None => Says(namespace_policies', global_policies', pair[e]) = own]_policyVars
  <2> SUFFICES ASSUME PolicyInv, [Next]_vars, NEW p, NEW own,
                      own = FirstMatch(OwnRules(namespace_policies, p.destination.namespace), p),
                      own # None
               PROVE  Says(namespace_policies', global_policies', p) = own
    BY Zenon
  <2> DEFINE n == p.destination.namespace
  <2>1. FirstMatch(<<>>, p) = None
    <3>1. Matching(<<>>, p) = {}
      BY DEF Matching
    <3>. QED  BY <3>1, Zenon DEF FirstMatch
  <2>2. n \in Namespaces /\ OwnRules(namespace_policies, n) = namespace_policies[n]
    BY <2>1, Zenon DEF PolicyInv, PolicyTypes, OwnRules
  <2>3. \/ UNCHANGED namespace_policies
        \/ \E m \in Namespaces, r \in Rules :
             namespace_policies' = [namespace_policies EXCEPT ![m] = Append(@, r)]
    BY Zenon DEF Next, vars, policyVars, store, Authenticate, Authorize, EvaluateNamespace,
           EvaluateGlobal, Environment, PolicyChange, add_namespace_rule, set_global_policies
  <2>4. \/ OwnRules(namespace_policies', n) = namespace_policies[n]
        \/ \E r \in Rules : OwnRules(namespace_policies', n) = Append(namespace_policies[n], r)
    BY <2>2, <2>3, Zenon DEF PolicyInv, PolicyTypes, OwnRules
  <2>5. FirstMatch(OwnRules(namespace_policies', n), p) = own
    <3>1. namespace_policies[n] \in Seq(Rules)
      BY <2>2, Zenon DEF PolicyInv, PolicyTypes
    <3>2. FirstMatch(namespace_policies[n], p) = own
      BY <2>2, Zenon
    <3>3. ASSUME NEW r \in Rules
          PROVE  FirstMatch(Append(namespace_policies[n], r), p) = own
      <4> HIDE DEF n
      <4>. QED  BY <3>1, <3>2, FirstMatchAppend, Zenon
    <3>. QED  BY <2>4, <3>2, <3>3, Zenon
  <2>. QED  BY <2>5, Zenon DEF Says
<1>. QED  BY <1>1, PolicyInvariance, PTL DEF Spec, NamespaceRulesStable

=============================================================================
