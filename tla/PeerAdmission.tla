---------------------------- MODULE PeerAdmission ----------------------------
(***************************************************************************)
(* A connection's way in: the handshake tells who the peer is, and the     *)
(* policy engine then decides on the pair of identities, while reloads     *)
(* replace the credentials and the operator changes the policy.            *)
(***************************************************************************)
EXTENDS TlsHandshake, PolicyEngine

\* One evaluation for every connection.
ASSUME AdmissionAssumption == Evals = Conns

vars == <<tlsVars, policyVars>>

TypeOK == TlsTypeOK /\ PolicyTypeOK

Init == TlsInit /\ PolicyInit

\* An accepted peer is the source, a dialled one the destination.
Pair(c) ==
  IF side[c] = "accept" THEN [source |-> peer[c], destination |-> LocalId]
  ELSE [source |-> LocalId, destination |-> peer[c]]

Authenticate(c) == HandshakeStep(c) /\ UNCHANGED policyVars

Authorize(c) ==
  /\ \/ hs[c] = "established" /\ EvaluateNamespace(c, Pair(c))
     \/ EvaluateGlobal(c)
  /\ UNCHANGED tlsVars

Environment ==
  \/ (Publish \/ \E l \in Certs : Evict(l)) /\ UNCHANGED policyVars
  \/ PolicyChange /\ UNCHANGED tlsVars

Next ==
  \/ \E c \in Conns : Authenticate(c) \/ Authorize(c)
  \/ Environment

Spec == Init /\ [][Next]_vars

-----------------------------------------------------------------------------
\* The policy judges the identity in the certificate that the peer showed in this
\* handshake against the own one, each in its role, however the identity reached
\* it: parsed, cached, or from a resumed session.
JudgedAsPresented ==
  \A c \in Conns :
    at[c] # "idle" =>
      LET id == spiffe_id_from_cert_der(leaf[c])
      IN pair[c] = IF side[c] = "accept" THEN [source |-> id, destination |-> LocalId]
                   ELSE [source |-> LocalId, destination |-> id]
=============================================================================
