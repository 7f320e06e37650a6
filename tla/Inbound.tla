------------------------------ MODULE Inbound ------------------------------
(***************************************************************************)
(* TcpProxy::handle_connection, the inbound handler, with the tunnel it    *)
(* serves when the peer negotiated il/mux/1: the mTLS accept overlapped    *)
(* with the upstream connect, the policy check, protocol detection on the  *)
(* first bytes, the relay, and the connection metrics of every way out.    *)
(*                                                                         *)
(* A client's bytes are numbered in the order it sends them.               *)
(***************************************************************************)
EXTENDS Integers, Sequences, FiniteSets

CONSTANTS
  Conns,           \* admitted connections; each has a peer identity of its own
  Streams,         \* bound: the streams a peer opens on a tunnel
  MaxBytes,        \* bound: the bytes a client sends
  ProtocolDetect,  \* buffers::PROTOCOL_DETECT
  ServerFirst,     \* clients wait for the greeting of the upstream before they send
  PolicyChanges    \* whether the policy engine is reconfigured

ASSUME InboundAssumption ==
  /\ IsFiniteSet(Conns)
  /\ IsFiniteSet(Streams)
  /\ MaxBytes \in Nat
  /\ ProtocolDetect \in Nat \ {0}
  /\ ServerFirst \in BOOLEAN
  /\ PolicyChanges \in BOOLEAN

VARIABLES
  pc,       \* pc[c]: where the handler is
  tls,      \* tls[c]: the mTLS accept
  up,       \* up[c]: the upstream connect
  mux,      \* mux[c]: il/mux/1 was negotiated
  allow,    \* the connections whose peer the policy allows at present
  judged,   \* judged[c]: the policy's decision on the connection
  sent,     \* sent[c]: bytes the client has sent
  eof,      \* eof[c]: the client has closed its direction
  taken,    \* taken[c]: bytes the handler has read
  got,      \* got[c]: the bytes the upstream has received
  greeted,  \* greeted[c]: the upstream has sent its greeting
  heard,    \* heard[c]: the client has received it
  stream,   \* stream[c][s]: the relay of a tunnel's stream
  gauge,    \* connections_active
  total     \* connections_total

peerVars == <<allow, sent, eof, greeted>>
dataVars == <<taken, got, heard>>
joinVars == <<tls, up, mux, judged>>
metrics == <<gauge, total>>
vars == <<pc, joinVars, peerVars, dataVars, stream, metrics>>

PCs == {"new", "resolve", "join", "policy", "tunnel", "detect", "forward", "relay",
        "ended"}

TypeOK ==
  /\ pc \in [Conns -> PCs]
  /\ tls \in [Conns -> {"pending", "ok", "failed"}]
  /\ up \in [Conns -> {"pending", "ok", "failed"}]
  /\ mux \in [Conns -> BOOLEAN]
  /\ allow \subseteq Conns
  /\ judged \in [Conns -> {"none", "allow", "deny"}]
  /\ sent \in [Conns -> 0..MaxBytes]
  /\ eof \in [Conns -> BOOLEAN]
  /\ taken \in [Conns -> 0..MaxBytes]
  /\ got \in [Conns -> Seq(1..MaxBytes)]
  /\ greeted \in [Conns -> BOOLEAN]
  /\ heard \in [Conns -> BOOLEAN]
  /\ stream \in [Conns -> [Streams -> {"none", "spawned", "dialing", "relaying", "ended"}]]
  /\ gauge \in Nat
  /\ total \in Nat

Init ==
  /\ pc = [c \in Conns |-> "new"]
  /\ tls = [c \in Conns |-> "pending"]
  /\ up = [c \in Conns |-> "pending"]
  /\ mux = [c \in Conns |-> FALSE]
  /\ allow \in SUBSET Conns
  /\ judged = [c \in Conns |-> "none"]
  /\ sent = [c \in Conns |-> 0]
  /\ eof = [c \in Conns |-> FALSE]
  /\ taken = [c \in Conns |-> 0]
  /\ got = [c \in Conns |-> <<>>]
  /\ greeted = [c \in Conns |-> FALSE]
  /\ heard = [c \in Conns |-> FALSE]
  /\ stream = [c \in Conns |-> [s \in Streams |-> "none"]]
  /\ gauge = 0
  /\ total = 0

Goto(c, next) == pc' = [pc EXCEPT ![c] = next]

-----------------------------------------------------------------------------
\* The metrics of a connection or a stream

record_connection_start == gauge' = gauge + 1 /\ UNCHANGED total

\* record_connection and record_connection_failed count the connection; they
\* differ in the duration, bytes and errors they record.
record_connection == gauge' = gauge - 1 /\ total' = total + 1

record_tunnel_closed == gauge' = gauge - 1 /\ UNCHANGED total

\* The handler returns.
End(c) ==
  /\ Goto(c, "ended")
  /\ record_connection
  /\ UNCHANGED <<dataVars, stream>>

-----------------------------------------------------------------------------
\* handle_connection

Begin(c) ==
  /\ pc[c] = "new"
  /\ Goto(c, "resolve")
  /\ record_connection_start
  /\ UNCHANGED <<joinVars, peerVars, dataVars, stream>>

\* resolve_upstream answers, or fails for a name without endpoints.
Resolve(c) ==
  /\ pc[c] = "resolve"
  /\ \/ End(c)
     \/ Goto(c, "join") /\ UNCHANGED <<dataVars, stream, metrics>>
  /\ UNCHANGED <<joinVars, peerVars>>

\* The two branches of join!: the accept, which times out, and the connect.
TlsAccept(c) ==
  /\ pc[c] = "join"
  /\ tls[c] = "pending"
  /\ \/ tls' = [tls EXCEPT ![c] = "failed"] /\ UNCHANGED mux
     \/ /\ tls' = [tls EXCEPT ![c] = "ok"]
        /\ \E m \in BOOLEAN : mux' = [mux EXCEPT ![c] = m]
  /\ UNCHANGED <<pc, up, judged, peerVars, dataVars, stream, metrics>>

UpstreamConnect(c) ==
  /\ pc[c] = "join"
  /\ up[c] = "pending"
  /\ \E r \in {"ok", "failed"} : up' = [up EXCEPT ![c] = r]
  /\ UNCHANGED <<pc, tls, mux, judged, peerVars, dataVars, stream, metrics>>

\* join! waits for both, also when one has failed.
Joined(c) ==
  /\ pc[c] = "join"
  /\ "pending" \notin {tls[c], up[c]}
  /\ IF "failed" \in {tls[c], up[c]}
     THEN End(c)
     ELSE Goto(c, "policy") /\ UNCHANGED <<dataVars, stream, metrics>>
  /\ UNCHANGED <<joinVars, peerVars>>

\* Mutant: a denied peer is only logged.
EvaluateLogged(c) ==
  /\ pc[c] = "policy"
  /\ judged' = [judged EXCEPT ![c] = IF c \in allow THEN "allow" ELSE "deny"]
  /\ Goto(c, IF mux[c] THEN "tunnel" ELSE "detect")
  /\ UNCHANGED <<tls, up, mux, peerVars, dataVars, stream, metrics>>

Evaluate(c) ==
  /\ pc[c] = "policy"
  /\ judged' = [judged EXCEPT ![c] = IF c \in allow THEN "allow" ELSE "deny"]
  /\ IF c \in allow
     THEN /\ Goto(c, IF mux[c] THEN "tunnel" ELSE "detect")
          /\ UNCHANGED <<dataVars, stream, metrics>>
     ELSE End(c)
  /\ UNCHANGED <<tls, up, mux, peerVars>>

\* Mutant: the detection buffer is filled before it is looked at.
DetectExact(c) ==
  /\ pc[c] = "detect"
  /\ \/ /\ sent[c] >= ProtocolDetect
        /\ taken' = [taken EXCEPT ![c] = ProtocolDetect]
        /\ Goto(c, "forward")
        /\ UNCHANGED <<got, heard, stream, metrics>>
     \/ eof[c] /\ sent[c] = 0 /\ End(c)
  /\ UNCHANGED <<joinVars, peerVars>>

\* One read of at most ProtocolDetect bytes.
Detect(c) ==
  /\ pc[c] = "detect"
  /\ \/ \E n \in 1..ProtocolDetect :
          /\ n <= sent[c]
          /\ taken' = [taken EXCEPT ![c] = n]
          /\ Goto(c, "forward")
          /\ UNCHANGED <<got, heard, stream, metrics>>
     \/ eof[c] /\ sent[c] = 0 /\ End(c)
  /\ UNCHANGED <<joinVars, peerVars>>

\* Mutant: the detected bytes are not written on.
ForwardNothing(c) ==
  /\ pc[c] = "forward"
  /\ Goto(c, "relay")
  /\ UNCHANGED <<joinVars, peerVars, dataVars, stream, metrics>>

\* The detected bytes go to the upstream first.
Forward(c) ==
  /\ pc[c] = "forward"
  /\ got' = [got EXCEPT ![c] = [i \in 1..taken[c] |-> i]]
  /\ Goto(c, "relay")
  /\ UNCHANGED <<joinVars, peerVars, taken, heard, stream, metrics>>

\* copy_bidirectional, one byte up, or the greeting down.
CopyUp(c) ==
  /\ pc[c] = "relay"
  /\ taken[c] < sent[c]
  /\ taken' = [taken EXCEPT ![c] = @ + 1]
  /\ got' = [got EXCEPT ![c] = Append(@, taken[c] + 1)]
  /\ UNCHANGED <<pc, joinVars, peerVars, heard, stream, metrics>>

CopyDown(c) ==
  /\ pc[c] = "relay"
  /\ greeted[c] /\ ~heard[c]
  /\ heard' = [heard EXCEPT ![c] = TRUE]
  /\ UNCHANGED <<pc, joinVars, peerVars, taken, got, stream, metrics>>

\* Both directions are closed and drained; the upstream closes its own when it
\* likes.
CopyEnds(c) ==
  /\ pc[c] = "relay"
  /\ eof[c] /\ taken[c] = sent[c]
  /\ greeted[c] => heard[c]
  /\ End(c)
  /\ UNCHANGED <<joinVars, peerVars>>

\* A read or a write of either socket fails, after the policy check.
SocketFails(c) ==
  /\ pc[c] \in {"detect", "forward", "relay"}
  /\ End(c)
  /\ UNCHANGED <<joinVars, peerVars>>

-----------------------------------------------------------------------------
\* serve_tunnel and relay_stream_to_upstream

AcceptStream(c, s) ==
  /\ pc[c] = "tunnel"
  /\ stream[c][s] = "none"
  /\ stream' = [stream EXCEPT ![c][s] = "spawned"]
  /\ UNCHANGED <<pc, joinVars, peerVars, dataVars, metrics>>

\* The spawned task starts, which may be after the tunnel has closed.
StreamBegins(c, s) ==
  /\ stream[c][s] = "spawned"
  /\ stream' = [stream EXCEPT ![c][s] = "dialing"]
  /\ record_connection_start
  /\ UNCHANGED <<pc, joinVars, peerVars, dataVars>>

\* The session ends; the relays of its streams are tasks of their own.
TunnelCloses(c) ==
  /\ pc[c] = "tunnel"
  /\ Goto(c, "ended")
  /\ record_tunnel_closed
  /\ UNCHANGED <<joinVars, peerVars, dataVars, stream>>

StreamConnects(c, s) ==
  /\ stream[c][s] = "dialing"
  /\ stream' = [stream EXCEPT ![c][s] = "relaying"]
  /\ UNCHANGED <<pc, joinVars, peerVars, dataVars, metrics>>

\* Mutant: a failed dial returns without its metrics.
StreamEndsUncounted(c, s) ==
  /\ stream[c][s] \in {"dialing", "relaying"}
  /\ stream' = [stream EXCEPT ![c][s] = "ended"]
  /\ IF stream[c][s] = "dialing" THEN UNCHANGED metrics ELSE record_connection
  /\ UNCHANGED <<pc, joinVars, peerVars, dataVars>>

\* The dial fails, or the relay is over.
StreamEnds(c, s) ==
  /\ stream[c][s] \in {"dialing", "relaying"}
  /\ stream' = [stream EXCEPT ![c][s] = "ended"]
  /\ record_connection
  /\ UNCHANGED <<pc, joinVars, peerVars, dataVars>>

-----------------------------------------------------------------------------
\* The client, the upstream and the operator

\* The connection carries application bytes, 1:1.
Plain(c) == tls[c] = "ok" /\ ~mux[c] /\ pc[c] # "ended"

ClientSends(c) ==
  /\ Plain(c)
  /\ ~eof[c] /\ sent[c] < MaxBytes
  /\ ServerFirst => heard[c]
  /\ sent' = [sent EXCEPT ![c] = @ + 1]
  /\ UNCHANGED <<pc, joinVars, allow, eof, greeted, dataVars, stream, metrics>>

ClientCloses(c) ==
  /\ Plain(c)
  /\ ~eof[c]
  /\ eof' = [eof EXCEPT ![c] = TRUE]
  /\ UNCHANGED <<pc, joinVars, allow, sent, greeted, dataVars, stream, metrics>>

UpstreamGreets(c) ==
  /\ Plain(c)
  /\ up[c] = "ok" /\ ~greeted[c]
  /\ greeted' = [greeted EXCEPT ![c] = TRUE]
  /\ UNCHANGED <<pc, joinVars, allow, sent, eof, dataVars, stream, metrics>>

\* set_global_policies or add_namespace_rule on the shared engine.
SetPolicy ==
  /\ PolicyChanges
  /\ \E A \in SUBSET Conns : allow' = A
  /\ UNCHANGED <<pc, joinVars, sent, eof, greeted, dataVars, stream, metrics>>

-----------------------------------------------------------------------------
\* The steps a handler takes by itself once it has something to read.
HandlerStep(c) ==
  \/ Begin(c)
  \/ Resolve(c)
  \/ Joined(c)
  \/ Evaluate(c)
  \/ Detect(c)

\* The writes block for as long as the other side does not read: they have no
\* timeout.
WriteUp(c) == Forward(c) \/ CopyUp(c)
WriteStep(c) == WriteUp(c) \/ CopyDown(c)

StreamStep(c, s) ==
  \/ AcceptStream(c, s)
  \/ StreamBegins(c, s)
  \/ StreamConnects(c, s)
  \/ StreamEnds(c, s)

PeerStep(c) == ClientSends(c) \/ ClientCloses(c) \/ UpstreamGreets(c)

Next ==
  \/ \E c \in Conns :
       \/ HandlerStep(c)
       \/ WriteStep(c)
       \/ TlsAccept(c)
       \/ UpstreamConnect(c)
       \/ CopyEnds(c)
       \/ SocketFails(c)
       \/ TunnelCloses(c)
       \/ PeerStep(c)
       \/ \E s \in Streams : StreamStep(c, s)
  \/ SetPolicy

Spec == Init /\ [][Next]_vars

\* The handler runs when it can.  The accept has its timeout, and the lookup and
\* the connect have those of the resolver and the operating system.  Nothing is
\* assumed of the peers: they need not send, close or read, so that a write may
\* never complete.
FairSpec ==
  /\ Spec
  /\ \A c \in Conns :
       WF_vars(HandlerStep(c)) /\ WF_vars(TlsAccept(c)) /\ WF_vars(UpstreamConnect(c))

-----------------------------------------------------------------------------
Open == {c \in Conns : pc[c] \notin {"new", "ended"}}
StreamsIn(states) == {x \in Conns \X Streams : stream[x[1]][x[2]] \in states}

\* The active gauge counts the open connections and the streams, also those that
\* outlive their tunnel; the total counts each ended connection and stream once
\* and a tunnel never.  Every way out of the handler and of a stream's relay
\* releases exactly the slot it took.
MetricsExact ==
  /\ gauge = Cardinality(Open) + Cardinality(StreamsIn({"dialing", "relaying"}))
  /\ total = Cardinality({c \in Conns : pc[c] = "ended" /\ (judged[c] = "allow" => ~mux[c])})
             + Cardinality(StreamsIn({"ended"}))

\* The upstream receives the client's bytes in order, without a gap and without
\* a repetition, across the hand-over from detection to the relay.
UpstreamGetsPrefix ==
  \A c \in Conns : got[c] = [i \in 1..Len(got[c]) |-> i] /\ Len(got[c]) <= sent[c]

\* No byte reaches an upstream and no stream is served for a connection the
\* policy did not allow, although the upstream is dialled before the check.
NothingForwardedUnchecked ==
  \A c \in Conns :
    \/ got[c] # <<>>
    \/ heard[c]
    \/ \E s \in Streams : stream[c][s] # "none"
    => judged[c] = "allow"

\* The upstream, or the client, of a connection goes on reading: a write to it
\* that is pending completes.
UpstreamReads(c) == WF_vars(WriteUp(c))
ClientReads(c) == WF_vars(CopyDown(c))

\* What the client of an allowed 1:1 connection has sent reaches an upstream that
\* reads, or the connection ends: detection does not wait for more than was sent,
\* and neither a client that does not read nor a connection whose upstream does
\* not read holds it up.
BytesDelivered ==
  \A c \in Conns : UpstreamReads(c) =>
    \A n \in 1..MaxBytes :
      (judged[c] = "allow" /\ ~mux[c] /\ sent[c] >= n) ~>
        (Len(got[c]) >= n \/ pc[c] = "ended")

\* What the protocol detector says of bytes that are not HTTP, "Raw TCP
\* passthrough": the greeting of an upstream that speaks first reaches the client
\* of an allowed 1:1 connection when both read, unless it ends.
GreetingRelayed ==
  \A c \in Conns : UpstreamReads(c) /\ ClientReads(c) =>
    (judged[c] = "allow" /\ ~mux[c] /\ greeted[c]) ~> (heard[c] \/ pc[c] = "ended")
=============================================================================
