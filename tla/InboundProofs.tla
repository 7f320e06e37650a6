--------------------------- MODULE InboundProofs ----------------------------
(***************************************************************************)
(* Proofs about Inbound, for any number of connections, streams and bytes: *)
(* the connection metrics are exact, the upstream gets what the client     *)
(* sent, in order, and nothing is forwarded before the policy has allowed  *)
(* the connection.                                                         *)
(***************************************************************************)
EXTENDS Inbound, FiniteSetTheorems, TLAPS

\* Types, without the two counters: that the gauge does not fall below zero is
\* what MetricsExact shows.
Types ==
  /\ pc \in [Conns -> PCs]
  /\ tls \in [Conns -> {"pending", "ok", "failed"}]
  /\ up \in [Conns -> {"pending", "ok", "failed"}]
  /\ mux \in [Conns -> BOOLEAN]
  /\ allow \subseteq Conns
  /\ judged \in [Conns -> {"none", "allow", "deny"}]
  /\ sent \in [Conns -> 0..MaxBytes]
  /\ eof \in [Conns -> BOOLEAN]
  /\ taken \in [Conns -> 0..MaxBytes]
  /\ got \in [Conns -> Seq(1..MaxBytes)]
  /\ greeted \in [Conns -> BOOLEAN]
  /\ heard \in [Conns -> BOOLEAN]
  /\ stream \in [Conns -> [Streams -> {"none", "spawned", "dialing", "relaying", "ended"}]]

\* Before the policy check nothing has been read, written or accepted.
Untouched(c) ==
  /\ got[c] = <<>> /\ taken[c] = 0 /\ ~heard[c]
  /\ \A s \in Streams : stream[c][s] = "none"

Early == {"new", "resolve", "join", "policy"}

\* Behind it the connection is allowed, as a tunnel or as a 1:1 connection.
Stages(c) ==
  /\ pc[c] \in Early => judged[c] = "none" /\ Untouched(c)
  /\ pc[c] = "tunnel" => judged[c] = "allow" /\ mux[c]
  /\ pc[c] \in {"detect", "forward", "relay"} => judged[c] = "allow" /\ ~mux[c]

\* What was forwarded is what was read; detection has read, and not yet written.
BytesOf(at, g, t, n) ==
  /\ g = [i \in 1..Len(g) |-> i]
  /\ Len(g) <= t /\ t <= n
  /\ at = "detect" => t = 0
  /\ at \in {"detect", "forward"} => g = <<>>
  /\ at = "relay" => Len(g) = t

Bytes(c) == BytesOf(pc[c], got[c], taken[c], sent[c])

Checked(c) ==
  got[c] # <<>> \/ heard[c] \/ (\E s \in Streams : stream[c][s] # "none") => judged[c] = "allow"

Inv ==
  /\ Types
  /\ \A c \in Conns : Stages(c) /\ Bytes(c) /\ Checked(c)
  /\ MetricsExact

-----------------------------------------------------------------------------
(* Functions, sizes, and the sets the counters follow *)

\* One entry of a function changes.
LEMMA PutAt ==
  ASSUME NEW S, NEW T, NEW f \in [S -> T], NEW i \in S, NEW v \in T, NEW g,
         g = [f EXCEPT ![i] = v]
  PROVE  g \in [S -> T] /\ g[i] = v /\ \A j \in S \ {i} : g[j] = f[j]
BY Zenon

\* One entry of one entry changes.
LEMMA PutInside ==
  ASSUME NEW P, NEW A, NEW V, NEW f \in [P -> [A -> V]], NEW p \in P, NEW a \in A,
         NEW v \in V, NEW g, g = [f EXCEPT ![p][a] = v]
  PROVE  /\ g \in [P -> [A -> V]]
         /\ \A q \in P \ {p} : g[q] = f[q]
         /\ \A q \in P, b \in A : g[q][b] = IF q = p /\ b = a THEN v ELSE f[q][b]
BY Zenon

LEMMA AddOne ==
  ASSUME NEW S, NEW T, NEW x, IsFiniteSet(S), x \notin S, T = S \cup {x}
  PROVE  Cardinality(S) \in Nat /\ Cardinality(T) = Cardinality(S) + 1
BY FS_AddElement, FS_CardinalityType, Zenon

LEMMA DropOne ==
  ASSUME NEW S, NEW T, NEW x, IsFiniteSet(S), x \in S, T = S \ {x}
  PROVE  Cardinality(S) \in Nat /\ Cardinality(T) = Cardinality(S) - 1
BY FS_RemoveElement, FS_CardinalityType, Zenon

\* The connections that connections_total has counted.
Closed == {c \in Conns : pc[c] = "ended" /\ (judged[c] = "allow" => ~mux[c])}
Live   == StreamsIn({"dialing", "relaying"})
Over   == StreamsIn({"ended"})

LEMMA Exact ==
  MetricsExact <=> /\ gauge = Cardinality(Open) + Cardinality(Live)
                   /\ total = Cardinality(Closed) + Cardinality(Over)
BY Zenon DEF MetricsExact, Closed, Live, Over

LEMMA Finite ==
  /\ IsFiniteSet(Open) /\ Cardinality(Open) \in Nat
  /\ IsFiniteSet(Closed) /\ Cardinality(Closed) \in Nat
  /\ IsFiniteSet(Live) /\ Cardinality(Live) \in Nat
  /\ IsFiniteSet(Over) /\ Cardinality(Over) \in Nat
<1>1. IsFiniteSet(Conns \X Streams)
  BY InboundAssumption, FS_Product, Zenon
<1>2. /\ Open \subseteq Conns /\ Closed \subseteq Conns
      /\ Live \subseteq Conns \X Streams /\ Over \subseteq Conns \X Streams
  BY Zenon DEF Open, Closed, Live, Over, StreamsIn
<1>3. IsFiniteSet(Open) /\ IsFiniteSet(Closed) /\ IsFiniteSet(Live) /\ IsFiniteSet(Over)
  BY <1>1, <1>2, InboundAssumption, FS_Subset, Zenon
<1>. QED  BY <1>3, FS_CardinalityType, Zenon

\* The counters and the sets they follow both stay.
LEMMA MetricsStay ==
  ASSUME MetricsExact, UNCHANGED metrics,
         Open' = Open, Closed' = Closed, Live' = Live, Over' = Over
  PROVE  MetricsExact'
<1>1. gauge' = gauge /\ total' = total
  BY Zenon DEF metrics
<1>. QED  BY <1>1, Exact, Zenon DEF MetricsExact, Closed, Live, Over

\* The handlers of all connections but c are where they were.
Elsewhere(c) ==
  \A d \in Conns \ {c} : pc'[d] = pc[d] /\ judged'[d] = judged[d] /\ mux'[d] = mux[d]

\* A handler that neither begins nor ends moves no counter.
LEMMA MetricsInside ==
  ASSUME NEW c \in Conns, MetricsExact, Elsewhere(c), UNCHANGED <<stream, metrics>>,
         pc[c] \notin {"new", "ended"}, pc'[c] \notin {"new", "ended"}
  PROVE  MetricsExact'
<1>1. Open' = Open /\ Closed' = Closed
  BY Zenon DEF Elsewhere, Open, Closed
<1>2. Live' = Live /\ Over' = Over
  BY Zenon DEF Live, Over, StreamsIn
<1>. QED  BY <1>1, <1>2, MetricsStay, Zenon

\* The handler returns through record_connection or record_connection_failed.
LEMMA MetricsEnd ==
  ASSUME NEW c \in Conns, MetricsExact, Elsewhere(c), stream' = stream,
         pc[c] \notin {"new", "ended"}, pc'[c] = "ended", judged'[c] = "allow" => ~mux'[c],
         record_connection
  PROVE  MetricsExact'
<1>1. /\ c \in Open /\ Open' = Open \ {c}
      /\ c \notin Closed /\ Closed' = Closed \cup {c}
  BY DEF Elsewhere, Open, Closed
<1>2. Live' = Live /\ Over' = Over
  BY Zenon DEF Live, Over, StreamsIn
<1>3. Cardinality(Open') = Cardinality(Open) - 1 /\ Cardinality(Closed') = Cardinality(Closed) + 1
  BY <1>1, Finite, AddOne, DropOne, Zenon
<1>4. gauge' = gauge - 1 /\ total' = total + 1
  BY Zenon DEF record_connection
<1>5. /\ gauge = Cardinality(Open) + Cardinality(Live)
      /\ total = Cardinality(Closed) + Cardinality(Over)
  BY Exact, Zenon
<1>6. /\ gauge' = Cardinality(Open') + Cardinality(Live')
      /\ total' = Cardinality(Closed') + Cardinality(Over')
  BY <1>2, <1>3, <1>4, <1>5, Finite
<1>. QED  BY <1>6, Zenon DEF MetricsExact, Closed, Live, Over

\* record_connection_start at the start of a handler.
LEMMA MetricsBegin ==
  ASSUME NEW c \in Conns, MetricsExact, Elsewhere(c), stream' = stream,
         pc[c] = "new", pc'[c] \notin {"new", "ended"}, record_connection_start
  PROVE  MetricsExact'
<1>1. /\ c \notin Open /\ Open' = Open \cup {c} /\ Closed' = Closed
  BY Zenon DEF Elsewhere, Open, Closed
<1>2. Live' = Live /\ Over' = Over
  BY Zenon DEF Live, Over, StreamsIn
<1>3. Cardinality(Open') = Cardinality(Open) + 1
  BY <1>1, Finite, AddOne, Zenon
<1>4. gauge' = gauge + 1 /\ total' = total
  BY Zenon DEF record_connection_start
<1>5. /\ gauge = Cardinality(Open) + Cardinality(Live)
      /\ total = Cardinality(Closed) + Cardinality(Over)
  BY Exact, Zenon
<1>6. /\ gauge' = Cardinality(Open') + Cardinality(Live')
      /\ total' = Cardinality(Closed') + Cardinality(Over')
  BY <1>1, <1>2, <1>3, <1>4, <1>5, Finite
<1>. QED  BY <1>6, Zenon DEF MetricsExact, Closed, Live, Over

\* A tunnel gives its slot back and is not counted: its streams are.
LEMMA MetricsTunnel ==
  ASSUME NEW c \in Conns, MetricsExact, Elsewhere(c), stream' = stream,
         pc[c] = "tunnel", pc'[c] = "ended", judged'[c] = "allow", mux'[c],
         record_tunnel_closed
  PROVE  MetricsExact'
<1>1. /\ c \in Open /\ Open' = Open \ {c} /\ Closed' = Closed
  BY Zenon DEF Elsewhere, Open, Closed
<1>2. Live' = Live /\ Over' = Over
  BY Zenon DEF Live, Over, StreamsIn
<1>3. Cardinality(Open') = Cardinality(Open) - 1
  BY <1>1, Finite, DropOne, Zenon
<1>4. gauge' = gauge - 1 /\ total' = total
  BY Zenon DEF record_tunnel_closed
<1>5. /\ gauge = Cardinality(Open) + Cardinality(Live)
      /\ total = Cardinality(Closed) + Cardinality(Over)
  BY Exact, Zenon
<1>6. /\ gauge' = Cardinality(Open') + Cardinality(Live')
      /\ total' = Cardinality(Closed') + Cardinality(Over')
  BY <1>1, <1>2, <1>3, <1>4, <1>5, Finite
<1>. QED  BY <1>6, Zenon DEF MetricsExact, Closed, Live, Over

\* One stream's relay changes its state.
Puts(c, s, v) ==
  \A d \in Conns, b \in Streams :
    stream'[d][b] = IF d = c /\ b = s THEN v ELSE stream[d][b]

\* The same, over pairs.
LEMMA StreamMoves ==
  ASSUME NEW c \in Conns, NEW s \in Streams, NEW v,
         Puts(c, s, v)
  PROVE  /\ <<c, s>> \in Conns \X Streams
         /\ stream'[c][s] = v
         /\ \A x \in Conns \X Streams :
              x # <<c, s>> => stream'[x[1]][x[2]] = stream[x[1]][x[2]]
<1>1. \A x \in Conns \X Streams :
        /\ x[1] \in Conns /\ x[2] \in Streams
        /\ x = <<c, s>> <=> x[1] = c /\ x[2] = s
  OBVIOUS
<1>. QED  BY <1>1, Zenon DEF Puts

\* A spawned relay starts and takes its slot.
LEMMA MetricsStreamBegin ==
  ASSUME NEW c \in Conns, NEW s \in Streams, MetricsExact, UNCHANGED <<pc, judged, mux>>,
         Puts(c, s, "dialing"),
         stream[c][s] = "spawned", record_connection_start
  PROVE  MetricsExact'
<1>1. Open' = Open /\ Closed' = Closed
  BY Zenon DEF Open, Closed
<1>2. Live' = Live \cup {<<c, s>>} /\ <<c, s>> \notin Live
  BY StreamMoves DEF Live, StreamsIn
<1>3. Over' = Over
  <2>1. /\ stream'[c][s] = "dialing"
        /\ \A x \in Conns \X Streams :
             x # <<c, s>> => stream'[x[1]][x[2]] = stream[x[1]][x[2]]
    BY StreamMoves, ZenonT(40)
  <2>2. \A x \in Conns \X Streams :
          stream'[x[1]][x[2]] \in {"ended"} <=> stream[x[1]][x[2]] \in {"ended"}
    BY <2>1
  <2>. QED  BY <2>2, Zenon DEF Over, StreamsIn
<1>4. Cardinality(Live') = Cardinality(Live) + 1
  BY <1>2, Finite, AddOne, Zenon
<1>5. gauge' = gauge + 1 /\ total' = total
  BY Zenon DEF record_connection_start
<1>6. /\ gauge = Cardinality(Open) + Cardinality(Live)
      /\ total = Cardinality(Closed) + Cardinality(Over)
  BY Exact, Zenon
<1>7. /\ gauge' = Cardinality(Open') + Cardinality(Live')
      /\ total' = Cardinality(Closed') + Cardinality(Over')
  BY <1>1, <1>3, <1>4, <1>5, <1>6, Finite
<1>. QED  BY <1>7, Zenon DEF MetricsExact, Closed, Live, Over

\* A relay is over, or its dial failed: it gives its slot back and is counted.
LEMMA MetricsStreamEnd ==
  ASSUME NEW c \in Conns, NEW s \in Streams, MetricsExact, UNCHANGED <<pc, judged, mux>>,
         Puts(c, s, "ended"),
         stream[c][s] \in {"dialing", "relaying"}, record_connection
  PROVE  MetricsExact'
<1>1. Open' = Open /\ Closed' = Closed
  BY Zenon DEF Open, Closed
<1>2. Live' = Live \ {<<c, s>>} /\ <<c, s>> \in Live
  BY StreamMoves DEF Live, StreamsIn
<1>3. Over' = Over \cup {<<c, s>>} /\ <<c, s>> \notin Over
  BY StreamMoves DEF Over, StreamsIn
<1>4. Cardinality(Live') = Cardinality(Live) - 1 /\ Cardinality(Over') = Cardinality(Over) + 1
  BY <1>2, <1>3, Finite, AddOne, DropOne, Zenon
<1>5. gauge' = gauge - 1 /\ total' = total + 1
  BY Zenon DEF record_connection
<1>6. /\ gauge = Cardinality(Open) + Cardinality(Live)
      /\ total = Cardinality(Closed) + Cardinality(Over)
  BY Exact, Zenon
<1>7. gauge' = Cardinality(Open') + Cardinality(Live')
  <2>1. gauge' = (Cardinality(Open) + Cardinality(Live)) - 1
    BY <1>5, <1>6, Zenon
  <2>. QED  BY <1>1, <1>4, <2>1, Finite
<1>8. total' = Cardinality(Closed') + Cardinality(Over')
  <2>1. total' = (Cardinality(Closed) + Cardinality(Over)) + 1
    BY <1>5, <1>6, Zenon
  <2>. QED  BY <1>1, <1>4, <2>1, Finite
<1>. QED  BY <1>7, <1>8, Zenon DEF MetricsExact, Closed, Live, Over

\* A relay is spawned, or its dial succeeds: neither moves a counter.
LEMMA MetricsStreamInside ==
  ASSUME NEW c \in Conns, NEW s \in Streams, MetricsExact, UNCHANGED <<pc, judged, mux, metrics>>,
         NEW v, Puts(c, s, v),
         \/ stream[c][s] = "none" /\ v = "spawned"
         \/ stream[c][s] = "dialing" /\ v = "relaying"
  PROVE  MetricsExact'
<1>1. Open' = Open /\ Closed' = Closed
  BY Zenon DEF Open, Closed
<1>2. Live' = Live /\ Over' = Over
  <2>1. /\ stream'[c][s] = v
        /\ \A x \in Conns \X Streams :
             x # <<c, s>> => stream'[x[1]][x[2]] = stream[x[1]][x[2]]
    BY StreamMoves, ZenonT(40)
  <2>2. \A x \in Conns \X Streams :
          /\ stream'[x[1]][x[2]] \in {"dialing", "relaying"} <=> stream[x[1]][x[2]] \in {"dialing", "relaying"}
          /\ stream'[x[1]][x[2]] \in {"ended"} <=> stream[x[1]][x[2]] \in {"ended"}
    BY <2>1
  <2>. QED  BY <2>2, Zenon DEF Live, Over, StreamsIn
<1>. QED  BY <1>1, <1>2, MetricsStay, Zenon

-----------------------------------------------------------------------------
(* The steps of a connection *)

Same(d) ==
  /\ pc'[d] = pc[d] /\ judged'[d] = judged[d] /\ mux'[d] = mux[d]
  /\ sent'[d] = sent[d] /\ taken'[d] = taken[d] /\ got'[d] = got[d]
  /\ heard'[d] = heard[d] /\ stream'[d] = stream[d]

\* What a step of c has to establish: the other connections stay as they are.
LEMMA InvFrom ==
  ASSUME Inv, NEW c \in Conns, Types', \A d \in Conns \ {c} : Same(d),
         Stages(c)', Bytes(c)', Checked(c)', MetricsExact'
  PROVE  Inv'
<1>1. ASSUME NEW d \in Conns \ {c} PROVE Stages(d)' /\ Bytes(d)' /\ Checked(d)'
  <2>1. Stages(d)'
    <3>1. Untouched(d) => Untouched(d)'
      BY Zenon DEF Same, Untouched
    <3>2. Stages(d) /\ pc'[d] = pc[d] /\ judged'[d] = judged[d] /\ mux'[d] = mux[d]
      BY Zenon DEF Inv, Same
    <3>. QED  BY <3>1, <3>2, Zenon DEF Stages, Early
  <2>2. Bytes(d)'
    BY Zenon DEF Inv, Same, Bytes
  <2>3. Checked(d)'
    BY ZenonT(40) DEF Inv, Same, Checked
  <2>. QED  BY <2>1, <2>2, <2>3, Zenon
<1>2. \A d \in Conns : Stages(d)' /\ Bytes(d)' /\ Checked(d)'
  BY <1>1, Zenon
<1>. QED  BY <1>2, Zenon DEF Inv

\* A connection moves and nothing is known yet.
LEMMA InvInit == Init => Inv
<1> SUFFICES ASSUME Init PROVE Inv
  BY Zenon
<1>1. Types
  <2>1. /\ pc \in [Conns -> PCs] /\ tls \in [Conns -> {"pending", "ok", "failed"}]
        /\ up \in [Conns -> {"pending", "ok", "failed"}]
        /\ judged \in [Conns -> {"none", "allow", "deny"}]
    BY Zenon DEF Init, PCs
  <2>2. /\ mux \in [Conns -> BOOLEAN] /\ eof \in [Conns -> BOOLEAN]
        /\ greeted \in [Conns -> BOOLEAN] /\ heard \in [Conns -> BOOLEAN] /\ allow \subseteq Conns
    BY Zenon DEF Init
  <2>3. /\ sent \in [Conns -> 0..MaxBytes] /\ taken \in [Conns -> 0..MaxBytes]
        /\ got \in [Conns -> Seq(1..MaxBytes)]
    BY InboundAssumption DEF Init
  <2>4. stream \in [Conns -> [Streams -> {"none", "spawned", "dialing", "relaying", "ended"}]]
    <3>1. [s \in Streams |-> "none"] \in
            [Streams -> {"none", "spawned", "dialing", "relaying", "ended"}]
      BY Zenon
    <3>. QED  BY <3>1, Zenon DEF Init
  <2>. QED  BY <2>1, <2>2, <2>3, <2>4, Zenon DEF Types
<1>2. ASSUME NEW c \in Conns PROVE Stages(c) /\ Bytes(c) /\ Checked(c)
  <2>1. /\ pc[c] = "new" /\ judged[c] = "none" /\ got[c] = <<>> /\ taken[c] = 0 /\ sent[c] = 0
        /\ heard[c] = FALSE /\ \A s \in Streams : stream[c][s] = "none"
    BY Zenon DEF Init
  <2>. QED  BY <2>1 DEF Stages, Untouched, Bytes, BytesOf, Checked
<1>3. MetricsExact
  <2>1. Open = {} /\ Closed = {}
    BY Zenon DEF Init, Open, Closed
  <2>2. Live = {} /\ Over = {}
    <3>1. \A x \in Conns \X Streams : stream[x[1]][x[2]] = "none"
      BY Zenon DEF Init
    <3>. QED  BY <3>1, Zenon DEF Live, Over, StreamsIn
  <2>3. gauge = 0 /\ total = 0
    BY Zenon DEF Init
  <2>4. Cardinality({}) = 0
    BY FS_EmptySet, Zenon
  <2>. QED  BY <2>1, <2>2, <2>3, <2>4, Exact
<1>. QED  BY <1>1, <1>2, <1>3, Zenon DEF Inv

\* The handler moves on.
LEMMA Goes ==
  ASSUME Types, NEW c \in Conns, NEW l \in PCs, Goto(c, l)
  PROVE  pc' \in [Conns -> PCs] /\ pc'[c] = l /\ \A d \in Conns \ {c} : pc'[d] = pc[d]
BY Zenon DEF Goto, Types

\* The handler returns and its connection is counted, whatever it had forwarded.
LEMMA InvEnd ==
  ASSUME Inv, NEW c \in Conns, pc[c] \notin {"new", "ended"}, End(c),
         UNCHANGED <<tls, up, mux, peerVars>>,
         judged' \in [Conns -> {"none", "allow", "deny"}],
         \A d \in Conns \ {c} : judged'[d] = judged[d],
         judged'[c] = "allow" => ~mux[c], judged[c] = "allow" => judged'[c] = "allow"
  PROVE  Inv'
<1> USE DEF Inv
<1>1. /\ pc' \in [Conns -> PCs] /\ pc'[c] = "ended"
      /\ \A d \in Conns \ {c} : pc'[d] = pc[d]
  <2>1. "ended" \in PCs /\ Goto(c, "ended")
    BY Zenon DEF PCs, End
  <2>. QED  BY <2>1, Goes, Zenon
<1>2. UNCHANGED <<tls, up, mux, allow, sent, eof, greeted, taken, got, heard, stream>>
  BY Zenon DEF End, peerVars, dataVars
<1>3. Types'
  BY <1>1, <1>2, Zenon DEF Types
<1>4. \A d \in Conns \ {c} : Same(d)
  BY <1>1, <1>2, Zenon DEF Same
<1>5. Stages(c)'
  BY <1>1, Zenon DEF Stages, Early
<1>6. Bytes(c)'
  BY <1>1, <1>2, Zenon DEF Bytes, BytesOf
<1>7. Checked(c)'
  BY <1>2, Zenon DEF Checked
<1>8. MetricsExact'
  <2>1. Elsewhere(c) /\ record_connection
    BY <1>1, <1>2, Zenon DEF Elsewhere, End
  <2>. QED  BY <1>1, <1>2, <2>1, MetricsEnd, Zenon
<1>. QED  BY <1>3, <1>4, <1>5, <1>6, <1>7, <1>8, InvFrom, Zenon

\* The same where the policy's decision is not touched.
LEMMA InvReturns ==
  ASSUME Inv, NEW c \in Conns, pc[c] \notin {"new", "tunnel", "ended"}, End(c),
         UNCHANGED <<joinVars, peerVars>>
  PROVE  Inv'
<1>1. /\ UNCHANGED <<tls, up, mux, judged>> /\ judged' \in [Conns -> {"none", "allow", "deny"}]
  BY Zenon DEF joinVars, Inv, Types
<1>2. judged[c] = "allow" => ~mux[c]
  BY Zenon DEF Inv, Types, PCs, Stages, Early
<1>. QED  BY <1>1, <1>2, InvEnd, Zenon

\* A handler moves on without having touched the client's bytes.
LEMMA InvMoves ==
  ASSUME Inv, NEW c \in Conns, pc[c] \in {"resolve", "join", "policy"},
         pc' \in [Conns -> PCs], pc'[c] \notin {"new", "ended"},
         \A d \in Conns \ {c} : pc'[d] = pc[d] /\ judged'[d] = judged[d] /\ mux'[d] = mux[d],
         tls' \in [Conns -> {"pending", "ok", "failed"}],
         up' \in [Conns -> {"pending", "ok", "failed"}],
         mux' \in [Conns -> BOOLEAN], judged' \in [Conns -> {"none", "allow", "deny"}],
         UNCHANGED <<peerVars, dataVars, stream, metrics>>,
         Untouched(c)' => Stages(c)'
  PROVE  Inv'
<1> USE DEF Inv
<1>1. UNCHANGED <<allow, sent, eof, greeted, taken, got, heard, stream>>
  BY Zenon DEF peerVars, dataVars
<1>2. Types'
  BY <1>1, Zenon DEF Types
<1>3. \A d \in Conns \ {c} : Same(d)
  BY <1>1, Zenon DEF Same
<1>4. Untouched(c)'
  <2>1. Untouched(c)
    BY Zenon DEF Stages, Early
  <2>. QED  BY <1>1, <2>1, Zenon DEF Untouched
<1>5. Bytes(c)'
  <2>1. got'[c] = <<>> /\ taken'[c] = 0
    BY <1>4, Zenon DEF Untouched
  <2>2. sent'[c] \in 0..MaxBytes
    BY <1>2, Zenon DEF Types
  <2>. QED  BY <2>1, <2>2, InboundAssumption DEF Bytes, BytesOf
<1>6. Checked(c)'
  BY <1>4, Zenon DEF Checked, Untouched
<1>7. MetricsExact'
  <2>1. Elsewhere(c) /\ pc[c] \notin {"new", "ended"}
    BY Zenon DEF Elsewhere
  <2>. QED  BY <1>1, <2>1, MetricsInside, Zenon
<1>. QED  BY <1>2, <1>3, <1>4, <1>5, <1>6, <1>7, InvFrom, Zenon

LEMMA InvBegin ==
  ASSUME Inv, NEW c \in Conns, Begin(c)
  PROVE  Inv'
<1> USE DEF Inv
<1>1. /\ pc[c] = "new" /\ pc' \in [Conns -> PCs] /\ pc'[c] = "resolve"
      /\ \A d \in Conns \ {c} : pc'[d] = pc[d]
  <2>1. "resolve" \in PCs /\ Goto(c, "resolve") /\ pc[c] = "new"
    BY Zenon DEF PCs, Begin
  <2>. QED  BY <2>1, Goes, Zenon
<1>2. UNCHANGED <<tls, up, mux, judged, allow, sent, eof, greeted, taken, got, heard, stream>>
  BY Zenon DEF Begin, joinVars, peerVars, dataVars
<1>3. Types'
  BY <1>1, <1>2, Zenon DEF Types
<1>4. \A d \in Conns \ {c} : Same(d)
  BY <1>1, <1>2, Zenon DEF Same
<1>5. Stages(c)'
  <2>1. judged[c] = "none" /\ Untouched(c)
    BY <1>1, Zenon DEF Stages, Early
  <2>2. judged'[c] = "none" /\ Untouched(c)'
    BY <1>2, <2>1, Zenon DEF Untouched
  <2>. QED  BY <1>1, <2>2, Zenon DEF Stages
<1>6. Bytes(c)'
  BY <1>1, <1>2, Zenon DEF Bytes, BytesOf
<1>7. Checked(c)'
  BY <1>2, Zenon DEF Checked
<1>8. MetricsExact'
  <2>1. Elsewhere(c) /\ record_connection_start
    BY <1>1, <1>2, Zenon DEF Elsewhere, Begin
  <2>. QED  BY <1>1, <1>2, <2>1, MetricsBegin, Zenon
<1>. QED  BY <1>3, <1>4, <1>5, <1>6, <1>7, <1>8, InvFrom, Zenon

LEMMA InvResolve ==
  ASSUME Inv, NEW c \in Conns, Resolve(c)
  PROVE  Inv'
<1>1. pc[c] = "resolve" /\ UNCHANGED <<joinVars, peerVars>>
  BY Zenon DEF Resolve
<1>2. CASE End(c)
  BY <1>1, <1>2, InvReturns, Zenon
<1>3. CASE Goto(c, "join") /\ UNCHANGED <<dataVars, stream, metrics>>
  <2>1. /\ pc' \in [Conns -> PCs] /\ pc'[c] = "join"
        /\ \A d \in Conns \ {c} : pc'[d] = pc[d]
    <3>1. "join" \in PCs /\ Types
      BY Zenon DEF PCs, Inv
    <3>. QED  BY <1>3, <3>1, Goes, Zenon
  <2>2. UNCHANGED <<tls, up, mux, judged>>
    BY <1>1, Zenon DEF joinVars
  <2>3. Untouched(c)' => Stages(c)'
    BY <1>1, <2>1, <2>2, Zenon DEF Inv, Stages, Early
  <2>. QED  BY <1>1, <1>3, <2>1, <2>2, <2>3, InvMoves, Zenon DEF Inv, Types
<1>. QED  BY <1>2, <1>3, Zenon DEF Resolve

LEMMA InvTlsAccept ==
  ASSUME Inv, NEW c \in Conns, TlsAccept(c)
  PROVE  Inv'
<1>1. pc[c] = "join" /\ UNCHANGED <<pc, up, judged, peerVars, dataVars, stream, metrics>>
  BY Zenon DEF TlsAccept
<1>2. /\ tls' \in [Conns -> {"pending", "ok", "failed"}] /\ mux' \in [Conns -> BOOLEAN]
      /\ \A d \in Conns \ {c} : mux'[d] = mux[d]
  <2>1. /\ tls \in [Conns -> {"pending", "ok", "failed"}] /\ mux \in [Conns -> BOOLEAN]
        /\ "ok" \in {"pending", "ok", "failed"} /\ "failed" \in {"pending", "ok", "failed"}
    BY Zenon DEF Inv, Types
  <2>2. CASE tls' = [tls EXCEPT ![c] = "failed"] /\ mux' = mux
    BY <2>1, <2>2, PutAt, Zenon
  <2>3. ASSUME NEW m \in BOOLEAN, tls' = [tls EXCEPT ![c] = "ok"], mux' = [mux EXCEPT ![c] = m]
        PROVE  /\ tls' \in [Conns -> {"pending", "ok", "failed"}] /\ mux' \in [Conns -> BOOLEAN]
               /\ \A d \in Conns \ {c} : mux'[d] = mux[d]
    BY <2>1, <2>3, PutAt, Zenon
  <2>. QED  BY <2>2, <2>3, Zenon DEF TlsAccept
<1>3. Untouched(c)' => Stages(c)'
  BY <1>1, Zenon DEF Inv, Stages, Early
<1>. QED  BY <1>1, <1>2, <1>3, InvMoves, Zenon DEF Inv, Types

LEMMA InvUpstreamConnect ==
  ASSUME Inv, NEW c \in Conns, UpstreamConnect(c)
  PROVE  Inv'
<1>1. pc[c] = "join" /\ UNCHANGED <<pc, tls, mux, judged, peerVars, dataVars, stream, metrics>>
  BY Zenon DEF UpstreamConnect
<1>2. up' \in [Conns -> {"pending", "ok", "failed"}]
  <2>1. PICK r \in {"ok", "failed"} : up' = [up EXCEPT ![c] = r]
    BY Zenon DEF UpstreamConnect
  <2>2. up \in [Conns -> {"pending", "ok", "failed"}] /\ r \in {"pending", "ok", "failed"}
    BY <2>1, Zenon DEF Inv, Types
  <2>. QED  BY <2>1, <2>2, PutAt, Zenon
<1>3. Untouched(c)' => Stages(c)'
  BY <1>1, Zenon DEF Inv, Stages, Early
<1>. QED  BY <1>1, <1>2, <1>3, InvMoves, Zenon DEF Inv, Types

LEMMA InvJoined ==
  ASSUME Inv, NEW c \in Conns, Joined(c)
  PROVE  Inv'
<1>1. pc[c] = "join" /\ UNCHANGED <<joinVars, peerVars>>
  BY Zenon DEF Joined
<1>2. CASE End(c)
  BY <1>1, <1>2, InvReturns, Zenon
<1>3. CASE Goto(c, "policy") /\ UNCHANGED <<dataVars, stream, metrics>>
  <2>1. /\ pc' \in [Conns -> PCs] /\ pc'[c] = "policy"
        /\ \A d \in Conns \ {c} : pc'[d] = pc[d]
    <3>1. "policy" \in PCs /\ Types
      BY Zenon DEF PCs, Inv
    <3>. QED  BY <1>3, <3>1, Goes, Zenon
  <2>2. UNCHANGED <<tls, up, mux, judged>>
    BY <1>1, Zenon DEF joinVars
  <2>3. Untouched(c)' => Stages(c)'
    BY <1>1, <2>1, <2>2, Zenon DEF Inv, Stages, Early
  <2>. QED  BY <1>1, <1>3, <2>1, <2>2, <2>3, InvMoves, Zenon DEF Inv, Types
<1>. QED  BY <1>2, <1>3, Zenon DEF Joined

\* A denied connection ends here; an allowed one is from here on known to be.
LEMMA InvEvaluate ==
  ASSUME Inv, NEW c \in Conns, Evaluate(c)
  PROVE  Inv'
<1>1. pc[c] = "policy" /\ UNCHANGED <<tls, up, mux, peerVars>>
  BY Zenon DEF Evaluate
<1>2. /\ judged' \in [Conns -> {"none", "allow", "deny"}]
      /\ judged'[c] = IF c \in allow THEN "allow" ELSE "deny"
      /\ \A d \in Conns \ {c} : judged'[d] = judged[d]
  BY Zenon DEF Evaluate, Inv, Types
<1>3. CASE c \notin allow
  <2>1. End(c) /\ judged'[c] = "deny" /\ judged[c] = "none"
    BY <1>1, <1>2, <1>3, Zenon DEF Evaluate, Inv, Stages, Early
  <2>. QED  BY <1>1, <1>2, <2>1, InvEnd, Zenon
<1>4. CASE c \in allow
  <2> DEFINE l == IF mux[c] THEN "tunnel" ELSE "detect"
  <2>1. Goto(c, l) /\ UNCHANGED <<dataVars, stream, metrics>> /\ judged'[c] = "allow"
    BY <1>2, <1>4, Zenon DEF Evaluate
  <2>2. /\ pc' \in [Conns -> PCs] /\ pc'[c] = l
        /\ \A d \in Conns \ {c} : pc'[d] = pc[d]
    <3>1. l \in PCs /\ Types
      BY Zenon DEF PCs, Inv
    <3> HIDE DEF l
    <3>. QED  BY <2>1, <3>1, Goes, Zenon
  <2>3. Untouched(c)' => Stages(c)'
    BY <1>1, <2>1, <2>2, Zenon DEF Stages, Early
  <2>4. pc'[c] \notin {"new", "ended"}
    BY <2>2, Zenon
  <2>. QED  BY <1>1, <1>2, <2>1, <2>2, <2>3, <2>4, InvMoves, Zenon DEF Inv, Types
<1>. QED  BY <1>3, <1>4, Zenon

-----------------------------------------------------------------------------
(* The bytes of an allowed connection *)

\* A 1:1 connection reads or writes.
LEMMA InvData ==
  ASSUME Inv, NEW c \in Conns, pc[c] \in {"detect", "forward", "relay"},
         pc' \in [Conns -> PCs], pc'[c] \in {"detect", "forward", "relay"},
         taken' \in [Conns -> 0..MaxBytes], got' \in [Conns -> Seq(1..MaxBytes)],
         heard' \in [Conns -> BOOLEAN],
         \A d \in Conns \ {c} : /\ pc'[d] = pc[d] /\ taken'[d] = taken[d]
                                /\ got'[d] = got[d] /\ heard'[d] = heard[d],
         UNCHANGED <<joinVars, peerVars, stream, metrics>>, Bytes(c)'
  PROVE  Inv'
<1> USE DEF Inv
<1>1. UNCHANGED <<tls, up, mux, judged, allow, sent, eof, greeted, stream>>
  BY Zenon DEF joinVars, peerVars
<1>2. Types'
  BY <1>1, Zenon DEF Types
<1>3. \A d \in Conns \ {c} : Same(d)
  BY <1>1, Zenon DEF Same
<1>4. judged'[c] = "allow" /\ ~mux'[c]
  BY <1>1, Zenon DEF Stages
<1>5. Stages(c)' /\ Checked(c)'
  BY <1>4, Zenon DEF Stages, Early, Checked
<1>6. MetricsExact'
  <2>1. Elsewhere(c) /\ pc[c] \notin {"new", "ended"} /\ pc'[c] \notin {"new", "ended"}
    BY <1>1, Zenon DEF Elsewhere
  <2>. QED  BY <1>1, <2>1, MetricsInside, Zenon
<1>. QED  BY <1>2, <1>3, <1>5, <1>6, InvFrom, Zenon

\* What the proofs below need of one connection.
LEMMA Numbers ==
  ASSUME Inv, NEW c \in Conns
  PROVE  /\ sent[c] \in Nat /\ sent[c] <= MaxBytes /\ taken[c] \in Nat /\ taken[c] <= sent[c]
         /\ got[c] \in Seq(1..MaxBytes) /\ MaxBytes \in Nat
         /\ taken \in [Conns -> 0..MaxBytes] /\ got \in [Conns -> Seq(1..MaxBytes)]
         /\ heard \in [Conns -> BOOLEAN]
<1>1. /\ sent \in [Conns -> 0..MaxBytes] /\ taken \in [Conns -> 0..MaxBytes]
      /\ got \in [Conns -> Seq(1..MaxBytes)] /\ heard \in [Conns -> BOOLEAN]
      /\ taken[c] <= sent[c]
  BY Zenon DEF Inv, Types, Bytes, BytesOf
<1>2. sent[c] \in 0..MaxBytes /\ taken[c] \in 0..MaxBytes /\ got[c] \in Seq(1..MaxBytes)
  BY <1>1, Zenon
<1>. QED  BY <1>1, <1>2, InboundAssumption

LEMMA InvDetect ==
  ASSUME Inv, NEW c \in Conns, Detect(c)
  PROVE  Inv'
<1>1. pc[c] = "detect" /\ UNCHANGED <<joinVars, peerVars>>
  BY Zenon DEF Detect
<1>2. CASE End(c)
  BY <1>1, <1>2, InvReturns, Zenon
<1>3. ASSUME NEW n \in 1..ProtocolDetect, n <= sent[c], taken' = [taken EXCEPT ![c] = n],
             Goto(c, "forward"), UNCHANGED <<got, heard, stream, metrics>>
      PROVE  Inv'
  <2>1. /\ pc' \in [Conns -> PCs] /\ pc'[c] = "forward"
        /\ \A d \in Conns \ {c} : pc'[d] = pc[d]
    <3>1. "forward" \in PCs /\ Types
      BY Zenon DEF PCs, Inv
    <3>. QED  BY <1>3, <3>1, Goes, Zenon
  <2>2. n \in 0..MaxBytes
    BY <1>3, Numbers, InboundAssumption
  <2>3. /\ taken' \in [Conns -> 0..MaxBytes] /\ taken'[c] = n
        /\ \A d \in Conns \ {c} : taken'[d] = taken[d]
    BY <1>3, <2>2, Numbers, PutAt, Zenon
  <2>4. Bytes(c)'
    <3>1. got'[c] = <<>> /\ sent'[c] = sent[c]
      BY <1>1, <1>3, Zenon DEF Inv, Bytes, BytesOf, peerVars
    <3>. QED  BY <1>3, <2>1, <2>2, <2>3, <3>1 DEF Bytes, BytesOf
  <2>. QED  BY <1>1, <1>3, <2>1, <2>3, <2>4, Numbers, InvData, Zenon
<1>. QED  BY <1>2, <1>3, Zenon DEF Detect

LEMMA InvForward ==
  ASSUME Inv, NEW c \in Conns, Forward(c)
  PROVE  Inv'
<1>1. pc[c] = "forward" /\ Goto(c, "relay") /\ UNCHANGED <<joinVars, peerVars, taken, heard, stream, metrics>>
  BY Zenon DEF Forward
<1>2. /\ pc' \in [Conns -> PCs] /\ pc'[c] = "relay"
      /\ \A d \in Conns \ {c} : pc'[d] = pc[d]
  <2>1. "relay" \in PCs /\ Types
    BY Zenon DEF PCs, Inv
  <2>. QED  BY <1>1, <2>1, Goes, Zenon
<1> DEFINE w == [i \in 1..taken[c] |-> i]
<1>3. w \in Seq(1..MaxBytes) /\ Len(w) = taken[c]
  BY Numbers
<1>4. /\ got' \in [Conns -> Seq(1..MaxBytes)] /\ got'[c] = w
      /\ \A d \in Conns \ {c} : got'[d] = got[d]
  <2>1. got' = [got EXCEPT ![c] = w] /\ got \in [Conns -> Seq(1..MaxBytes)]
    BY Numbers, Zenon DEF Forward
  <2> HIDE DEF w
  <2>. QED  BY <1>3, <2>1, PutAt, Zenon
<1>5. Bytes(c)'
  <2>1. taken'[c] = taken[c] /\ sent'[c] = sent[c]
    BY <1>1, Zenon DEF peerVars
  <2>. QED  BY <1>2, <1>3, <1>4, <2>1, Numbers DEF Bytes, BytesOf
<1>. QED  BY <1>1, <1>2, <1>4, <1>5, Numbers, InvData, Zenon

LEMMA InvCopyUp ==
  ASSUME Inv, NEW c \in Conns, CopyUp(c)
  PROVE  Inv'
<1>1. pc[c] = "relay" /\ UNCHANGED <<pc, joinVars, peerVars, heard, stream, metrics>>
  BY Zenon DEF CopyUp
<1>2. taken[c] + 1 \in 0..MaxBytes /\ taken[c] + 1 \in 1..MaxBytes /\ taken[c] + 1 <= sent[c]
  BY Numbers DEF CopyUp
<1> DEFINE t == taken[c] + 1
           w == Append(got[c], t)
<1>3. /\ taken' \in [Conns -> 0..MaxBytes] /\ taken'[c] = t
      /\ \A d \in Conns \ {c} : taken'[d] = taken[d]
  <2>1. taken' = [taken EXCEPT ![c] = t]
    BY Zenon DEF CopyUp
  <2> HIDE DEF t
  <2>. QED  BY <1>2, <2>1, Numbers, PutAt, Zenon DEF t
<1>4. w \in Seq(1..MaxBytes) /\ Len(w) = t /\ w = [i \in 1..t |-> i]
  <2>1. got[c] \in Seq(1..MaxBytes) /\ Len(got[c]) = taken[c] /\ got[c] = [i \in 1..Len(got[c]) |-> i]
    BY <1>1, Numbers, Zenon DEF Inv, Bytes, BytesOf
  <2>. QED  BY <1>2, <2>1, Numbers
<1>5. /\ got' \in [Conns -> Seq(1..MaxBytes)] /\ got'[c] = w
      /\ \A d \in Conns \ {c} : got'[d] = got[d]
  <2>1. got' = [got EXCEPT ![c] = w] /\ got \in [Conns -> Seq(1..MaxBytes)]
    BY Numbers, Zenon DEF CopyUp
  <2> HIDE DEF w
  <2>. QED  BY <1>4, <2>1, PutAt, Zenon
<1>6. Bytes(c)'
  <2>1. sent'[c] = sent[c] /\ pc'[c] = "relay"
    BY <1>1, Zenon DEF peerVars
  <2>2. got'[c] = [i \in 1..Len(got'[c]) |-> i] /\ Len(got'[c]) = t
    BY <1>4, <1>5, Zenon
  <2>. QED  BY <1>2, <1>3, <2>1, <2>2, Numbers DEF Bytes, BytesOf
<1>7. pc' \in [Conns -> PCs]
  BY <1>1, Zenon DEF Inv, Types
<1>. QED  BY <1>1, <1>3, <1>5, <1>6, <1>7, Numbers, InvData, Zenon

LEMMA InvCopyDown ==
  ASSUME Inv, NEW c \in Conns, CopyDown(c)
  PROVE  Inv'
<1>1. pc[c] = "relay" /\ UNCHANGED <<pc, joinVars, peerVars, taken, got, stream, metrics>>
  BY Zenon DEF CopyDown
<1>2. heard' \in [Conns -> BOOLEAN] /\ \A d \in Conns \ {c} : heard'[d] = heard[d]
  BY Numbers, PutAt, Zenon DEF CopyDown
<1>3. Bytes(c)'
  BY <1>1, Zenon DEF Inv, Bytes, BytesOf, peerVars
<1>4. pc' \in [Conns -> PCs]
  BY <1>1, Zenon DEF Inv, Types
<1>. QED  BY <1>1, <1>2, <1>3, <1>4, Numbers, InvData, Zenon

-----------------------------------------------------------------------------
(* The streams of a tunnel *)

LEMMA InvTunnelCloses ==
  ASSUME Inv, NEW c \in Conns, TunnelCloses(c)
  PROVE  Inv'
<1> USE DEF Inv
<1>1. /\ pc[c] = "tunnel" /\ pc' \in [Conns -> PCs] /\ pc'[c] = "ended"
      /\ \A d \in Conns \ {c} : pc'[d] = pc[d]
  <2>1. "ended" \in PCs /\ Goto(c, "ended") /\ pc[c] = "tunnel"
    BY Zenon DEF PCs, TunnelCloses
  <2>. QED  BY <2>1, Goes, Zenon
<1>2. UNCHANGED <<tls, up, mux, judged, allow, sent, eof, greeted, taken, got, heard, stream>>
  BY Zenon DEF TunnelCloses, joinVars, peerVars, dataVars
<1>3. Types'
  BY <1>1, <1>2, Zenon DEF Types
<1>4. \A d \in Conns \ {c} : Same(d)
  BY <1>1, <1>2, Zenon DEF Same
<1>5. Stages(c)'
  BY <1>1, Zenon DEF Stages, Early
<1>6. Bytes(c)'
  BY <1>1, <1>2, Zenon DEF Bytes, BytesOf
<1>7. Checked(c)'
  BY <1>2, Zenon DEF Checked
<1>8. MetricsExact'
  <2>1. Elsewhere(c) /\ record_tunnel_closed /\ judged'[c] = "allow" /\ mux'[c]
    BY <1>1, <1>2, Zenon DEF Elsewhere, TunnelCloses, Stages
  <2>. QED  BY <1>1, <1>2, <2>1, MetricsTunnel, Zenon
<1>. QED  BY <1>3, <1>4, <1>5, <1>6, <1>7, <1>8, InvFrom, Zenon

RelayStates == {"none", "spawned", "dialing", "relaying", "ended"}

\* A stream of an allowed connection moves.
LEMMA InvStream ==
  ASSUME Inv, NEW c \in Conns, NEW s \in Streams,
         NEW v \in RelayStates,
         judged[c] = "allow", stream' = [stream EXCEPT ![c][s] = v],
         UNCHANGED <<pc, joinVars, peerVars, dataVars>>, MetricsExact'
  PROVE  Inv'
<1> USE DEF Inv
<1>1. UNCHANGED <<pc, tls, up, mux, judged, allow, sent, eof, greeted, taken, got, heard>>
  BY Zenon DEF joinVars, peerVars, dataVars
<1>2. /\ stream' \in [Conns -> [Streams -> {"none", "spawned", "dialing", "relaying", "ended"}]]
      /\ \A d \in Conns \ {c} : stream'[d] = stream[d]
  <2>1. stream \in [Conns -> [Streams -> RelayStates]]
    BY Zenon DEF Types, RelayStates
  <2>2. stream' \in [Conns -> [Streams -> RelayStates]] /\ \A d \in Conns \ {c} : stream'[d] = stream[d]
    BY <2>1, PutInside, Zenon
  <2>. QED  BY <2>2, Zenon DEF RelayStates
<1>3. Types'
  BY <1>1, <1>2, Zenon DEF Types
<1>4. \A d \in Conns \ {c} : Same(d)
  BY <1>1, <1>2, Zenon DEF Same
<1>5. Stages(c)'
  BY <1>1, Zenon DEF Stages, Early
<1>6. Bytes(c)'
  BY <1>1, Zenon DEF Bytes, BytesOf
<1>7. Checked(c)'
  BY <1>1, Zenon DEF Checked
<1>. QED  BY <1>3, <1>4, <1>5, <1>6, <1>7, InvFrom, Zenon

\* The new value of a stream, read off pointwise.
LEMMA StreamPut ==
  ASSUME Inv, NEW c \in Conns, NEW s \in Streams,
         NEW v \in RelayStates,
         stream' = [stream EXCEPT ![c][s] = v]
  PROVE  Puts(c, s, v)
<1>1. stream \in [Conns -> [Streams -> RelayStates]]
  BY Zenon DEF Inv, Types, RelayStates
<1>. QED  BY <1>1, PutInside DEF Puts

LEMMA InvStreamStep ==
  ASSUME Inv, NEW c \in Conns, NEW s \in Streams, StreamStep(c, s)
  PROVE  Inv'
<1>1. /\ "spawned" \in RelayStates /\ "dialing" \in RelayStates
      /\ "relaying" \in RelayStates /\ "ended" \in RelayStates
      /\ MetricsExact
  BY Zenon DEF Inv, RelayStates
<1>2. stream[c][s] # "none" => judged[c] = "allow"
  BY Zenon DEF Inv, Checked
<1>3. CASE AcceptStream(c, s)
  <2>1. /\ stream[c][s] = "none" /\ stream' = [stream EXCEPT ![c][s] = "spawned"]
        /\ UNCHANGED <<pc, joinVars, peerVars, dataVars, metrics>>
        /\ judged[c] = "allow"
    BY <1>3, Zenon DEF AcceptStream, Inv, Stages
  <2>2. UNCHANGED <<pc, judged, mux>>
    BY <2>1, Zenon DEF joinVars
  <2>3. Puts(c, s, "spawned")
    BY <1>1, <2>1, StreamPut, Zenon
  <2>4. MetricsExact'
    BY <1>1, <2>1, <2>2, <2>3, MetricsStreamInside, Zenon
  <2>. QED  BY <1>1, <2>1, <2>4, InvStream, Zenon
<1>4. CASE StreamBegins(c, s)
  <2>1. /\ stream[c][s] = "spawned" /\ stream' = [stream EXCEPT ![c][s] = "dialing"]
        /\ UNCHANGED <<pc, joinVars, peerVars, dataVars>> /\ record_connection_start
    BY <1>4, Zenon DEF StreamBegins
  <2>2. UNCHANGED <<pc, judged, mux>> /\ judged[c] = "allow"
    BY <1>2, <2>1, Zenon DEF joinVars
  <2>3. MetricsExact'
    BY <1>1, <2>1, <2>2, StreamPut, MetricsStreamBegin, Zenon
  <2>. QED  BY <1>1, <2>1, <2>2, <2>3, InvStream, Zenon
<1>5. CASE StreamConnects(c, s)
  <2>1. /\ stream[c][s] = "dialing" /\ stream' = [stream EXCEPT ![c][s] = "relaying"]
        /\ UNCHANGED <<pc, joinVars, peerVars, dataVars, metrics>>
    BY <1>5, Zenon DEF StreamConnects
  <2>2. UNCHANGED <<pc, judged, mux>> /\ judged[c] = "allow"
    BY <1>2, <2>1, Zenon DEF joinVars
  <2>3. Puts(c, s, "relaying")
    BY <1>1, <2>1, StreamPut, Zenon
  <2>4. MetricsExact'
    BY <1>1, <2>1, <2>2, <2>3, MetricsStreamInside, Zenon
  <2>. QED  BY <1>1, <2>1, <2>2, <2>4, InvStream, Zenon
<1>6. CASE StreamEnds(c, s)
  <2>1. /\ stream[c][s] \in {"dialing", "relaying"} /\ stream' = [stream EXCEPT ![c][s] = "ended"]
        /\ UNCHANGED <<pc, joinVars, peerVars, dataVars>> /\ record_connection
    BY <1>6, Zenon DEF StreamEnds
  <2>2. UNCHANGED <<pc, judged, mux>> /\ judged[c] = "allow"
    BY <1>2, <2>1, Zenon DEF joinVars
  <2>3. MetricsExact'
    BY <1>1, <2>1, <2>2, StreamPut, MetricsStreamEnd, Zenon
  <2>. QED  BY <1>1, <2>1, <2>2, <2>3, InvStream, Zenon
<1>. QED  BY <1>3, <1>4, <1>5, <1>6, Zenon DEF StreamStep

-----------------------------------------------------------------------------
(* The peers and the operator *)

\* Outside the handler a client may have sent more, and nothing else is seen.
LEMMA InvPeers ==
  ASSUME Inv, UNCHANGED <<pc, joinVars, dataVars, stream, metrics>>,
         allow' \subseteq Conns, eof' \in [Conns -> BOOLEAN], greeted' \in [Conns -> BOOLEAN],
         sent' \in [Conns -> 0..MaxBytes], \A d \in Conns : sent'[d] >= sent[d]
  PROVE  Inv'
<1> USE DEF Inv
<1>1. UNCHANGED <<pc, tls, up, mux, judged, taken, got, heard, stream>>
  BY Zenon DEF joinVars, dataVars
<1>2. Types'
  BY <1>1, Zenon DEF Types
<1>3. ASSUME NEW d \in Conns PROVE Stages(d)' /\ Bytes(d)' /\ Checked(d)'
  <2>1. Stages(d)'
    <3>1. Untouched(d) => Untouched(d)'
      BY <1>1, Zenon DEF Untouched
    <3>. QED  BY <1>1, <3>1, Zenon DEF Stages, Early
  <2>2. Bytes(d)'
    <3>1. sent'[d] \in 0..MaxBytes /\ sent'[d] >= sent[d]
      BY Zenon
    <3>2. taken'[d] <= sent'[d]
      BY <1>1, <3>1, Numbers, InboundAssumption
    <3>3. Bytes(d) /\ pc' = pc /\ got' = got /\ taken' = taken
      BY <1>1, Zenon
    <3>. QED  BY <3>2, <3>3, Zenon DEF Bytes, BytesOf
  <2>3. Checked(d)'
    BY <1>1, Zenon DEF Checked
  <2>. QED  BY <2>1, <2>2, <2>3, Zenon
<1>4. MetricsExact'
  BY <1>1, MetricsStay, Zenon DEF Open, Closed, Live, Over, StreamsIn
<1>. QED  BY <1>2, <1>3, <1>4, Zenon

\* No step of the peers or the operator at all.
LEMMA Peers ==
  ASSUME Inv
  PROVE  /\ allow \subseteq Conns /\ eof \in [Conns -> BOOLEAN] /\ greeted \in [Conns -> BOOLEAN]
         /\ sent \in [Conns -> 0..MaxBytes] /\ \A d \in Conns : sent[d] >= sent[d]
<1>1. \A d \in Conns : sent[d] >= sent[d]
  BY Numbers
<1>. QED  BY <1>1, Zenon DEF Inv, Types

LEMMA InvPeerStep ==
  ASSUME Inv, NEW c \in Conns, PeerStep(c)
  PROVE  Inv'
<1>1. CASE ClientSends(c)
  <2>1. /\ UNCHANGED <<pc, joinVars, allow, eof, greeted, dataVars, stream, metrics>>
        /\ sent' = [sent EXCEPT ![c] = sent[c] + 1] /\ sent[c] < MaxBytes
    BY <1>1, Zenon DEF ClientSends
  <2>2. sent[c] + 1 \in 0..MaxBytes /\ sent[c] + 1 >= sent[c]
    BY <2>1, Numbers
  <2>3. /\ sent' \in [Conns -> 0..MaxBytes] /\ sent'[c] = sent[c] + 1
        /\ \A d \in Conns \ {c} : sent'[d] = sent[d]
    BY <2>1, <2>2, Peers, PutAt, Zenon
  <2>4. \A d \in Conns : sent'[d] >= sent[d]
    BY <2>2, <2>3, Peers, Zenon
  <2>. QED  BY <2>1, <2>3, <2>4, Peers, InvPeers, Zenon
<1>2. CASE ClientCloses(c)
  <2>1. /\ UNCHANGED <<pc, joinVars, allow, sent, greeted, dataVars, stream, metrics>>
        /\ eof' = [eof EXCEPT ![c] = TRUE]
    BY <1>2, Zenon DEF ClientCloses
  <2>2. eof' \in [Conns -> BOOLEAN]
    BY <2>1, Peers, PutAt, Zenon
  <2>. QED  BY <2>1, <2>2, Peers, InvPeers, Zenon
<1>3. CASE UpstreamGreets(c)
  <2>1. /\ UNCHANGED <<pc, joinVars, allow, sent, eof, dataVars, stream, metrics>>
        /\ greeted' = [greeted EXCEPT ![c] = TRUE]
    BY <1>3, Zenon DEF UpstreamGreets
  <2>2. greeted' \in [Conns -> BOOLEAN]
    BY <2>1, Peers, PutAt, Zenon
  <2>. QED  BY <2>1, <2>2, Peers, InvPeers, Zenon
<1>. QED  BY <1>1, <1>2, <1>3, Zenon DEF PeerStep

LEMMA InvSetPolicy ==
  ASSUME Inv, SetPolicy
  PROVE  Inv'
<1>1. /\ allow' \subseteq Conns
      /\ UNCHANGED <<pc, joinVars, sent, eof, greeted, dataVars, stream, metrics>>
  BY Zenon DEF SetPolicy
<1>. QED  BY <1>1, Peers, InvPeers, Zenon

-----------------------------------------------------------------------------
(* The theorems *)

LEMMA InvNext ==
  ASSUME Inv, [Next]_vars
  PROVE  Inv'
<1>1. ASSUME NEW c \in Conns, HandlerStep(c) \/ WriteStep(c) PROVE Inv'
  BY <1>1, InvBegin, InvResolve, InvJoined, InvEvaluate, InvDetect, InvForward, InvCopyUp,
     InvCopyDown, Zenon DEF HandlerStep, WriteStep, WriteUp
<1>2. ASSUME NEW c \in Conns, CopyEnds(c) \/ SocketFails(c) PROVE Inv'
  <2>1. /\ pc[c] \in {"detect", "forward", "relay"} /\ End(c) /\ UNCHANGED <<joinVars, peerVars>>
    BY <1>2, Zenon DEF CopyEnds, SocketFails
  <2>2. pc[c] \notin {"new", "tunnel", "ended"}
    BY <2>1, Zenon
  <2>. QED  BY <2>1, <2>2, InvReturns, Zenon
<1>3. CASE UNCHANGED vars
  <2>1. UNCHANGED <<pc, joinVars, allow, sent, eof, greeted, dataVars, stream, metrics>>
    BY <1>3, Zenon DEF vars, peerVars
  <2>. QED  BY <2>1, Peers, InvPeers, Zenon
<1>. QED  BY <1>1, <1>2, <1>3, InvTlsAccept, InvUpstreamConnect, InvTunnelCloses, InvPeerStep,
            InvStreamStep, InvSetPolicy, Zenon DEF Next

LEMMA Invariance == Spec => []Inv
BY InvInit, InvNext, PTL DEF Spec

\* The metrics add up in every state: each way out of handle_connection, of
\* serve_tunnel and of a stream's relay gives back exactly the slot it took, also
\* where streams outlive their tunnel, and counts what ended once.
THEOREM MetricsAreExact == Spec => []MetricsExact
<1>1. Inv => MetricsExact
  BY Zenon DEF Inv
<1>. QED  BY <1>1, Invariance, PTL

\* Every variable keeps its type; the active gauge never falls below zero.
THEOREM TypesAreKept == Spec => []TypeOK
<1>1. Inv => TypeOK
  <2>1. MetricsExact => gauge \in Nat /\ total \in Nat
    BY Exact, Finite
  <2>. QED  BY <2>1, Zenon DEF Inv, Types, TypeOK
<1>. QED  BY <1>1, Invariance, PTL

\* The upstream receives the client's bytes in order, none missing and none twice,
\* for any size of the detection buffer and any split of the bytes between
\* detection and copy_bidirectional.
THEOREM UpstreamsGetPrefixes == Spec => []UpstreamGetsPrefix
<1>1. Inv => UpstreamGetsPrefix
  <2> SUFFICES ASSUME Inv, NEW c \in Conns
               PROVE  got[c] = [i \in 1..Len(got[c]) |-> i] /\ Len(got[c]) <= sent[c]
    BY Zenon DEF UpstreamGetsPrefix
  <2>1. /\ got[c] = [i \in 1..Len(got[c]) |-> i]
        /\ Len(got[c]) <= taken[c] /\ taken[c] <= sent[c]
    BY Zenon DEF Inv, Bytes, BytesOf
  <2>. QED  BY <2>1, Numbers
<1>. QED  BY <1>1, Invariance, PTL

\* Nothing reaches an upstream, a client or a stream of a connection the policy has
\* not allowed, although the upstream is dialled while the handshake still runs.
THEOREM NothingIsForwardedUnchecked == Spec => []NothingForwardedUnchecked
<1>1. Inv => NothingForwardedUnchecked
  BY Zenon DEF Inv, Checked, NothingForwardedUnchecked
<1>. QED  BY <1>1, Invariance, PTL

=============================================================================
