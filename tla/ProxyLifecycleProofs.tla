------------------------ MODULE ProxyLifecycleProofs ------------------------
(***************************************************************************)
(* Proofs about ProxyLifecycle, for any number of acceptors, connections   *)
(* and permits: the connection limit is exact, a proxy drains only after   *)
(* its last admission, and the end of the process cuts no connection       *)
(* before its proxy's grace period has run out.                            *)
(***************************************************************************)
EXTENDS ProxyLifecycle, FiniteSetTheorems, TLAPS

\* How far main, the proxies and their acceptors have come together: main spawns
\* and joins the proxies in order, and run() spawns and joins its acceptors.
Stages ==
  /\ main \in {"admin", "inbound"} => run["inbound"] = "unborn"
  /\ main \in {"admin", "inbound", "outbound"} => run["outbound"] = "unborn"
  /\ main \in {"joinOutbound", "joinAdmin", "exited"} => run["inbound"] = "stopped"
  /\ main \in {"joinAdmin", "exited"} => run["outbound"] = "stopped"
  /\ \A p \in Proxies, a \in Acceptors :
       /\ run[p] \in {"unborn", "binding"} => acc[p][a] = "unborn"
       /\ run[p] \in {"draining", "checking", "stopped"} => acc[p][a] = "stopped"

\* A connection is in the hand of the one acceptor that accepted it, from accept
\* until it is rejected or its task is spawned.
Hands ==
  /\ \A p \in Proxies, a \in Acceptors :
       /\ acc[p][a] \in {"permit", "spawn"} <=> hand[p][a] # None
       /\ hand[p][a] # None => conn[hand[p][a]] = "inHand" /\ at[hand[p][a]] = p
       /\ \A b \in Acceptors : hand[p][a] # None /\ hand[p][b] = hand[p][a] => b = a
  /\ \A c \in Conns : conn[c] = "inHand" => \E a \in Acceptors : hand[at[c]][a] = c

\* What is known of a connection.
Arrivals ==
  \A c \in Conns :
    /\ conn[c] # "new" => at[c] \in Proxies /\ run[at[c]] \notin {"unborn", "binding"}
    /\ Alive => conn[c] # "cut"

\* The connections that active_connections counts.
Counted(p) == {c \in Conns : at[c] = p /\ conn[c] \in {"running", "returned"}}

CountExact == Alive => \A p \in Proxies : active[p] = Cardinality(Counted(p))

\* A proxy stops with connections left only when it is forced to.
Drained == Alive => \A p \in Proxies : run[p] = "stopped" => forced[p] \/ Counted(p) = {}

Inv ==
  /\ TypeOK /\ Stages /\ Hands /\ Arrivals
  /\ CountExact /\ LimitExact /\ Drained
  /\ CutOnlyAfterGrace

-----------------------------------------------------------------------------
LEMMA PutAt ==
  ASSUME NEW S, NEW T, NEW f \in [S -> T], NEW i \in S, NEW v \in T, NEW g,
         g = [f EXCEPT ![i] = v]
  PROVE  g \in [S -> T] /\ g[i] = v /\ \A j \in S \ {i} : g[j] = f[j]
BY Zenon

LEMMA AddOne ==
  ASSUME NEW S, NEW T, NEW x, IsFiniteSet(S), x \notin S, T = S \cup {x}
  PROVE  Cardinality(S) \in Nat /\ Cardinality(T) = Cardinality(S) + 1
BY FS_AddElement, FS_CardinalityType, Zenon

LEMMA DropOne ==
  ASSUME NEW S, NEW T, NEW x, IsFiniteSet(S), x \in S, T = S \ {x}
  PROVE  /\ Cardinality(S) \in Nat /\ Cardinality(S) > 0
         /\ Cardinality(T) = Cardinality(S) - 1
<1>1. Cardinality(S) \in Nat /\ Cardinality(T) = Cardinality(S) - 1
  BY FS_RemoveElement, FS_CardinalityType, Zenon
<1>2. IsFiniteSet(T) /\ Cardinality(T) \in Nat
  BY FS_RemoveElement, FS_CardinalityType, Zenon
<1>. QED  BY <1>1, <1>2

\* The sets whose sizes the counters follow are finite.
LEMMA FiniteParts ==
  ASSUME NEW p \in Proxies
  PROVE  /\ IsFiniteSet(Counted(p)) /\ Cardinality(Counted(p)) \in Nat
         /\ IsFiniteSet(Holders(p)) /\ Cardinality(Holders(p)) \in Nat
         /\ IsFiniteSet(Granting(p)) /\ Cardinality(Granting(p)) \in Nat
<1>1. Counted(p) \in SUBSET Conns /\ Holders(p) \in SUBSET Conns
  BY Zenon DEF Counted, Holders
<1>2. Granting(p) \in SUBSET Acceptors
  BY Zenon DEF Granting
<1>3. IsFiniteSet(Counted(p)) /\ IsFiniteSet(Holders(p)) /\ IsFiniteSet(Granting(p))
  BY <1>1, <1>2, FS_Subset, LifecycleAssumption, Zenon
<1>. QED  BY <1>3, FS_CardinalityType, Zenon

-----------------------------------------------------------------------------
LEMMA InvInit == Init => Inv
<1> SUFFICES ASSUME Init PROVE Inv  BY Zenon
<1>1. TypeOK
  <2>1. [a \in Acceptors |-> "unborn"] \in [Acceptors -> AccPCs]
    BY Zenon DEF AccPCs
  <2>2. [a \in Acceptors |-> None] \in [Acceptors -> Conns \cup {None}]
    BY Zenon
  <2>3. MaxConnections \in 0..MaxConnections
    BY LifecycleAssumption
  <2>4. /\ acc \in [Proxies -> [Acceptors -> AccPCs]]
        /\ hand \in [Proxies -> [Acceptors -> Conns \cup {None}]]
    BY <2>1, <2>2, Zenon DEF Init
  <2>. QED
    BY <2>3, <2>4, Zenon DEF Init, TypeOK, MainPCs, RunPCs, ConnStates
<1>2. \A p \in Proxies : acc[p] = [a \in Acceptors |-> "unborn"] /\ hand[p] = [a \in Acceptors |-> None]
  BY Zenon DEF Init
<1>3. Stages /\ Hands /\ Arrivals
  <2>1. \A p \in Proxies, a \in Acceptors : acc[p][a] = "unborn" /\ hand[p][a] = None
    BY <1>2, Zenon
  <2>. QED  BY <2>1, Zenon DEF Init, Stages, Hands, Arrivals, Proxies
<1>4. \A p \in Proxies : Counted(p) = {} /\ Holders(p) = {} /\ Granting(p) = {}
  BY <1>2, Zenon DEF Init, Counted, Holders, Granting
<1>5. Cardinality({}) = 0
  BY FS_EmptySet, Zenon
<1>6. \A p \in Proxies : active[p] = 0 /\ permits[p] = MaxConnections
  BY Zenon DEF Init
<1>7. CountExact /\ Drained
  BY <1>4, <1>5, <1>6, Zenon DEF CountExact, Drained
<1>8. LimitExact
  <2>1. MaxConnections + 0 + 0 = MaxConnections
    BY LifecycleAssumption
  <2>. QED  BY <1>4, <1>5, <1>6, <2>1, Zenon DEF LimitExact
<1>. QED
  BY <1>1, <1>3, <1>7, <1>8, Zenon DEF Init, Inv, CutOnlyAfterGrace

\* A step that moves no connection has only the stages to keep.
LEMMA NoConnectionMoves ==
  ASSUME Inv, Alive, Alive', UNCHANGED connVars, TypeOK', Stages', Hands', Drained',
         \A p \in Proxies : run'[p] \in {"unborn", "binding"} => run[p] \in {"unborn", "binding"},
         \A p \in Proxies, a \in Acceptors : acc'[p][a] = "spawn" <=> acc[p][a] = "spawn"
  PROVE  Inv'
<1> USE DEF Inv
<1>1. Arrivals'
  BY Zenon DEF Arrivals, connVars
<1>2. \A p \in Proxies : /\ Counted(p)' = Counted(p)
                         /\ Holders(p)' = Holders(p)
                         /\ Granting(p)' = Granting(p)
  BY Zenon DEF Counted, Holders, Granting, connVars
<1>3. CountExact' /\ LimitExact'
  BY <1>2, Zenon DEF CountExact, LimitExact, connVars
<1>4. CutOnlyAfterGrace'
  BY Zenon DEF Arrivals, CutOnlyAfterGrace, connVars
<1>. QED  BY <1>1, <1>3, <1>4, Zenon

LEMMA InvMain ==
  ASSUME Inv,
         \/ SpawnAdmin \/ Shutdown \/ JoinInbound \/ JoinOutbound \/ AdminStep
         \/ \E p \in Proxies : SpawnProxy(p)
  PROVE  Inv'
<1> USE DEF Inv
<1>1. CASE \/ SpawnAdmin \/ Shutdown \/ JoinInbound \/ JoinOutbound \/ AdminStep
  <2>1. /\ Alive /\ Alive' /\ TypeOK'
        /\ UNCHANGED <<runVars, accVars, connVars>>
    BY <1>1, Zenon DEF SpawnAdmin, Shutdown, JoinInbound, JoinOutbound, AdminStep, AdminBind,
                AdminStops, Alive, TypeOK, MainPCs, runVars, accVars, connVars
  <2>2. Stages'
    BY <1>1, <2>1, Zenon DEF SpawnAdmin, Shutdown, JoinInbound, JoinOutbound, AdminStep, AdminBind,
                      AdminStops, Stages, runVars, accVars
  <2>3. Hands' /\ Drained'
    BY <2>1 DEF Hands, Drained, Counted, runVars, accVars, connVars
  <2>. QED  BY <2>1, <2>2, <2>3, NoConnectionMoves, Zenon DEF runVars, accVars
<1>2. ASSUME NEW p \in Proxies, SpawnProxy(p) PROVE Inv'
  <2>1. /\ Alive /\ Alive' /\ TypeOK'
        /\ main = p /\ run[p] = "unborn" /\ run'[p] = "binding"
        /\ \A q \in Proxies \ {p} : run'[q] = run[q]
        /\ UNCHANGED <<forced, acc, hand, connVars>>
    <3>1. main' \in MainPCs /\ main # "exited" /\ main' # "exited" /\ main = p
      BY <1>2, Zenon DEF SpawnProxy, MainPCs, Proxies
    <3>2. run[p] = "unborn"
      BY <3>1, Zenon DEF Stages, Proxies
    <3>3. UNCHANGED <<signal, admin, late, forced, acc, hand, permits, active, conn, at>>
      BY <1>2, Zenon DEF SpawnProxy, accVars, connVars
    <3>4. run' \in [Proxies -> RunPCs] /\ run'[p] = "binding" /\ \A q \in Proxies \ {p} : run'[q] = run[q]
      BY <1>2, Zenon DEF SpawnProxy, TypeOK, RunPCs
    <3>. QED  BY <3>1, <3>2, <3>3, <3>4, Zenon DEF Alive, TypeOK, connVars
  <2>2. Stages'
    BY <1>2, <2>1 DEF SpawnProxy, Stages, Proxies
  <2>3. Hands' /\ Drained'
    BY <2>1 DEF Hands, Drained, Counted, connVars
  <2>. QED  BY <2>1, <2>2, <2>3, NoConnectionMoves, Zenon
<1>. QED  BY <1>1, <1>2, Zenon

LEMMA InvRun ==
  ASSUME Inv, NEW p \in Proxies, RunStep(p) \/ DeadlinePasses(p)
  PROVE  Inv'
<1> USE DEF Inv
<1>0. Alive /\ Alive' /\ UNCHANGED <<main, hand, connVars>>
  BY Zenon DEF RunStep, Bind, RunDrains, PollActive, CheckDeadline, DeadlinePasses, Alive, procVars,
         accVars
<1>1. CASE Bind(p)
  <2>1. /\ TypeOK'
        /\ run[p] = "binding" /\ run'[p] \in {"stopped", "accepting"}
        /\ \A q \in Proxies \ {p} : run'[q] = run[q] /\ acc'[q] = acc[q]
        /\ \A a \in Acceptors : acc'[p][a] \in {"select", "stopped"}
        /\ run'[p] = "stopped" => \A a \in Acceptors : acc'[p][a] = "stopped"
        /\ UNCHANGED forced
    BY <1>0, <1>1 DEF Bind, TypeOK, RunPCs, AccPCs, procVars, connVars
  <2>2. Stages'
    BY <1>0, <2>1 DEF Stages, Proxies
  <2>3. Hands'
    BY <1>0, <2>1 DEF Stages, Hands, connVars
  <2>4. Drained'
    <3>1. Counted(p) = {}
      BY <2>1 DEF Arrivals, Counted
    <3>. QED  BY <1>0, <2>1, <3>1, Zenon DEF Drained, Counted, connVars
  <2>5. \A q \in Proxies, a \in Acceptors : acc'[q][a] = "spawn" <=> acc[q][a] = "spawn"
    BY <2>1, Zenon DEF Stages
  <2>. QED  BY <1>0, <2>1, <2>2, <2>3, <2>4, <2>5, NoConnectionMoves, Zenon
<1>2. CASE RunDrains(p) \/ PollActive(p) \/ CheckDeadline(p) \/ DeadlinePasses(p)
  <2>1. /\ TypeOK'
        /\ UNCHANGED acc
        /\ \A q \in Proxies \ {p} : run'[q] = run[q] /\ forced'[q] = forced[q]
        /\ \/ run[p] = "accepting" /\ run'[p] = "draining"
              /\ \A a \in Acceptors : acc[p][a] = "stopped"
           \/ /\ run[p] \in {"draining", "checking"}
              /\ \/ run'[p] \in {"draining", "checking"}
                 \/ run'[p] = "stopped" /\ (forced'[p] \/ active[p] = 0)
    BY <1>0, <1>2, Zenon DEF RunDrains, PollActive, CheckDeadline, DeadlinePasses, TypeOK, RunPCs,
                      accVars, procVars, connVars
  <2>2. Stages'
    BY <1>0, <2>1 DEF Stages, Proxies
  <2>3. Hands'
    BY <1>0, <2>1 DEF Hands, connVars
  <2>4. active[p] = 0 => Counted(p) = {}
    BY <1>0, FiniteParts, FS_EmptySet, Zenon DEF CountExact
  <2>5. Drained'
    BY <1>0, <2>1, <2>4, Zenon DEF Drained, Counted, connVars
  <2>. QED  BY <1>0, <2>1, <2>2, <2>3, <2>5, NoConnectionMoves, Zenon
<1>. QED  BY <1>1, <1>2, Zenon DEF RunStep

-----------------------------------------------------------------------------
LEMMA NestedExcept ==
  ASSUME NEW P, NEW A, NEW V, NEW f \in [P -> [A -> V]], NEW p \in P, NEW a \in A,
         NEW v \in V, NEW g, g = [f EXCEPT ![p][a] = v]
  PROVE  /\ g \in [P -> [A -> V]]
         /\ \A q \in P, b \in A : g[q][b] = IF q = p /\ b = a THEN v ELSE f[q][b]
BY Zenon

\* While the process lives nothing has been cut.
LEMMA LiveStep ==
  ASSUME Alive', TypeOK', Stages', Hands', Arrivals', CountExact', LimitExact', Drained'
  PROVE  Inv'
BY Zenon DEF Inv, Arrivals, CutOnlyAfterGrace

LEMMA InvAccept ==
  ASSUME Inv, NEW p \in Proxies, NEW a \in Acceptors, NEW c \in Conns, Accept(p, a, c)
  PROVE  Inv'
<1> USE DEF Inv
<1>1. /\ Alive /\ Alive' /\ acc[p][a] = "select" /\ conn[c] = "new"
      /\ UNCHANGED <<main, signal, admin, run, late, forced, permits, active>>
  BY Zenon DEF Accept, Alive, procVars, runVars
<1>2. /\ at' \in [Conns -> Proxies \cup {None}] /\ at'[c] = p
      /\ \A d \in Conns \ {c} : at'[d] = at[d]
  BY Zenon DEF Accept, TypeOK
<1>3. /\ conn' \in [Conns -> ConnStates] /\ conn'[c] \in {"dropped", "inHand"}
      /\ \A d \in Conns \ {c} : conn'[d] = conn[d]
  BY Zenon DEF Accept, TypeOK, ConnStates
<1>4. \/ conn'[c] = "dropped" /\ UNCHANGED accVars
      \/ /\ conn'[c] = "inHand"
         /\ hand' = [hand EXCEPT ![p][a] = c]
         /\ acc' = [acc EXCEPT ![p][a] = "permit"]
  BY Zenon DEF Accept, TypeOK
<1>5. /\ acc' \in [Proxies -> [Acceptors -> AccPCs]]
      /\ hand' \in [Proxies -> [Acceptors -> Conns \cup {None}]]
      /\ \/ conn'[c] = "dropped" /\ UNCHANGED <<acc, hand>>
         \/ /\ conn'[c] = "inHand"
            /\ \A q \in Proxies, b \in Acceptors :
                 /\ acc'[q][b] = IF q = p /\ b = a THEN "permit" ELSE acc[q][b]
                 /\ hand'[q][b] = IF q = p /\ b = a THEN c ELSE hand[q][b]
  <2>1. CASE conn'[c] = "dropped" /\ UNCHANGED accVars
    BY <2>1, Zenon DEF accVars, TypeOK
  <2>2. CASE /\ conn'[c] = "inHand"
             /\ hand' = [hand EXCEPT ![p][a] = c]
             /\ acc' = [acc EXCEPT ![p][a] = "permit"]
    <3>1. "permit" \in AccPCs  BY Zenon DEF AccPCs
    <3>. QED  BY <2>2, <3>1, NestedExcept DEF TypeOK
  <2>. QED  BY <1>4, <2>1, <2>2, Zenon
<1>6. TypeOK'
  BY <1>1, <1>2, <1>3, <1>5, Zenon DEF TypeOK
<1>7. Stages'
  BY <1>1, <1>5 DEF Stages
<1>8. Hands'
  <2>1. CASE conn'[c] = "dropped" /\ UNCHANGED <<acc, hand>>
    <3>1. \A q \in Proxies, b \in Acceptors : hand[q][b] # c
      BY <1>1, LifecycleAssumption DEF Hands
    <3>2. \A q \in Proxies, b \in Acceptors : hand[q][b] # None =>
            conn'[hand[q][b]] = conn[hand[q][b]] /\ at'[hand[q][b]] = at[hand[q][b]]
      BY <1>2, <1>3, <3>1 DEF TypeOK
    <3>3. \A d \in Conns : conn'[d] = "inHand" => conn[d] = "inHand" /\ at'[d] = at[d]
      BY <1>2, <1>3, <2>1, Zenon
    <3>. QED  BY <2>1, <3>2, <3>3 DEF Hands
  <2>2. CASE conn'[c] = "inHand" /\ hand'[p][a] = c
    <3>1. \A q \in Proxies, b \in Acceptors :
            /\ acc'[q][b] = IF q = p /\ b = a THEN "permit" ELSE acc[q][b]
            /\ hand'[q][b] = IF q = p /\ b = a THEN c ELSE hand[q][b]
      BY <1>5, <2>2, Zenon
    <3>2. \A q \in Proxies, b \in Acceptors : hand[q][b] # c /\ c # None
      BY <1>1, LifecycleAssumption DEF Hands
    <3>3. \A q \in Proxies, b \in Acceptors :
            /\ acc'[q][b] \in {"permit", "spawn"} <=> hand'[q][b] # None
            /\ hand'[q][b] # None => conn'[hand'[q][b]] = "inHand" /\ at'[hand'[q][b]] = q
      BY <1>2, <1>3, <2>2, <3>1, <3>2 DEF Hands, TypeOK
    <3>4. \A q \in Proxies, b, d \in Acceptors :
            hand'[q][b] # None /\ hand'[q][d] = hand'[q][b] => d = b
      BY <3>1, <3>2 DEF Hands
    <3>5. ASSUME NEW d \in Conns, conn'[d] = "inHand"
          PROVE  \E b \in Acceptors : hand'[at'[d]][b] = d
      <4>1. CASE d = c  BY <1>2, <2>2, <4>1, Zenon
      <4>2. CASE d # c
        <5>1. conn[d] = "inHand" /\ at'[d] = at[d] /\ at[d] \in Proxies
          BY <1>2, <1>3, <3>5, <4>2, Zenon DEF Arrivals
        <5>2. PICK b \in Acceptors : hand[at[d]][b] = d
          BY <5>1, Zenon DEF Hands
        <5>3. ~(at[d] = p /\ b = a)
          BY <1>1, <5>2, LifecycleAssumption DEF Hands
        <5>. QED  BY <3>1, <5>1, <5>2, <5>3
      <4>. QED  BY <4>1, <4>2, Zenon
    <3>. QED  BY <3>3, <3>4, <3>5 DEF Hands
  <2>. QED  BY <1>5, <2>1, <2>2, Zenon
<1>9. Arrivals'
  BY <1>1, <1>2, <1>3 DEF Arrivals, Stages
<1>10. \A q \in Proxies : /\ Counted(q)' = Counted(q)
                          /\ Holders(q)' = Holders(q)
                          /\ Granting(q)' = Granting(q)
  <2>1. \A q \in Proxies, b \in Acceptors : acc'[q][b] = "spawn" <=> acc[q][b] = "spawn"
    BY <1>1, <1>5, Zenon
  <2>. QED  BY <1>1, <1>2, <1>3, <2>1 DEF Counted, Holders, Granting
<1>11. CountExact' /\ LimitExact' /\ Drained'
  BY <1>1, <1>10, Zenon DEF CountExact, LimitExact, Drained
<1>. QED  BY <1>1, <1>6, <1>7, <1>8, <1>9, <1>11, LiveStep, Zenon

\* The connections in hand stay where they are when no acceptor takes one up or
\* puts one down.
LEMMA HandsStay ==
  ASSUME Hands, UNCHANGED <<hand, conn, at>>,
         \A p \in Proxies, a \in Acceptors :
           acc'[p][a] \in {"permit", "spawn"} <=> acc[p][a] \in {"permit", "spawn"}
  PROVE  Hands'
<1>1. hand' = hand /\ conn' = conn /\ at' = at
  OBVIOUS
<1>2. \A p \in Proxies, a \in Acceptors : acc'[p][a] \in {"permit", "spawn"} <=> hand[p][a] # None
  BY DEF Hands
<1>3. /\ \A p \in Proxies, a \in Acceptors :
           /\ hand[p][a] # None => conn[hand[p][a]] = "inHand" /\ at[hand[p][a]] = p
           /\ \A b \in Acceptors : hand[p][a] # None /\ hand[p][b] = hand[p][a] => b = a
      /\ \A c \in Conns : conn[c] = "inHand" => \E a \in Acceptors : hand[at[c]][a] = c
  BY Zenon DEF Hands
<1>. QED  BY <1>1, <1>2, <1>3 DEF Hands

LEMMA InvTryAcquire ==
  ASSUME Inv, NEW p \in Proxies, NEW a \in Acceptors, TryAcquireOwned(p, a)
  PROVE  Inv'
<1> USE DEF Inv
<1>1. /\ Alive /\ Alive' /\ acc[p][a] = "permit"
      /\ permits[p] > 0 /\ permits' = [permits EXCEPT ![p] = @ - 1]
      /\ acc' = [acc EXCEPT ![p][a] = "spawn"]
      /\ UNCHANGED <<main, signal, admin, run, late, forced, hand, active, conn, at>>
  BY Zenon DEF TryAcquireOwned, Alive, procVars, runVars
<1>2. /\ acc' \in [Proxies -> [Acceptors -> AccPCs]]
      /\ \A q \in Proxies, b \in Acceptors :
           acc'[q][b] = IF q = p /\ b = a THEN "spawn" ELSE acc[q][b]
  <2>1. "spawn" \in AccPCs  BY Zenon DEF AccPCs
  <2>. QED  BY <1>1, <2>1, NestedExcept DEF TypeOK
<1>3. /\ permits' \in [Proxies -> 0..MaxConnections] /\ permits'[p] = permits[p] - 1
      /\ \A q \in Proxies \ {p} : permits'[q] = permits[q]
  BY <1>1, LifecycleAssumption DEF TypeOK
<1>4. TypeOK'
  BY <1>1, <1>2, <1>3, Zenon DEF TypeOK
<1>5. Stages' /\ Hands' /\ Arrivals'
  <2>1. \A q \in Proxies, b \in Acceptors :
          /\ acc'[q][b] \in {"permit", "spawn"} <=> acc[q][b] \in {"permit", "spawn"}
          /\ acc'[q][b] = "unborn" <=> acc[q][b] = "unborn"
          /\ acc'[q][b] = "stopped" <=> acc[q][b] = "stopped"
    BY <1>1, <1>2, Zenon
  <2>2. Stages'  BY <1>1, <2>1, ZenonT(40) DEF Stages
  <2>3. Hands'  BY <1>1, <2>1, HandsStay, Zenon
  <2>4. Arrivals'  BY <1>1, Zenon DEF Arrivals
  <2>. QED  BY <2>2, <2>3, <2>4, Zenon
<1>6. \A q \in Proxies : Counted(q)' = Counted(q) /\ Holders(q)' = Holders(q)
  BY <1>1, Zenon DEF Counted, Holders
<1>7. CountExact' /\ Drained'
  BY <1>1, <1>6, Zenon DEF CountExact, Drained
<1>8. LimitExact'
  <2>1. Granting(p)' = Granting(p) \cup {a} /\ a \notin Granting(p)
    BY <1>1, <1>2 DEF Granting
  <2>2. \A q \in Proxies \ {p} : Granting(q)' = Granting(q)
    BY <1>2, Zenon DEF Granting
  <2>3. Cardinality(Granting(p)') = Cardinality(Granting(p)) + 1
    BY <2>1, FiniteParts, AddOne, Zenon
  <2>4. permits[p] \in Nat  BY LifecycleAssumption DEF TypeOK
  <2>. QED  BY <1>1, <1>3, <1>6, <2>2, <2>3, <2>4, FiniteParts DEF LimitExact
<1>. QED  BY <1>1, <1>4, <1>5, <1>7, <1>8, LiveStep, Zenon

\* A connection leaves the hand it was in: it is rejected, or its task is spawned.
LEMMA HandEmptied ==
  ASSUME Inv, NEW p \in Proxies, NEW a \in Acceptors, NEW st \in ConnStates \ {"inHand", "new", "cut"},
         acc[p][a] \in {"permit", "spawn"},
         conn' = [conn EXCEPT ![hand[p][a]] = st],
         hand' = [hand EXCEPT ![p][a] = None],
         acc' = [acc EXCEPT ![p][a] = "select"],
         Alive, UNCHANGED <<main, run, at>>
  PROVE  /\ hand[p][a] \in Conns /\ at[hand[p][a]] = p /\ conn[hand[p][a]] = "inHand"
         /\ conn' \in [Conns -> ConnStates]
         /\ conn'[hand[p][a]] = st /\ \A d \in Conns \ {hand[p][a]} : conn'[d] = conn[d]
         /\ hand' \in [Proxies -> [Acceptors -> Conns \cup {None}]]
         /\ acc' \in [Proxies -> [Acceptors -> AccPCs]]
         /\ \A q \in Proxies, b \in Acceptors :
              acc'[q][b] = IF q = p /\ b = a THEN "select" ELSE acc[q][b]
         /\ Stages' /\ Hands' /\ Arrivals'
<1> USE DEF Inv
<1> DEFINE c == hand[p][a]
<1>1. c \in Conns /\ at[c] = p /\ conn[c] = "inHand" /\ c # None
  BY LifecycleAssumption DEF TypeOK, Hands
<1>2. /\ conn' \in [Conns -> ConnStates]
      /\ conn'[c] = st /\ \A d \in Conns \ {c} : conn'[d] = conn[d]
  BY <1>1, Zenon DEF TypeOK
<1>3. /\ hand' \in [Proxies -> [Acceptors -> Conns \cup {None}]]
      /\ acc' \in [Proxies -> [Acceptors -> AccPCs]]
      /\ \A q \in Proxies, b \in Acceptors :
           /\ acc'[q][b] = IF q = p /\ b = a THEN "select" ELSE acc[q][b]
           /\ hand'[q][b] = IF q = p /\ b = a THEN None ELSE hand[q][b]
  <2>1. "select" \in AccPCs /\ None \in Conns \cup {None}  BY Zenon DEF AccPCs
  <2>. QED  BY <2>1, NestedExcept DEF TypeOK
<1>4. \A q \in Proxies, b \in Acceptors : hand'[q][b] # c
  BY <1>1, <1>3 DEF Hands
<1> HIDE DEF c
<1>5. Stages'
  BY <1>3 DEF Stages
<1>6. Hands'
  <2>1. \A q \in Proxies, b \in Acceptors :
          /\ acc'[q][b] \in {"permit", "spawn"} <=> hand'[q][b] # None
          /\ \A d \in Acceptors : hand'[q][b] # None /\ hand'[q][d] = hand'[q][b] => d = b
    BY <1>3 DEF Hands
  <2>2. \A q \in Proxies, b \in Acceptors :
          hand'[q][b] # None => conn'[hand'[q][b]] = "inHand" /\ at'[hand'[q][b]] = q
    BY <1>2, <1>3, <1>4 DEF Hands, TypeOK
  <2>3. ASSUME NEW d \in Conns, conn'[d] = "inHand"
        PROVE  \E b \in Acceptors : hand'[at'[d]][b] = d
    <3>1. d # c /\ conn[d] = "inHand" /\ at[d] \in Proxies
      BY <1>2, <2>3, Zenon DEF Arrivals
    <3>2. PICK b \in Acceptors : hand[at[d]][b] = d
      BY <3>1, Zenon DEF Hands
    <3>. QED  BY <1>3, <3>1, <3>2 DEF c
  <2>. QED  BY <2>1, <2>2, <2>3 DEF Hands
<1>7. Arrivals'
  BY <1>1, <1>2 DEF Arrivals, Alive
<1>. QED  BY <1>1, <1>2, <1>3, <1>5, <1>6, <1>7, Zenon DEF c

LEMMA InvReject ==
  ASSUME Inv, NEW p \in Proxies, NEW a \in Acceptors, Reject(p, a)
  PROVE  Inv'
<1> USE DEF Inv
<1> DEFINE c == hand[p][a]
<1>1. /\ Alive /\ Alive' /\ acc[p][a] = "permit"
      /\ conn' = [conn EXCEPT ![c] = "rejected"]
      /\ hand' = [hand EXCEPT ![p][a] = None]
      /\ acc' = [acc EXCEPT ![p][a] = "select"]
      /\ UNCHANGED <<main, signal, admin, run, late, forced, permits, active, at>>
  BY Zenon DEF Reject, Alive, procVars, runVars
<1>2. /\ c \in Conns /\ at[c] = p /\ conn[c] = "inHand"
      /\ conn' \in [Conns -> ConnStates]
      /\ conn'[c] = "rejected" /\ \A d \in Conns \ {c} : conn'[d] = conn[d]
      /\ hand' \in [Proxies -> [Acceptors -> Conns \cup {None}]]
      /\ acc' \in [Proxies -> [Acceptors -> AccPCs]]
      /\ \A q \in Proxies, b \in Acceptors :
           acc'[q][b] = IF q = p /\ b = a THEN "select" ELSE acc[q][b]
      /\ Stages' /\ Hands' /\ Arrivals'
  <2>1. "rejected" \in ConnStates \ {"inHand", "new", "cut"}  BY Zenon DEF ConnStates
  <2>. QED  BY <1>1, <2>1, HandEmptied, Zenon
<1> HIDE DEF c
<1>3. TypeOK'
  BY <1>1, <1>2, Zenon DEF TypeOK
<1>4. \A q \in Proxies : /\ Counted(q)' = Counted(q)
                         /\ Holders(q)' = Holders(q)
                         /\ Granting(q)' = Granting(q)
  BY <1>1, <1>2 DEF Counted, Holders, Granting
<1>5. CountExact' /\ LimitExact' /\ Drained'
  BY <1>1, <1>4, Zenon DEF CountExact, LimitExact, Drained
<1>. QED  BY <1>1, <1>2, <1>3, <1>5, LiveStep, Zenon

LEMMA InvSpawn ==
  ASSUME Inv, NEW p \in Proxies, NEW a \in Acceptors, SpawnHandler(p, a)
  PROVE  Inv'
<1> USE DEF Inv
<1> DEFINE c == hand[p][a]
<1>1. /\ Alive /\ Alive' /\ acc[p][a] = "spawn"
      /\ active' = [active EXCEPT ![p] = @ + 1]
      /\ conn' = [conn EXCEPT ![c] = "running"]
      /\ hand' = [hand EXCEPT ![p][a] = None]
      /\ acc' = [acc EXCEPT ![p][a] = "select"]
      /\ UNCHANGED <<main, signal, admin, run, late, forced, permits, at>>
  BY Zenon DEF SpawnHandler, Alive, procVars, runVars
<1>2. /\ c \in Conns /\ at[c] = p /\ conn[c] = "inHand"
      /\ conn' \in [Conns -> ConnStates]
      /\ conn'[c] = "running" /\ \A d \in Conns \ {c} : conn'[d] = conn[d]
      /\ hand' \in [Proxies -> [Acceptors -> Conns \cup {None}]]
      /\ acc' \in [Proxies -> [Acceptors -> AccPCs]]
      /\ \A q \in Proxies, b \in Acceptors :
           acc'[q][b] = IF q = p /\ b = a THEN "select" ELSE acc[q][b]
      /\ Stages' /\ Hands' /\ Arrivals'
  <2>1. "running" \in ConnStates \ {"inHand", "new", "cut"}  BY Zenon DEF ConnStates
  <2>. QED  BY <1>1, <2>1, HandEmptied, Zenon
<1> HIDE DEF c
<1>3. /\ active' \in [Proxies -> Nat] /\ active'[p] = active[p] + 1
      /\ \A q \in Proxies \ {p} : active'[q] = active[q]
  BY <1>1 DEF TypeOK
<1>4. TypeOK'
  BY <1>1, <1>2, <1>3, Zenon DEF TypeOK
<1>5. \A q \in Proxies \ {p} : /\ Counted(q)' = Counted(q)
                               /\ Holders(q)' = Holders(q)
                               /\ Granting(q)' = Granting(q)
  BY <1>1, <1>2 DEF Counted, Holders, Granting
<1>6. Counted(p)' = Counted(p) \cup {c} /\ c \notin Counted(p)
  BY <1>1, <1>2 DEF Counted
<1>7. Holders(p)' = Holders(p) \cup {c} /\ c \notin Holders(p)
  BY <1>1, <1>2 DEF Holders
<1>8. Granting(p)' = Granting(p) \ {a} /\ a \in Granting(p)
  BY <1>1, <1>2, Zenon DEF Granting
<1>9. CountExact'
  <2>1. Cardinality(Counted(p)') = Cardinality(Counted(p)) + 1
    BY <1>6, FiniteParts, AddOne, Zenon
  <2>. QED  BY <1>1, <1>3, <1>5, <2>1, Zenon DEF CountExact
<1>10. LimitExact'
  <2>1. Cardinality(Holders(p)') = Cardinality(Holders(p)) + 1
    BY <1>7, FiniteParts, AddOne, Zenon
  <2>2. Cardinality(Granting(p)') = Cardinality(Granting(p)) - 1
    BY <1>8, FiniteParts, DropOne, Zenon
  <2>3. permits[p] \in Nat  BY LifecycleAssumption DEF TypeOK
  <2>. QED  BY <1>1, <1>5, <2>1, <2>2, <2>3, FiniteParts DEF LimitExact
<1>11. Drained'
  <2>1. run[p] # "stopped"  BY <1>1, Zenon DEF Stages
  <2>. QED  BY <1>1, <1>5, <2>1, Zenon DEF Drained
<1>. QED  BY <1>1, <1>2, <1>4, <1>9, <1>10, <1>11, LiveStep, Zenon

LEMMA InvStops ==
  ASSUME Inv, NEW p \in Proxies, NEW a \in Acceptors, AcceptorStops(p, a)
  PROVE  Inv'
<1> USE DEF Inv
<1>1. /\ Alive /\ Alive' /\ acc[p][a] = "select"
      /\ acc' = [acc EXCEPT ![p][a] = "stopped"]
      /\ UNCHANGED <<main, signal, admin, run, late, forced, hand, connVars>>
  BY Zenon DEF AcceptorStops, Alive, procVars, runVars
<1>2. /\ acc' \in [Proxies -> [Acceptors -> AccPCs]]
      /\ \A q \in Proxies, b \in Acceptors :
           acc'[q][b] = IF q = p /\ b = a THEN "stopped" ELSE acc[q][b]
  <2>1. "stopped" \in AccPCs  BY Zenon DEF AccPCs
  <2>. QED  BY <1>1, <2>1, NestedExcept DEF TypeOK
<1>3. TypeOK'
  BY <1>1, <1>2, Zenon DEF TypeOK, connVars
<1>4. Stages' /\ Hands' /\ Drained'
  <2>1. Stages'  BY <1>1, <1>2 DEF Stages
  <2>2. Hands'  BY <1>1, <1>2 DEF Hands, connVars
  <2>3. Drained'  BY <1>1, Zenon DEF Drained, Counted, connVars
  <2>. QED  BY <2>1, <2>2, <2>3, Zenon
<1>. QED  BY <1>1, <1>2, <1>3, <1>4, NoConnectionMoves, Zenon

-----------------------------------------------------------------------------
\* The steps of a connection's own task move it alone, and from one of the last
\* states of a handler to the next.
LEMMA TaskMoves ==
  ASSUME Inv, NEW c \in Conns, NEW st \in {"returned", "uncounted", "closed"},
         conn[c] \in {"running", "returned", "uncounted"},
         conn' = [conn EXCEPT ![c] = st],
         Alive, UNCHANGED <<main, run, acc, hand, at>>
  PROVE  /\ at[c] \in Proxies
         /\ conn' \in [Conns -> ConnStates]
         /\ conn'[c] = st /\ \A d \in Conns \ {c} : conn'[d] = conn[d]
         /\ Stages' /\ Hands' /\ Arrivals'
<1> USE DEF Inv
<1>1. /\ conn' \in [Conns -> ConnStates]
      /\ conn'[c] = st /\ \A d \in Conns \ {c} : conn'[d] = conn[d]
  BY Zenon DEF TypeOK, ConnStates
<1>2. at[c] \in Proxies
  BY Zenon DEF Arrivals
<1>3. Stages'
  BY Zenon DEF Stages
<1>4. Hands'
  <2>1. \A q \in Proxies, b \in Acceptors : hand[q][b] # None =>
          hand[q][b] \in Conns /\ conn'[hand[q][b]] = conn[hand[q][b]]
    BY <1>1 DEF Hands, TypeOK
  <2>2. \A d \in Conns : conn'[d] = "inHand" => conn[d] = "inHand"
    BY <1>1, Zenon
  <2>. QED  BY <2>1, <2>2 DEF Hands
<1>5. Arrivals'
  BY <1>1, Zenon DEF Arrivals, Alive
<1>. QED  BY <1>1, <1>2, <1>3, <1>4, <1>5, Zenon

LEMMA InvReturns ==
  ASSUME Inv, NEW c \in Conns, HandlerReturns(c)
  PROVE  Inv'
<1> USE DEF Inv
<1>1. /\ Alive /\ Alive' /\ conn[c] = "running" /\ conn' = [conn EXCEPT ![c] = "returned"]
      /\ UNCHANGED <<main, signal, admin, run, late, forced, acc, hand, permits, active, at>>
  BY Zenon DEF HandlerReturns, Alive, procVars, runVars, accVars
<1>2. /\ conn' \in [Conns -> ConnStates]
      /\ conn'[c] = "returned" /\ \A d \in Conns \ {c} : conn'[d] = conn[d]
      /\ Stages' /\ Hands' /\ Arrivals'
  BY <1>1, TaskMoves, Zenon
<1>3. TypeOK'
  BY <1>1, <1>2, Zenon DEF TypeOK
<1>4. \A q \in Proxies : /\ Counted(q)' = Counted(q)
                         /\ Holders(q)' = Holders(q)
                         /\ Granting(q)' = Granting(q)
  BY <1>1, <1>2, Zenon DEF Counted, Holders, Granting
<1>5. CountExact' /\ LimitExact' /\ Drained'
  BY <1>1, <1>4, Zenon DEF CountExact, LimitExact, Drained
<1>. QED  BY <1>1, <1>2, <1>3, <1>5, LiveStep, Zenon

LEMMA InvUncount ==
  ASSUME Inv, NEW c \in Conns, Uncount(c)
  PROVE  Inv'
<1> USE DEF Inv
<1>0. PICK p \in Proxies : at[c] = p
  BY Zenon DEF Uncount, Arrivals
<1>1. /\ Alive /\ Alive' /\ conn[c] = "returned" /\ conn' = [conn EXCEPT ![c] = "uncounted"]
      /\ active' = [active EXCEPT ![p] = @ - 1]
      /\ UNCHANGED <<main, signal, admin, run, late, forced, acc, hand, permits, at>>
  BY <1>0, Zenon DEF Uncount, Alive, procVars, runVars, accVars
<1>2. /\ conn' \in [Conns -> ConnStates]
      /\ conn'[c] = "uncounted" /\ \A d \in Conns \ {c} : conn'[d] = conn[d]
      /\ Stages' /\ Hands' /\ Arrivals'
  BY <1>1, TaskMoves, Zenon
<1>3. /\ \A q \in Proxies : Holders(q)' = Holders(q) /\ Granting(q)' = Granting(q)
      /\ \A q \in Proxies \ {p} : Counted(q)' = Counted(q)
      /\ Counted(p)' = Counted(p) \ {c} /\ c \in Counted(p)
  BY <1>0, <1>1, <1>2, Zenon DEF Counted, Holders, Granting
<1>4. /\ active[p] = Cardinality(Counted(p)) /\ active[p] \in Nat /\ active[p] > 0
      /\ Cardinality(Counted(p)') = active[p] - 1
  BY <1>1, <1>2, <1>3, FiniteParts, DropOne DEF CountExact
<1>5. /\ active' \in [Proxies -> Nat] /\ active'[p] = active[p] - 1
      /\ \A q \in Proxies \ {p} : active'[q] = active[q]
  <2>1. active \in [Proxies -> Nat]  BY Zenon DEF TypeOK
  <2>2. active[p] - 1 \in Nat  BY <1>4
  <2>. QED  BY <1>1, <2>1, <2>2, PutAt, Zenon
<1>6. TypeOK'
  BY <1>1, <1>2, <1>5, Zenon DEF TypeOK
<1>7. CountExact'
  BY <1>1, <1>2, <1>3, <1>4, <1>5, Zenon DEF CountExact
<1>8. LimitExact'
  BY <1>1, <1>3, Zenon DEF LimitExact
<1>9. Drained'
  BY <1>1, <1>2, <1>3, Zenon DEF Drained
<1>. QED  BY <1>1, <1>2, <1>6, <1>7, <1>8, <1>9, LiveStep, Zenon

LEMMA InvDropPermit ==
  ASSUME Inv, NEW c \in Conns, DropPermit(c)
  PROVE  Inv'
<1> USE DEF Inv
<1>0. PICK p \in Proxies : at[c] = p
  BY Zenon DEF DropPermit, Arrivals
<1>1. /\ Alive /\ Alive' /\ conn[c] = "uncounted" /\ conn' = [conn EXCEPT ![c] = "closed"]
      /\ permits' = [permits EXCEPT ![p] = @ + 1]
      /\ UNCHANGED <<main, signal, admin, run, late, forced, acc, hand, active, at>>
  BY <1>0, Zenon DEF DropPermit, Alive, procVars, runVars, accVars
<1>2. /\ conn' \in [Conns -> ConnStates]
      /\ conn'[c] = "closed" /\ \A d \in Conns \ {c} : conn'[d] = conn[d]
      /\ Stages' /\ Hands' /\ Arrivals'
  BY <1>1, TaskMoves, Zenon
<1>3. /\ \A q \in Proxies : Counted(q)' = Counted(q) /\ Granting(q)' = Granting(q)
      /\ \A q \in Proxies \ {p} : Holders(q)' = Holders(q)
      /\ Holders(p)' = Holders(p) \ {c} /\ c \in Holders(p)
  BY <1>0, <1>1, <1>2, Zenon DEF Counted, Holders, Granting
<1>4. /\ permits[p] + Cardinality(Holders(p)) + Cardinality(Granting(p)) = MaxConnections
      /\ permits[p] \in Nat
      /\ Cardinality(Holders(p)) \in Nat /\ Cardinality(Holders(p)) > 0
      /\ Cardinality(Granting(p)) \in Nat
      /\ Cardinality(Holders(p)') = Cardinality(Holders(p)) - 1
  <2>1. /\ Cardinality(Holders(p)) \in Nat /\ Cardinality(Holders(p)) > 0
        /\ Cardinality(Holders(p)') = Cardinality(Holders(p)) - 1
    BY <1>3, FiniteParts, DropOne, Zenon
  <2>2. permits[p] \in Nat
    BY LifecycleAssumption DEF TypeOK
  <2>. QED  BY <1>1, <2>1, <2>2, FiniteParts, Zenon DEF LimitExact
<1>5. /\ permits' \in [Proxies -> 0..MaxConnections] /\ permits'[p] = permits[p] + 1
      /\ \A q \in Proxies \ {p} : permits'[q] = permits[q]
  <2>1. permits \in [Proxies -> 0..MaxConnections]  BY Zenon DEF TypeOK
  <2>2. permits[p] + 1 \in 0..MaxConnections  BY <1>4, LifecycleAssumption
  <2>. QED  BY <1>1, <2>1, <2>2, PutAt, Zenon
<1>6. TypeOK'
  BY <1>1, <1>2, <1>5, Zenon DEF TypeOK
<1>7. LimitExact'
  <2>1. ASSUME NEW q \in Proxies \ {p}
        PROVE  permits'[q] + Cardinality(Holders(q)') + Cardinality(Granting(q)') = MaxConnections
    BY <1>1, <1>3, <1>5, <2>1, Zenon DEF LimitExact
  <2>2. permits'[p] + Cardinality(Holders(p)') + Cardinality(Granting(p)) = MaxConnections
    <3> HIDE DEF Inv
    <3>. QED  BY <1>4, <1>5
  <2>3. permits'[p] + Cardinality(Holders(p)') + Cardinality(Granting(p)') = MaxConnections
    BY <1>3, <2>2, Zenon
  <2>. QED  BY <2>1, <2>3, Zenon DEF LimitExact
<1>8. CountExact' /\ Drained'
  BY <1>1, <1>3, Zenon DEF CountExact, Drained
<1>. QED  BY <1>1, <1>2, <1>6, <1>7, <1>8, LiveStep, Zenon

\* At the end both proxies have stopped, so no acceptor has a connection in hand
\* and what still runs was given up by a proxy whose grace period had run out.
LEMMA InvExit ==
  ASSUME Inv, JoinAdmin
  PROVE  Inv'
<1> USE DEF Inv
<1>1. /\ main = "joinAdmin" /\ Alive /\ main' = "exited"
      /\ UNCHANGED <<signal, admin, run, late, forced, acc, hand, permits, active, at>>
  BY Zenon DEF JoinAdmin, Alive, runVars, accVars
<1>2. \A p \in Proxies : run[p] = "stopped"
  BY <1>1, Zenon DEF Stages, Proxies
<1>3. \A p \in Proxies, a \in Acceptors : acc[p][a] = "stopped" /\ hand[p][a] = None
  BY <1>2 DEF Stages, Hands
<1>4. \A c \in Conns : conn[c] # "inHand" /\ conn[c] # "cut"
  <2>1. \A c \in Conns : conn[c] # "inHand"
    <3>1. ASSUME NEW c \in Conns, conn[c] = "inHand" PROVE FALSE
      <4>1. at[c] \in Proxies  BY <3>1, Zenon DEF Arrivals
      <4>2. PICK a \in Acceptors : hand[at[c]][a] = c  BY <3>1, Zenon DEF Hands
      <4>3. hand[at[c]][a] = None  BY <1>3, <4>1, <4>2, Zenon
      <4>. QED  BY <3>1, <4>2, <4>3, LifecycleAssumption, Zenon
    <3>. QED  BY <3>1, Zenon
  <2>. QED  BY <1>1, <2>1, Zenon DEF Arrivals
<1>5. /\ conn' \in [Conns -> ConnStates]
      /\ \A c \in Conns : conn'[c] = IF conn[c] = "running" THEN "cut" ELSE conn[c]
  BY <1>4, Zenon DEF JoinAdmin, TypeOK, ConnStates
<1>6. TypeOK'
  BY <1>1, <1>5, Zenon DEF TypeOK, MainPCs
<1>7. Stages' /\ Hands'
  <2>1. Stages'  BY <1>1, <1>2, <1>3, Zenon DEF Stages, Proxies
  <2>2. \A c \in Conns : conn'[c] # "inHand"  BY <1>4, <1>5, Zenon
  <2>3. \A p \in Proxies, a \in Acceptors : acc'[p][a] = "stopped" /\ hand'[p][a] = None
    BY <1>1, <1>3, Zenon
  <2>4. Hands'  BY <2>2, <2>3, Zenon DEF Hands
  <2>. QED  BY <2>1, <2>4, Zenon
<1>8. Arrivals'
  BY <1>1, <1>5, Zenon DEF Arrivals, Alive
<1>9. CountExact' /\ LimitExact' /\ Drained'
  BY <1>1, Zenon DEF CountExact, LimitExact, Drained, Alive
<1>10. \A c \in Conns : conn[c] = "running" => forced[at[c]]
  BY <1>1, <1>2, Zenon DEF Arrivals, Drained, Counted
<1>11. CutOnlyAfterGrace'
  BY <1>1, <1>4, <1>5, <1>10, Zenon DEF CutOnlyAfterGrace
<1>. QED  BY <1>6, <1>7, <1>8, <1>9, <1>11, Zenon

LEMMA InvNext == Inv /\ [Next]_vars => Inv'
<1> SUFFICES ASSUME Inv, [Next]_vars PROVE Inv'  BY Zenon
<1>1. CASE MainStep
  BY <1>1, InvMain, InvExit, Zenon DEF MainStep
<1>2. CASE Shutdown \/ AdminStep
  BY <1>2, InvMain, Zenon
<1>3. ASSUME NEW p \in Proxies, RunStep(p) \/ DeadlinePasses(p) PROVE Inv'
  BY <1>3, InvRun, Zenon
<1>4. ASSUME NEW p \in Proxies, NEW a \in Acceptors, AdmitStep(p, a) PROVE Inv'
  BY <1>4, InvTryAcquire, InvReject, InvSpawn, Zenon DEF AdmitStep
<1>5. ASSUME NEW p \in Proxies, NEW a \in Acceptors, AcceptorStops(p, a) PROVE Inv'
  BY <1>5, InvStops, Zenon
<1>6. ASSUME NEW p \in Proxies, NEW a \in Acceptors, NEW c \in Conns, Accept(p, a, c) PROVE Inv'
  BY <1>6, InvAccept, Zenon
<1>7. ASSUME NEW c \in Conns, HandlerReturns(c) \/ EndStep(c) PROVE Inv'
  BY <1>7, InvReturns, InvUncount, InvDropPermit, Zenon DEF EndStep
<1>8. CASE UNCHANGED vars
  <2>1. UNCHANGED <<main, signal, admin, run, late, forced, acc, hand, permits, active, conn, at>>
    BY <1>8, Zenon DEF vars, procVars, runVars, accVars, connVars
  <2>2. TypeOK' /\ Stages' /\ Hands' /\ Arrivals'
    <3>1. TypeOK' /\ Stages'
      BY <2>1 DEF Inv, TypeOK, Stages
    <3>2. Hands'
      BY <2>1 DEF Inv, Hands
    <3>3. Arrivals'
      BY <2>1, Zenon DEF Inv, Arrivals, Alive
    <3>. QED  BY <3>1, <3>2, <3>3, Zenon
  <2>3. CountExact' /\ LimitExact' /\ Drained'
    <3>1. \A p \in Proxies : /\ Counted(p)' = Counted(p)
                             /\ Holders(p)' = Holders(p)
                             /\ Granting(p)' = Granting(p)
      BY <2>1, Zenon DEF Counted, Holders, Granting
    <3>. QED  BY <2>1, <3>1, Zenon DEF Inv, CountExact, LimitExact, Drained, Alive
  <2>4. CutOnlyAfterGrace'
    BY <2>1, Zenon DEF Inv, CutOnlyAfterGrace
  <2>. QED  BY <2>2, <2>3, <2>4, Zenon DEF Inv
<1>. QED
  BY <1>1, <1>2, <1>3, <1>4, <1>5, <1>6, <1>7, <1>8, Zenon DEF Next

LEMMA Invariance == Spec => []Inv
BY InvInit, InvNext, PTL DEF Spec

-----------------------------------------------------------------------------
\* connection_semaphore is exact: no race of acceptors for the last permit and no
\* end of a handler loses a permit or lets one connection too many in.
THEOREM LimitIsExact == Spec => []LimitExact
BY Invariance, PTL DEF Inv

\* Returning from main cuts a connection only when wait_for_graceful_shutdown of
\* its own proxy gave up at the deadline: an acceptor that took a connection after
\* the signal is awaited before the count is polled.
THEOREM DrainComesFirst == Spec => []CutOnlyAfterGrace
BY Invariance, PTL DEF Inv

\* A proxy that drains or has stopped spawns no handler any more.
THEOREM AdmissionsEnd == Spec => AdmissionsEndBeforeDrain
<1>1. Inv /\ [Next]_vars =>
        [\A p \in Proxies, c \in Conns :
           /\ run[p] \in {"draining", "checking", "stopped"}
           /\ conn[c] # "running"
           /\ conn'[c] = "running"
           => at[c] # p]_vars
  <2> SUFFICES ASSUME Inv, [Next]_vars, NEW p \in Proxies, NEW c \in Conns,
                      run[p] \in {"draining", "checking", "stopped"},
                      conn[c] # "running", conn'[c] = "running", at[c] = p
               PROVE  FALSE
    BY Zenon
  <2>1. \A a \in Acceptors : acc[p][a] = "stopped"
    BY Zenon DEF Inv, Stages
  <2>2. ~UNCHANGED conn
    BY Zenon
  <2>3. ~\E q \in Proxies, a \in Acceptors : SpawnHandler(q, a)
    <3> SUFFICES ASSUME NEW q \in Proxies, NEW a \in Acceptors, SpawnHandler(q, a) PROVE FALSE
      BY Zenon
    <3>1. /\ acc[q][a] = "spawn"
          /\ conn' = [conn EXCEPT ![hand[q][a]] = "running"]
      BY Zenon DEF SpawnHandler
    <3>2. hand[q][a] = c
      BY <3>1, Zenon DEF Inv, TypeOK
    <3>3. at[c] = q
      BY <3>1, <3>2, Zenon DEF Inv, Hands
    <3>. QED  BY <2>1, <3>1, <3>3, Zenon
  <2>4. CASE MainStep \/ Shutdown \/ AdminStep
    BY <2>2, <2>4, Zenon DEF MainStep, SpawnAdmin, SpawnProxy, Shutdown, JoinInbound, JoinOutbound,
                      JoinAdmin, AdminStep, AdminBind, AdminStops, connVars
  <2>5. ASSUME NEW q \in Proxies, RunStep(q) \/ DeadlinePasses(q) PROVE FALSE
    BY <2>2, <2>5, Zenon DEF RunStep, Bind, RunDrains, PollActive, CheckDeadline, DeadlinePasses, connVars
  <2>6. ASSUME NEW q \in Proxies, NEW a \in Acceptors,
               AdmitStep(q, a) \/ AcceptorStops(q, a) \/ \E d \in Conns : Accept(q, a, d)
        PROVE  FALSE
    <3>1. CASE AdmitStep(q, a)
      BY <2>2, <2>3, <3>1, Zenon DEF AdmitStep, TryAcquireOwned, Reject, Inv, TypeOK
    <3>2. CASE AcceptorStops(q, a)
      BY <2>2, <3>2, Zenon DEF AcceptorStops, connVars
    <3>3. ASSUME NEW d \in Conns, Accept(q, a, d) PROVE FALSE
      BY <3>3, Zenon DEF Accept, Inv, TypeOK
    <3>. QED  BY <2>6, <3>1, <3>2, <3>3, Zenon
  <2>7. ASSUME NEW d \in Conns, HandlerReturns(d) \/ EndStep(d)
        PROVE  FALSE
    BY <2>2, <2>7, Zenon DEF HandlerReturns, EndStep, Uncount, DropPermit, Inv, TypeOK
  <2>8. CASE UNCHANGED vars
    BY <2>2, <2>8, Zenon DEF vars, connVars
  <2>. QED  BY <2>4, <2>5, <2>6, <2>7, <2>8, Zenon DEF Next
<1>. QED  BY <1>1, Invariance, PTL DEF Spec, AdmissionsEndBeforeDrain

\* Every variable of main(), the proxies and the connections keeps its type: the
\* permits never exceed the limit and no active counter falls below zero.
THEOREM TypesAreKept == Spec => []TypeOK
<1>1. Inv => TypeOK
  BY Zenon DEF Inv
<1>. QED  BY <1>1, Invariance, PTL

=============================================================================
