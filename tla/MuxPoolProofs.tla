--------------------------- MODULE MuxPoolProofs ----------------------------
(***************************************************************************)
(* Theorems about MuxPool, for any number of connections, tunnels, worker  *)
(* threads and retries, and for any caps.  The layers of the inductive     *)
(* invariant are proved in turn: what its actions do to a handler, the     *)
(* layers about single handlers and the drivers (types, registration, the  *)
(* open requests a driver serves and the sessions it gives up on), the     *)
(* layers about what the handlers share (the creation lock and the pool it *)
(* protects, the load counters, the identities they are authorised for),   *)
(* retries and the soft cap; then the invariant and what it implies.       *)
(***************************************************************************)
EXTENDS MuxPoolInductive, FiniteSetTheorems, TLAPS

LEMMA TypeWeakInit == Init => TypeWeak
  BY MuxAssumption DEF Init, TypeWeak, Awaiting, Running, TunnelIds

LEMMA RegistrationInit == Init => Registration
  BY MuxAssumption DEF Init, Registration, TunnelIds, NoTunnel, WithTunnel

\* A handler past the pick has a tunnel.
LEMMA TunnelAtHand ==
  ASSUME TypeWeak, Registration, NEW c \in Conns, pc[c] \in WithTunnel
  PROVE  tun[c] \in TunnelIds
  BY DEF TypeWeak, Registration

LEMMA LeastLoadedSubset == \A S : LeastLoaded(S) \subseteq S
  BY Zenon DEF LeastLoaded

\* What each step of a handler or of a driver does to the shape of the state.
LEMMA AuthorizeTypes ==
  ASSUME TypeWeak, NEW c \in Conns, NEW t \in TunnelIds, Authorize(c, t)
  PROVE  /\ pc' \in [Conns -> Awaiting \cup Running]
         /\ tun' \in [Conns -> TunnelIds \cup {NoTunnel}]
         /\ authorized' \in [Conns -> Identities \cup {None}]
<1>1. /\ "reserve" \in Awaiting \cup Running
      /\ "denied" \in Awaiting \cup Running
  BY Zenon DEF Awaiting, Running
<1>. QED  BY <1>1, ZenonT(40) DEF TypeWeak, Authorize, Goto

LEMMA NextAttemptTypes ==
  ASSUME TypeWeak, NEW c \in Conns, NextAttempt(c)
  PROVE  /\ pc' \in [Conns -> Awaiting \cup Running]
         /\ left' \in [Conns -> Int]
<1>1. /\ "failed" \in Awaiting \cup Running
      /\ "pick" \in Awaiting \cup Running
  BY Zenon DEF Awaiting, Running
<1>. QED  BY <1>1 DEF TypeWeak, NextAttempt, Goto

LEMMA ReleaseType ==
  ASSUME TypeWeak, NEW c, Release(c)
  PROVE  holder' \in Conns \cup {None}
  BY Zenon DEF TypeWeak, Release

LEMMA LiveTypes ==
  ASSUME TypeWeak, NEW t \in TunnelIds
  PROVE  /\ [live EXCEPT ![t] = @ + 1] \in [TunnelIds -> Int]
         /\ [live EXCEPT ![t] = @ - 1] \in [TunnelIds -> Int]
  BY DEF TypeWeak

LEMMA TypeWeakStep ==
  ASSUME TypeWeak, Registration, [Next]_vars
  PROVE  TypeWeak'
<1>0. pool \in SUBSET TunnelIds /\ UnderCap \subseteq TunnelIds
  BY Zenon DEF TypeWeak, UnderCap
<1>1. ASSUME NEW c \in Conns, RouteStep(c) PROVE TypeWeak'
  <2> USE DEF Awaiting, Running
  <2>1. CASE Start(c)  BY <2>1, Zenon DEF TypeWeak, Start, Goto, tunnelVars
  <2>2. CASE PickFast(c)
    <3>1. CASE UnderCap = {} /\ Goto(c, "lock") /\ UNCHANGED <<tun, authorized, overflowed>>
      BY <2>2, <3>1, Zenon DEF TypeWeak, PickFast, Goto, tunnelVars
    <3>2. ASSUME NEW t \in LeastLoaded(UnderCap), Authorize(c, t),
                 overflowed' = overflowed \ {c}
          PROVE  TypeWeak'
      BY <1>0, <2>2, <3>2, AuthorizeTypes, LeastLoadedSubset, Zenon DEF TypeWeak, PickFast, tunnelVars
    <3>. QED  BY <2>2, <3>1, <3>2, Zenon DEF PickFast
  <2>3. CASE AcquireLock(c)  BY <2>3, Zenon DEF TypeWeak, AcquireLock, Goto, tunnelVars
  <2>4. CASE Repick(c)
    <3>1. CASE UnderCap = {} /\ Goto(c, "grow") /\ UNCHANGED <<tun, authorized, overflowed, holder>>
      BY <2>4, <3>1, Zenon DEF TypeWeak, Repick, Goto, tunnelVars
    <3>2. ASSUME NEW t \in LeastLoaded(UnderCap), Authorize(c, t),
                 overflowed' = overflowed \ {c}, Release(c)
          PROVE  TypeWeak'
      BY <1>0, <2>4, <3>2, AuthorizeTypes, ReleaseType, LeastLoadedSubset, Zenon
      DEF TypeWeak, Repick, tunnelVars
    <3>. QED  BY <2>4, <3>1, <3>2, Zenon DEF Repick
  <2>5. CASE Grow(c)  BY <2>5, Zenon DEF TypeWeak, Grow, Goto, Release, tunnelVars
  <2>6. CASE PickAny(c)
    <3>1. CASE NextAttempt(c) /\ UNCHANGED <<tun, authorized, overflowed>>
      BY <2>6, <3>1, NextAttemptTypes, Zenon DEF TypeWeak, PickAny, tunnelVars
    <3>2. ASSUME NEW t \in LeastLoaded(pool), Authorize(c, t),
                 overflowed' = overflowed \cup {c}, UNCHANGED left
          PROVE  TypeWeak'
      BY <1>0, <2>6, <3>2, AuthorizeTypes, LeastLoadedSubset, Zenon DEF TypeWeak, PickAny, tunnelVars
    <3>. QED  BY <2>6, <3>1, <3>2, Zenon DEF PickAny
  <2>7. CASE Reserve(c)
    BY <2>7, LiveTypes, TunnelAtHand, Zenon DEF TypeWeak, Reserve, Goto, WithTunnel
  <2>8. CASE SendOpen(c)
    <3>1. Append(queue[tun[c]], c) \in Seq(Conns)
      BY <2>8, TunnelAtHand DEF TypeWeak, SendOpen, WithTunnel
    <3>. QED  BY <2>8, <3>1, Zenon DEF TypeWeak, SendOpen, Goto
  <2>9. CASE SendFails(c)  BY <2>9, Zenon DEF TypeWeak, SendFails, Goto, tunnelVars
  <2>10. CASE OpenErr(c)
    BY <2>10, LiveTypes, TunnelAtHand, Zenon DEF TypeWeak, OpenErr, Goto, WithTunnel
  <2>11. CASE Evict(c)
    <3>1. CASE holder = c /\ Goto(c, "failed") /\ UNCHANGED left
      BY <2>11, <3>1, ReleaseType, Zenon DEF TypeWeak, Evict, Goto, tunnelVars
    <3>2. CASE holder # c /\ NextAttempt(c)
      BY <2>11, <3>2, ReleaseType, NextAttemptTypes, Zenon DEF TypeWeak, Evict, tunnelVars
    <3>. QED  BY <2>11, <3>1, <3>2, Zenon DEF Evict
  <2>. QED  BY <1>1, <2>1, <2>2, <2>3, <2>4, <2>5, <2>6, <2>7, <2>8, <2>9, <2>10, <2>11, Zenon
            DEF RouteStep
<1>2. ASSUME NEW c \in Conns, HandshakeStep(c) PROVE TypeWeak'
  <2> USE DEF TypeWeak, Awaiting, Running
  <2>1. CASE HandshakeFails(c)  BY <2>1, Zenon DEF HandshakeFails, Goto, Release, tunnelVars
  <2>2. ASSUME NEW id \in Identities, HandshakeDenied(c, id) PROVE TypeWeak'
    BY <2>2, ReleaseType, Zenon DEF HandshakeDenied, Goto, tunnelVars
  <2>3. ASSUME NEW id \in Identities, HandshakeLegacy(c, id) PROVE TypeWeak'
    BY <2>3, ReleaseType, Zenon DEF HandshakeLegacy, Goto, tunnelVars
  <2>4. ASSUME NEW id \in Identities, HandshakeMux(c, id) PROVE TypeWeak'
    <3>1. nextId \in TunnelIds /\ nextId' \in 1..(TunnelBound + 1)
      BY <2>4, MuxAssumption DEF HandshakeMux, TunnelIds
    <3>. QED  BY <2>4, <3>1, Zenon DEF HandshakeMux, Goto
  <2>. QED  BY <1>2, <2>1, <2>2, <2>3, <2>4, Zenon DEF HandshakeStep
<1>3. ASSUME NEW c \in Conns, RelayEnds(c) \/ LegacyEnds(c) PROVE TypeWeak'
  <2>1. CASE RelayEnds(c)
    BY <2>1, LiveTypes, TunnelAtHand, Zenon
    DEF TypeWeak, RelayEnds, Goto, Awaiting, Running, WithTunnel
  <2>2. CASE LegacyEnds(c)
    BY <2>2, Zenon DEF TypeWeak, LegacyEnds, Goto, tunnelVars, Awaiting, Running
  <2>. QED  BY <1>3, <2>1, <2>2, Zenon
<1>4. ASSUME NEW t \in TunnelIds, DriverStep(t) PROVE TypeWeak'
  <2> USE DEF TypeWeak, Awaiting, Running
  <2>1. CASE TakeRequest(t)  BY <2>1 DEF TakeRequest, connVars
  <2>2. CASE OpenSucceeds(t)  BY <2>2, ReleaseType, Zenon DEF OpenSucceeds, Goto
  <2>3. CASE OpenRefused(t)  BY <2>3, Zenon DEF OpenRefused, Goto
  <2>4. CASE DriverExits(t)  BY <2>4 DEF DriverExits
  <2>5. CASE DriverEvicts(t)  BY <2>5, Zenon DEF DriverEvicts, connVars
  <2>. QED  BY <1>4, <2>1, <2>2, <2>3, <2>4, <2>5, Zenon DEF DriverStep
<1>5. ASSUME NEW t \in TunnelIds, SessionEnds(t) PROVE TypeWeak'
  BY <1>5, Zenon DEF TypeWeak, SessionEnds, connVars
<1>6. CASE SetPolicy  BY <1>6, Zenon DEF TypeWeak, SetPolicy, connVars, tunnelVars
<1>7. CASE UNCHANGED vars  BY <1>7, Zenon DEF TypeWeak, vars, connVars, tunnelVars
<1>. QED  BY <1>1, <1>2, <1>3, <1>4, <1>5, <1>6, <1>7, Zenon DEF Next

-----------------------------------------------------------------------------
\* Authorize touches its own handler only, and hands it the tunnel.
LEMMA AuthorizeEffect ==
  ASSUME TypeWeak, NEW c \in Conns, NEW t, Authorize(c, t)
  PROVE  /\ tun'[c] = t
         /\ pc'[c] \in {"reserve", "denied"}
         /\ pc'[c] = "reserve" => authorized'[c] = identity[t]
         /\ \A d \in Conns \ {c} : /\ pc'[d] = pc[d]
                                   /\ tun'[d] = tun[d]
                                   /\ authorized'[d] = authorized[d]
<1>1. CASE identity[t] \in allowed  BY <1>1, Zenon DEF TypeWeak, Authorize, Goto
<1>2. CASE identity[t] \notin allowed  BY <1>2, Zenon DEF TypeWeak, Authorize, Goto
<1>. QED  BY <1>1, <1>2, Zenon

\* The requester a driver answers.
LEMMA StashedRequester ==
  ASSUME TypeWeak, Requests, NEW t \in TunnelIds, stash[t] # None
  PROVE  stash[t] \in Conns /\ pc[stash[t]] = "wait" /\ tun[stash[t]] = t
  BY DEF TypeWeak, Requests

\* A driver that answers its stashed request moves that requester, no other.
LEMMA AnswerEffect ==
  ASSUME TypeWeak, Requests, NEW t \in TunnelIds, OpenSucceeds(t) \/ OpenRefused(t)
  PROVE  /\ stash[t] \in Conns /\ pc[stash[t]] = "wait" /\ tun[stash[t]] = t
         /\ OpenSucceeds(t) => pc'[stash[t]] = "relay"
         /\ OpenRefused(t) => pc'[stash[t]] = "open_err"
         /\ pc'[stash[t]] \in {"relay", "open_err"}
         /\ \A d \in Conns \ {stash[t]} : pc'[d] = pc[d]
<1>1. stash[t] # None  BY Zenon DEF OpenSucceeds, OpenRefused
<1>2. stash[t] \in Conns /\ pc[stash[t]] = "wait" /\ tun[stash[t]] = t
  BY <1>1, StashedRequester, Zenon
<1>3. pc \in [Conns -> Awaiting \cup Running]  BY Zenon DEF TypeWeak
<1>4. OpenSucceeds(t) => pc' = [pc EXCEPT ![stash[t]] = "relay"]
  BY Zenon DEF OpenSucceeds, Goto
<1>5. OpenRefused(t) => pc' = [pc EXCEPT ![stash[t]] = "open_err"]
  BY Zenon DEF OpenRefused, Goto
<1>. QED  BY <1>2, <1>3, <1>4, <1>5, Zenon

\* An answer leaves the handlers' other fields and the load counts alone.
LEMMA AnswerFrame ==
  ASSUME NEW t \in TunnelIds, OpenSucceeds(t) \/ OpenRefused(t)
  PROVE  UNCHANGED <<tun, left, authorized, overflowed, identity, live, pool, queue, driver>>
  BY Zenon DEF OpenSucceeds, OpenRefused

\* A driver that exits wakes the requesters waiting on its tunnel, no others.
LEMMA DriverExitsEffect ==
  ASSUME TypeWeak, Requests, NEW t \in TunnelIds, DriverExits(t), NEW c \in Conns
  PROVE  \/ /\ pc[c] = "wait" /\ tun[c] = t /\ pc'[c] = "open_err"
         \/ /\ ~(pc[c] = "wait" /\ tun[c] = t) /\ pc'[c] = pc[c]
<1>1. None \notin Conns  BY MuxAssumption, Zenon
<1>2. CASE c \in Range(queue[t]) \cup {stash[t]}
  BY <1>1, <1>2 DEF DriverExits, Requests
<1>3. CASE c \notin Range(queue[t]) \cup {stash[t]}
  BY <1>1, <1>3, Zenon DEF DriverExits, Requests
<1>. QED  BY <1>2, <1>3, Zenon

LEMMA RegistrationPick ==
  ASSUME TypeWeak, Registration, NEW c \in Conns, NEW t \in pool, Authorize(c, t),
         UNCHANGED <<pool, nextId, tunnelVars>>
  PROVE  Registration'
<1>1. t # NoTunnel /\ t < nextId
  BY DEF TypeWeak, Registration, TunnelIds, NoTunnel
<1>2. \A d \in Conns : tun'[d] = t \/ (tun'[d] = tun[d] /\ pc'[d] = pc[d])
  BY AuthorizeEffect, Zenon
<1>. QED  BY <1>1, <1>2, Zenon DEF Registration, tunnelVars

LEMMA RegistrationStep ==
  ASSUME TypeWeak, Registration, Requests, [Next]_vars
  PROVE  Registration'
<1> USE DEF Registration
<1>0. pool \in SUBSET TunnelIds /\ UnderCap \subseteq pool /\ NoTunnel \notin TunnelIds
  BY DEF TypeWeak, UnderCap, TunnelIds, NoTunnel
<1>1. ASSUME NEW c \in Conns, RouteStep(c) PROVE Registration'
  <2> USE DEF WithTunnel, TypeWeak
  <2>1. CASE Start(c)  BY <2>1, Zenon DEF Start, Goto, tunnelVars
  <2>2. CASE PickFast(c)
    <3>1. CASE UnderCap = {} /\ Goto(c, "lock") /\ UNCHANGED <<tun, authorized, overflowed>>
      BY <2>2, <3>1, Zenon DEF PickFast, Goto, tunnelVars
    <3>2. ASSUME NEW t \in LeastLoaded(UnderCap), Authorize(c, t) PROVE Registration'
      BY <1>0, <2>2, <3>2, RegistrationPick, LeastLoadedSubset, Zenon DEF PickFast
    <3>. QED  BY <2>2, <3>1, <3>2, Zenon DEF PickFast
  <2>3. CASE AcquireLock(c)  BY <2>3, Zenon DEF AcquireLock, Goto, tunnelVars
  <2>4. CASE Repick(c)
    <3>1. CASE UnderCap = {} /\ Goto(c, "grow") /\ UNCHANGED <<tun, authorized, overflowed, holder>>
      BY <2>4, <3>1, Zenon DEF Repick, Goto, tunnelVars
    <3>2. ASSUME NEW t \in LeastLoaded(UnderCap), Authorize(c, t) PROVE Registration'
      BY <1>0, <2>4, <3>2, RegistrationPick, LeastLoadedSubset, Zenon DEF Repick
    <3>. QED  BY <2>4, <3>1, <3>2, Zenon DEF Repick
  <2>5. CASE Grow(c)  BY <2>5, ZenonT(40) DEF Grow, Goto, tunnelVars
  <2>6. CASE PickAny(c)
    <3>1. CASE NextAttempt(c) /\ UNCHANGED <<tun, authorized, overflowed>>
      BY <2>6, <3>1, Zenon DEF PickAny, NextAttempt, Goto, tunnelVars
    <3>2. ASSUME NEW t \in LeastLoaded(pool), Authorize(c, t) PROVE Registration'
      BY <1>0, <2>6, <3>2, RegistrationPick, LeastLoadedSubset, Zenon DEF PickAny
    <3>. QED  BY <2>6, <3>1, <3>2, Zenon DEF PickAny
  <2>7. CASE Reserve(c)  BY <2>7, Zenon DEF Reserve, Goto
  <2>8. CASE SendOpen(c)  BY <2>8, Zenon DEF SendOpen, Goto
  <2>9. CASE SendFails(c)  BY <2>9, Zenon DEF SendFails, Goto, tunnelVars
  <2>10. CASE OpenErr(c)  BY <2>10, Zenon DEF OpenErr, Goto
  <2>11. CASE Evict(c)  BY <2>11, Zenon DEF Evict, NextAttempt, Goto, tunnelVars
  <2>. QED  BY <1>1, <2>1, <2>2, <2>3, <2>4, <2>5, <2>6, <2>7, <2>8, <2>9, <2>10, <2>11, Zenon
            DEF RouteStep
<1>2. ASSUME NEW c \in Conns, HandshakeStep(c) PROVE Registration'
  <2> USE DEF WithTunnel, TypeWeak
  <2>1. CASE HandshakeFails(c)  BY <2>1, Zenon DEF HandshakeFails, Goto, tunnelVars
  <2>2. ASSUME NEW id \in Identities, HandshakeDenied(c, id) PROVE Registration'
    BY <2>2, Zenon DEF HandshakeDenied, Goto, tunnelVars
  <2>3. ASSUME NEW id \in Identities, HandshakeLegacy(c, id) PROVE Registration'
    BY <2>3, Zenon DEF HandshakeLegacy, Goto, tunnelVars
  <2>4. ASSUME NEW id \in Identities, HandshakeMux(c, id) PROVE Registration'
    <3>1. nextId \in TunnelIds /\ nextId' = nextId + 1 /\ nextId \in Nat
      BY <2>4, MuxAssumption DEF HandshakeMux, TunnelIds
    <3>2. \A t \in TunnelIds : t \in Nat  BY DEF TunnelIds
    <3>3. /\ \A t \in TunnelIds : t < nextId' <=> session'[t] # "none"
          /\ \A t \in TunnelIds : session'[t] = "none" <=> driver'[t] = "none"
      BY <2>4, <3>1, <3>2 DEF HandshakeMux
    <3>4. \A t \in pool' : t < nextId'
      BY <2>4, <3>1, <3>2 DEF HandshakeMux
    <3>5. \A d \in Conns : tun'[d] < nextId'
      <4> TAKE d \in Conns
      <4>1. tun[d] \in Nat /\ tun[d] < nextId
        BY <3>2 DEF NoTunnel
      <4>2. tun'[d] = nextId \/ tun'[d] = tun[d]
        BY <2>4, Zenon DEF HandshakeMux
      <4> HIDE DEF TypeWeak, Registration
      <4>. QED  BY <3>1, <4>1, <4>2
    <3>6. \A d \in Conns : pc'[d] \in WithTunnel => tun'[d] # NoTunnel
      BY <1>0, <2>4, <3>1, Zenon DEF HandshakeMux, Goto
    <3>. QED  BY <3>3, <3>4, <3>5, <3>6, Zenon
  <2>. QED  BY <1>2, <2>1, <2>2, <2>3, <2>4, Zenon DEF HandshakeStep
<1>3. ASSUME NEW c \in Conns, RelayEnds(c) \/ LegacyEnds(c) PROVE Registration'
  BY <1>3 DEF RelayEnds, LegacyEnds, Goto, tunnelVars, WithTunnel, TypeWeak
<1>4. ASSUME NEW t \in TunnelIds, DriverStep(t) PROVE Registration'
  <2> USE DEF TypeWeak
  <2>1. CASE TakeRequest(t)  BY <2>1, Zenon DEF TakeRequest, connVars
  <2>2. CASE OpenSucceeds(t)  BY <2>2, StashedRequester DEF OpenSucceeds, Goto, WithTunnel
  <2>3. CASE OpenRefused(t)  BY <2>3, StashedRequester DEF OpenRefused, Goto, WithTunnel
  <2>4. CASE DriverExits(t)  BY <2>4, DriverExitsEffect, Zenon DEF DriverExits, WithTunnel
  <2>5. CASE DriverEvicts(t)  BY <2>5, Zenon DEF DriverEvicts, connVars
  <2>. QED  BY <1>4, <2>1, <2>2, <2>3, <2>4, <2>5, Zenon DEF DriverStep
<1>5. ASSUME NEW t \in TunnelIds, SessionEnds(t) PROVE Registration'
  BY <1>5, Zenon DEF TypeWeak, SessionEnds, connVars
<1>6. CASE SetPolicy  BY <1>6, Zenon DEF SetPolicy, connVars, tunnelVars
<1>7. CASE UNCHANGED vars  BY <1>7, Zenon DEF vars, connVars, tunnelVars
<1>. QED  BY <1>1, <1>2, <1>3, <1>4, <1>5, <1>6, <1>7, Zenon DEF Next

-----------------------------------------------------------------------------
\* A handler's step leaves the other handlers alone.
LEMMA HandlerLocal ==
  ASSUME TypeWeak, NEW c \in Conns,
         RouteStep(c) \/ HandshakeStep(c) \/ RelayEnds(c) \/ LegacyEnds(c)
  PROVE  \A d \in Conns \ {c} : /\ pc'[d] = pc[d]
                                /\ tun'[d] = tun[d]
                                /\ left'[d] = left[d]
                                /\ authorized'[d] = authorized[d]
<1> USE DEF TypeWeak, Goto
<1>1. CASE PickFast(c) \/ Repick(c) \/ PickAny(c)
  BY <1>1, AuthorizeEffect DEF PickFast, Repick, PickAny, NextAttempt
<1>4. CASE Start(c) \/ AcquireLock(c) \/ Grow(c) \/ Reserve(c) \/ SendOpen(c)
  BY <1>4, Zenon DEF Start, AcquireLock, Grow, Reserve, SendOpen
<1>5. CASE SendFails(c) \/ OpenErr(c) \/ Evict(c)
  BY <1>5, Zenon DEF SendFails, OpenErr, Evict, NextAttempt
<1>2. CASE HandshakeStep(c)
  BY <1>2, Zenon DEF HandshakeStep, HandshakeFails, HandshakeDenied, HandshakeLegacy, HandshakeMux
<1>3. CASE RelayEnds(c) \/ LegacyEnds(c)
  BY <1>3, Zenon DEF RelayEnds, LegacyEnds
<1>. QED  BY <1>1, <1>2, <1>3, <1>4, <1>5, Zenon DEF RouteStep

-----------------------------------------------------------------------------
(* The drivers: the open requests they serve and the sessions they give up on. *)

LEMMA RequestsInit == Init => Requests
<1> SUFFICES ASSUME Init PROVE Requests  BY Zenon
<1>1. \A t \in TunnelIds : /\ queue[t] = <<>> /\ stash[t] = None
                           /\ Range(queue[t]) = {} /\ IsInjective(queue[t])
  BY DEF Init, Range, IsInjective
<1>. QED  BY <1>1, Zenon DEF Init, Requests

\* Steps of handlers that do not wait on a request, and of other parts.
LEMMA RequestsFrame ==
  ASSUME Requests, UNCHANGED <<queue, stash>>,
         \A t \in TunnelIds : driver[t] = "running" => driver'[t] = "running",
         \A c \in Conns : \/ pc'[c] = pc[c] /\ tun'[c] = tun[c]
                          \/ pc[c] # "wait" /\ pc'[c] # "wait",
         TypeWeak
  PROVE  Requests'
<1>1. \A t : Range(queue'[t]) = Range(queue[t])  BY Zenon DEF Range
<1>2. \A t \in TunnelIds : Range(queue[t]) \cup ({stash[t]} \ {None}) \subseteq Conns
  BY DEF Range, TypeWeak
<1>. QED  BY <1>1, <1>2 DEF Requests

\* A channel of distinct requests stays one when a new request is appended or
\* the oldest is taken out.
LEMMA AppendDistinct ==
  ASSUME NEW S, NEW s \in Seq(S), NEW e \in S, IsInjective(s), e \notin Range(s)
  PROVE  /\ Range(Append(s, e)) = Range(s) \cup {e}
         /\ IsInjective(Append(s, e))
         /\ Append(s, e) # <<>>
<1> DEFINE r == Append(s, e)
<1>1. Len(r) = Len(s) + 1 /\ Len(s) \in Nat  OBVIOUS
<1>2. \A i \in 1..Len(s) : r[i] = s[i]  OBVIOUS
<1>3. r[Len(s) + 1] = e  OBVIOUS
<1> HIDE DEF r
<1>4. Range(r) = Range(s) \cup {e}
  <2>1. ASSUME NEW x \in Range(r) PROVE x \in Range(s) \cup {e}
    BY <1>1, <1>2, <1>3 DEF Range
  <2>2. ASSUME NEW x \in Range(s) PROVE x \in Range(r)
    <3>1. PICK i \in 1..Len(s) : x = s[i]  BY DEF Range
    <3>2. i \in 1..Len(r) /\ r[i] = x  BY <1>1, <1>2, <3>1
    <3>. QED  BY <3>2 DEF Range
  <2>3. e \in Range(r)
    <3>1. Len(s) + 1 \in 1..Len(r)  BY <1>1
    <3>. QED  BY <1>3, <3>1 DEF Range
  <2>. QED  BY <2>1, <2>2, <2>3, Zenon
<1>5. IsInjective(r)
  BY <1>1, <1>2, <1>3 DEF IsInjective, Range
<1>6. r # <<>>  BY <1>1
<1>. QED  BY <1>4, <1>5, <1>6, Zenon DEF r

LEMMA TailDistinct ==
  ASSUME NEW S, NEW s \in Seq(S), s # <<>>, IsInjective(s)
  PROVE  /\ Head(s) \in Range(s)
         /\ Range(Tail(s)) = Range(s) \ {Head(s)}
         /\ IsInjective(Tail(s))
<1> DEFINE r == Tail(s)
<1>1. Len(s) \in Nat \ {0} /\ Len(r) = Len(s) - 1  OBVIOUS
<1>2. \A i \in 1..Len(r) : r[i] = s[i + 1]  OBVIOUS
<1>3. Head(s) = s[1]  OBVIOUS
<1>7. DOMAIN r = 1..Len(r)  OBVIOUS
<1> HIDE DEF r
<1>4. Head(s) \in Range(s)
  <2>1. 1 \in 1..Len(s)  BY <1>1
  <2>. QED  BY <1>3, <2>1 DEF Range
<1>5. Range(r) = Range(s) \ {Head(s)}
  <2>1. ASSUME NEW x \in Range(r) PROVE x \in Range(s) \ {Head(s)}
    <3>1. PICK i \in 1..Len(r) : x = r[i]  BY DEF Range
    <3>2. i + 1 \in 1..Len(s) /\ 1 \in 1..Len(s) /\ i + 1 # 1 /\ x = s[i + 1]
      BY <1>1, <1>2, <3>1
    <3>3. s[i + 1] # s[1]  BY <3>2 DEF IsInjective
    <3>. QED  BY <1>3, <3>2, <3>3 DEF Range
  <2>2. ASSUME NEW x \in Range(s), x # Head(s) PROVE x \in Range(r)
    <3>1. PICK i \in 1..Len(s) : x = s[i]  BY DEF Range
    <3>2. i - 1 \in 1..Len(r)  BY <1>1, <1>3, <2>2, <3>1
    <3>3. r[i - 1] = x /\ i - 1 \in DOMAIN r  BY <1>1, <1>2, <1>7, <3>1, <3>2
    <3>. QED  BY <3>3, Zenon DEF Range
  <2>. QED  BY <2>1, <2>2, Zenon
<1>6. IsInjective(r)
  <2> SUFFICES ASSUME NEW i \in 1..Len(r), NEW j \in 1..Len(r), r[i] = r[j] PROVE i = j
    BY DEF IsInjective
  <2>1. i + 1 \in 1..Len(s) /\ j + 1 \in 1..Len(s) /\ s[i + 1] = s[j + 1]
    BY <1>1, <1>2
  <2>2. i + 1 = j + 1  BY <2>1 DEF IsInjective
  <2>. QED  BY <2>2
<1>. QED  BY <1>4, <1>5, <1>6, Zenon DEF r

LEMMA NoRequests == Range(<<>>) = {} /\ IsInjective(<<>>)
BY DEF Range, IsInjective

LEMMA RequestsOfConns ==
  ASSUME TypeWeak
  PROVE  \A t \in TunnelIds : Range(queue[t]) \cup ({stash[t]} \ {None}) \subseteq Conns
BY DEF TypeWeak, Range

LEMMA RequestsStep ==
  ASSUME TypeWeak, Registration, Requests, [Next]_vars
  PROVE  Requests'
<1> USE DEF TypeWeak
<1>1. ASSUME NEW c \in Conns, RouteStep(c), ~SendOpen(c) PROVE Requests'
  <2>1. UNCHANGED <<queue, stash, driver>>
    BY <1>1, Zenon DEF RouteStep, Start, PickFast, AcquireLock, Repick, Grow, PickAny, Reserve,
                SendFails, OpenErr, Evict, tunnelVars
  <2>2. pc[c] # "wait" /\ pc'[c] # "wait"
    <3>1. CASE PickFast(c) \/ Repick(c) \/ PickAny(c)
      BY <3>1, AuthorizeEffect, Zenon DEF PickFast, Repick, PickAny, NextAttempt, Goto
    <3>2. CASE Start(c) \/ AcquireLock(c) \/ Grow(c) \/ Reserve(c)
      BY <3>2, Zenon DEF Start, AcquireLock, Grow, Reserve, Goto
    <3>3. CASE SendFails(c) \/ OpenErr(c) \/ Evict(c)
      BY <3>3, Zenon DEF SendFails, OpenErr, Evict, NextAttempt, Goto
    <3>. QED  BY <1>1, <3>1, <3>2, <3>3, Zenon DEF RouteStep
  <2>3. \A d \in Conns \ {c} : pc'[d] = pc[d] /\ tun'[d] = tun[d]
    BY <1>1, HandlerLocal, Zenon
  <2>. QED  BY <2>1, <2>2, <2>3, RequestsFrame, Zenon
<1>2. ASSUME NEW c \in Conns, SendOpen(c) PROVE Requests'
  <2> DEFINE u == tun[c]
  <2>1. u \in TunnelIds /\ pc[c] = "send"
    BY <1>2, TunnelAtHand, Zenon DEF SendOpen, WithTunnel
  <2>2. queue[u] \in Seq(Conns) /\ IsInjective(queue[u]) /\ c \notin Range(queue[u])
    <3>1. queue[u] \in Seq(Conns)  BY <2>1, Zenon
    <3>2. IsInjective(queue[u])  BY <2>1, Zenon DEF Requests
    <3>3. c \notin Range(queue[u])  BY <2>1, Zenon DEF Requests
    <3>. QED  BY <3>1, <3>2, <3>3, Zenon
  <2>3. queue'[u] = Append(queue[u], c) /\ \A t \in TunnelIds \ {u} : queue'[t] = queue[t]
    BY <1>2, <2>1, Zenon DEF SendOpen
  <2>4. /\ Range(queue'[u]) = Range(queue[u]) \cup {c} /\ IsInjective(queue'[u])
        /\ \A t \in TunnelIds \ {u} : Range(queue'[t]) = Range(queue[t])
    BY <2>2, <2>3, AppendDistinct
  <2>5. /\ pc'[c] = "wait" /\ \A d \in Conns \ {c} : pc'[d] = pc[d]
        /\ UNCHANGED <<tun, stash, driver>> /\ driver[u] = "running"
    BY <1>2, Zenon DEF SendOpen, Goto
  <2>6. \A t \in TunnelIds : c \notin Range(queue[t]) /\ stash[t] # c
    <3> TAKE t \in TunnelIds
    <3>1. c # None  BY MuxAssumption, Zenon
    <3> HIDE DEF TypeWeak
    <3>. QED  BY <2>1, <3>1, Zenon DEF Requests
  <2>7. \A t \in TunnelIds : Range(queue[t]) \cup ({stash[t]} \ {None}) \subseteq Conns
    BY RequestsOfConns, Zenon
  <2> HIDE DEF u, TypeWeak
  <2>8. \A t \in TunnelIds : \A d \in Range(queue'[t]) \cup ({stash'[t]} \ {None}) :
          pc'[d] = "wait" /\ tun'[d] = t
    BY <2>1, <2>4, <2>5, <2>6, <2>7 DEF Requests, u
  <2>9. \A t \in TunnelIds : queue'[t] # <<>> \/ stash'[t] # None => driver'[t] = "running"
    BY <2>3, <2>5, Zenon DEF Requests
  <2>10. \A t \in TunnelIds : IsInjective(queue'[t]) /\ stash'[t] \notin Range(queue'[t])
    <3> TAKE t \in TunnelIds
    <3>1. CASE t = u  BY <2>1, <2>4, <2>5, <2>6, <3>1, Zenon DEF Requests
    <3>2. CASE t # u  BY <2>3, <2>5, <3>2, Zenon DEF Requests
    <3>. QED  BY <3>1, <3>2, Zenon
  <2>11. \A d \in Conns : pc'[d] = "wait" => d \in Range(queue'[tun'[d]]) \cup {stash'[tun'[d]]}
    <3> TAKE d \in Conns
    <3>1. CASE d = c  BY <2>4, <2>5, <3>1, Zenon DEF u
    <3>2. ASSUME d # c, pc'[d] = "wait" PROVE d \in Range(queue'[tun[d]]) \cup {stash'[tun[d]]}
      <4>1. pc[d] = "wait" /\ tun[d] \in TunnelIds
        BY <2>5, <3>2, TunnelAtHand, Zenon DEF WithTunnel
      <4>. QED  BY <2>4, <2>5, <4>1, Zenon DEF Requests
    <3>. QED  BY <2>5, <3>1, <3>2, Zenon
  <2>. QED  BY <2>8, <2>9, <2>10, <2>11, Zenon DEF Requests
<1>3. ASSUME NEW c \in Conns, HandshakeStep(c) PROVE Requests'
  <2>1. UNCHANGED <<queue, stash>>
    BY <1>3, Zenon DEF HandshakeStep, HandshakeFails, HandshakeDenied, HandshakeLegacy,
                HandshakeMux, tunnelVars
  <2>2. \A t \in TunnelIds : driver[t] = "running" => driver'[t] = "running"
    BY <1>3, Zenon DEF HandshakeStep, HandshakeFails, HandshakeDenied, HandshakeLegacy,
                HandshakeMux, tunnelVars
  <2>3. pc[c] # "wait" /\ pc'[c] # "wait"
    BY <1>3, Zenon DEF HandshakeStep, HandshakeFails, HandshakeDenied, HandshakeLegacy,
                HandshakeMux, Goto
  <2>4. \A d \in Conns \ {c} : pc'[d] = pc[d] /\ tun'[d] = tun[d]
    BY <1>3, Zenon DEF HandshakeStep, HandshakeFails, HandshakeDenied, HandshakeLegacy,
                HandshakeMux, Goto
  <2>. QED  BY <2>1, <2>2, <2>3, <2>4, RequestsFrame, Zenon
<1>4. ASSUME NEW c \in Conns, RelayEnds(c) \/ LegacyEnds(c) PROVE Requests'
  BY <1>4, RequestsFrame, Zenon DEF RelayEnds, LegacyEnds, Goto, tunnelVars
<1>5. ASSUME NEW t \in TunnelIds, TakeRequest(t) PROVE Requests'
  <2>1. /\ driver[t] = "running" /\ stash[t] = None /\ queue[t] # <<>>
        /\ queue[t] \in Seq(Conns) /\ IsInjective(queue[t])
    BY <1>5, Zenon DEF TakeRequest, Requests
  <2>2. /\ stash'[t] = Head(queue[t]) /\ queue'[t] = Tail(queue[t])
        /\ \A u \in TunnelIds \ {t} : stash'[u] = stash[u] /\ queue'[u] = queue[u]
    BY <1>5, Zenon DEF TakeRequest
  <2>3. UNCHANGED <<pc, tun, driver>>  BY <1>5, Zenon DEF TakeRequest, connVars
  <2>4. /\ Head(queue[t]) \in Range(queue[t]) /\ Range(queue'[t]) = Range(queue[t]) \ {Head(queue[t])}
        /\ IsInjective(queue'[t])
        /\ \A u \in TunnelIds \ {t} : Range(queue'[u]) = Range(queue[u])
    <3>1. \A u \in TunnelIds \ {t} : Range(queue'[u]) = Range(queue[u])  BY <2>2, Zenon
    <3>. QED  BY <2>1, <2>2, <3>1, TailDistinct
  <2> HIDE DEF TypeWeak
  <2>5. \A u \in TunnelIds : \A d \in Range(queue'[u]) \cup ({stash'[u]} \ {None}) :
          pc'[d] = "wait" /\ tun'[d] = u
    <3>1. \A d \in Range(queue'[t]) \cup ({stash'[t]} \ {None}) : pc'[d] = "wait" /\ tun'[d] = t
      <4>1. \A d \in Range(queue[t]) : pc[d] = "wait" /\ tun[d] = t
        BY Zenon DEF Requests
      <4>2. \A d \in Range(queue'[t]) \cup ({stash'[t]} \ {None}) : d \in Range(queue[t])
        BY <2>2, <2>4, Zenon
      <4>. QED  BY <2>3, <4>1, <4>2, Zenon
    <3>2. \A u \in TunnelIds \ {t} : \A d \in Range(queue'[u]) \cup ({stash'[u]} \ {None}) :
            pc'[d] = "wait" /\ tun'[d] = u
      BY <2>2, <2>3, <2>4, ZenonT(40) DEF Requests
    <3>. QED  BY <3>1, <3>2, Zenon
  <2>6. \A u \in TunnelIds : queue'[u] # <<>> \/ stash'[u] # None => driver'[u] = "running"
    BY <2>1, <2>2, <2>3, ZenonT(40) DEF Requests
  <2>7. \A u \in TunnelIds : IsInjective(queue'[u]) /\ stash'[u] \notin Range(queue'[u])
    BY <2>2, <2>4 DEF Requests
  <2>8. \A d \in Conns : pc'[d] = "wait" => d \in Range(queue'[tun'[d]]) \cup {stash'[tun'[d]]}
    <3> SUFFICES ASSUME NEW d \in Conns, pc[d] = "wait"
                 PROVE  d \in Range(queue'[tun[d]]) \cup {stash'[tun[d]]}
      BY <2>3, Zenon
    <3>1. tun[d] \in TunnelIds  BY TunnelAtHand, Zenon DEF WithTunnel
    <3>2. CASE tun[d] = t
      <4>1. d # None  BY MuxAssumption, Zenon
      <4>2. d \in Range(queue[t])  BY <2>1, <3>2, <4>1, Zenon DEF Requests
      <4>. QED  BY <2>2, <2>4, <3>2, <4>2, Zenon
    <3>3. CASE tun[d] # t  BY <2>2, <2>4, <3>1, <3>3, Zenon DEF Requests
    <3>. QED  BY <3>2, <3>3, Zenon
  <2>. QED  BY <2>5, <2>6, <2>7, <2>8, Zenon DEF Requests
<1>6. ASSUME NEW t \in TunnelIds, OpenSucceeds(t) \/ OpenRefused(t) PROVE Requests'
  <2> DEFINE c == stash[t]
  <2>1. c \in Conns /\ pc[c] = "wait" /\ tun[c] = t
    BY <1>6, AnswerEffect, Zenon
  <2>2. /\ pc'[c] # "wait" /\ \A d \in Conns \ {c} : pc'[d] = pc[d]
        /\ stash'[t] = None /\ \A u \in TunnelIds \ {t} : stash'[u] = stash[u]
        /\ UNCHANGED <<tun, queue, driver>>
    <3>1. stash' = [stash EXCEPT ![t] = None]  BY <1>6, Zenon DEF OpenSucceeds, OpenRefused
    <3>2. stash'[t] = None /\ \A u \in TunnelIds \ {t} : stash'[u] = stash[u]
      BY <3>1, Zenon DEF TypeWeak
    <3>. QED  BY <1>6, <3>2, AnswerEffect, AnswerFrame, Zenon
  <2>3. \A u : Range(queue'[u]) = Range(queue[u])
    <3>1. queue' = queue  BY <2>2, Zenon
    <3>. QED  BY <3>1, Zenon
  <2>4. \A u \in TunnelIds : Range(queue[u]) \cup ({stash[u]} \ {None}) \subseteq Conns
    BY RequestsOfConns, Zenon
  <2>5. \A u \in TunnelIds : c \notin Range(queue[u]) /\ (stash[u] = c => u = t)
    BY <2>1, MuxAssumption DEF Requests
  <2>6. None \notin Conns  BY MuxAssumption, Zenon
  <2> HIDE DEF c, TypeWeak
  <2>7. \A u \in TunnelIds : \A d \in Range(queue'[u]) \cup ({stash'[u]} \ {None}) :
          pc'[d] = "wait" /\ tun'[d] = u
    BY <2>2, <2>3, <2>4, <2>5 DEF Requests
  <2>8. \A u \in TunnelIds : queue'[u] # <<>> \/ stash'[u] # None => driver'[u] = "running"
    BY <2>2, Zenon DEF Requests
  <2>9. \A u \in TunnelIds : IsInjective(queue'[u]) /\ stash'[u] \notin Range(queue'[u])
    BY <2>2, <2>3, <2>4, <2>6, Zenon DEF Requests
  <2>10. \A d \in Conns : pc'[d] = "wait" => d \in Range(queue'[tun'[d]]) \cup {stash'[tun'[d]]}
    <3> SUFFICES ASSUME NEW d \in Conns, pc[d] = "wait", d # c
                 PROVE  d \in Range(queue'[tun[d]]) \cup {stash'[tun[d]]}
      BY <2>1, <2>2, Zenon
    <3>1. tun[d] \in TunnelIds  BY TunnelAtHand, Zenon DEF WithTunnel
    <3>. QED  BY <2>2, <2>3, <3>1, Zenon DEF Requests, c
  <2>. QED  BY <2>7, <2>8, <2>9, <2>10, Zenon DEF Requests
<1>7. ASSUME NEW t \in TunnelIds, DriverExits(t) PROVE Requests'
  <2>1. /\ queue'[t] = <<>> /\ stash'[t] = None /\ UNCHANGED tun
        /\ \A u \in TunnelIds \ {t} : /\ queue'[u] = queue[u] /\ stash'[u] = stash[u]
                                      /\ driver'[u] = driver[u]
    BY <1>7, Zenon DEF DriverExits
  <2>2. /\ Range(queue'[t]) = {} /\ IsInjective(queue'[t])
        /\ \A u \in TunnelIds \ {t} : Range(queue'[u]) = Range(queue[u])
    BY <2>1, NoRequests, Zenon
  <2>3. \A u \in TunnelIds : Range(queue[u]) \cup ({stash[u]} \ {None}) \subseteq Conns
    BY RequestsOfConns, Zenon
  <2>4. \A c \in Conns : \/ tun[c] # t /\ pc'[c] = pc[c]
                         \/ tun[c] = t /\ pc'[c] # "wait"
    BY <1>7, DriverExitsEffect, Zenon
  <2> HIDE DEF TypeWeak
  <2>5. \A u \in TunnelIds : \A d \in Range(queue'[u]) \cup ({stash'[u]} \ {None}) :
          pc'[d] = "wait" /\ tun'[d] = u
    <3>1. Range(queue'[t]) \cup ({stash'[t]} \ {None}) = {}
      BY <2>1, <2>2, Zenon
    <3>2. ASSUME NEW u \in TunnelIds \ {t}, NEW d \in Range(queue[u]) \cup ({stash[u]} \ {None})
          PROVE  pc'[d] = "wait" /\ tun'[d] = u
      <4>1. d \in Conns /\ pc[d] = "wait" /\ tun[d] = u
        BY <2>3, <3>2, Zenon DEF Requests
      <4>. QED  BY <2>1, <2>4, <3>2, <4>1, Zenon
    <3>3. \A u \in TunnelIds \ {t} : Range(queue'[u]) \cup ({stash'[u]} \ {None})
                                     = Range(queue[u]) \cup ({stash[u]} \ {None})
      BY <2>1, <2>2, Zenon
    <3>. QED  BY <3>1, <3>2, <3>3, Zenon
  <2>6. \A u \in TunnelIds : queue'[u] # <<>> \/ stash'[u] # None => driver'[u] = "running"
    BY <2>1, ZenonT(40) DEF Requests
  <2>7. \A u \in TunnelIds : IsInjective(queue'[u]) /\ stash'[u] \notin Range(queue'[u])
    BY <2>1, <2>2, Zenon DEF Requests
  <2>8. \A d \in Conns : pc'[d] = "wait" => d \in Range(queue'[tun'[d]]) \cup {stash'[tun'[d]]}
    <3> SUFFICES ASSUME NEW d \in Conns, pc[d] = "wait", tun[d] # t
                 PROVE  d \in Range(queue'[tun[d]]) \cup {stash'[tun[d]]}
      BY <2>1, <2>4, Zenon
    <3>1. tun[d] \in TunnelIds  BY TunnelAtHand, Zenon DEF WithTunnel
    <3>. QED  BY <2>1, <2>2, <3>1, Zenon DEF Requests
  <2>. QED  BY <2>5, <2>6, <2>7, <2>8, Zenon DEF Requests
<1>8. ASSUME NEW t \in TunnelIds, DriverEvicts(t) \/ SessionEnds(t) PROVE Requests'
  BY <1>8, RequestsFrame, Zenon DEF DriverEvicts, SessionEnds, connVars
<1>9. CASE SetPolicy \/ UNCHANGED vars
  BY <1>9, RequestsFrame, Zenon DEF SetPolicy, vars, connVars, tunnelVars
<1>. QED  BY <1>1, <1>2, <1>3, <1>4, <1>5, <1>6, <1>7, <1>8, <1>9, Zenon
          DEF Next, DriverStep

-----------------------------------------------------------------------------
LEMMA SessionsInit == Init => Sessions
  BY Zenon DEF Init, Sessions

\* Steps that leave the tunnels alone, and bring no handler to an error path.
LEMMA SessionsFrame ==
  ASSUME Sessions, UNCHANGED <<session, driver, pool>>,
         \A c \in Conns : \/ pc'[c] \notin {"open_err", "evict"}
                          \/ pc[c] \in {"open_err", "evict"} /\ tun'[c] = tun[c]
  PROVE  Sessions'
  BY Zenon DEF Sessions

LEMMA SessionsStep ==
  ASSUME TypeWeak, Registration, Requests, Sessions, [Next]_vars
  PROVE  Sessions'
<1> USE DEF TypeWeak
<1>1. ASSUME NEW c \in Conns, RouteStep(c), ~Evict(c), ~SendFails(c) PROVE Sessions'
  <2>1. UNCHANGED <<session, driver, pool>>
    BY <1>1, Zenon DEF RouteStep, Start, PickFast, AcquireLock, Repick, Grow, PickAny, Reserve,
                SendOpen, OpenErr, tunnelVars
  <2>2. \/ pc'[c] \notin {"open_err", "evict"}
        \/ pc[c] \in {"open_err", "evict"} /\ tun'[c] = tun[c]
    BY <1>1, AuthorizeEffect, Zenon
    DEF RouteStep, Start, PickFast, AcquireLock, Repick, Grow, PickAny, Reserve, SendOpen,
        OpenErr, NextAttempt, Goto
  <2> HIDE DEF TypeWeak
  <2>. QED  BY <1>1, <2>1, <2>2, HandlerLocal, SessionsFrame, Zenon
<1>2. ASSUME NEW c \in Conns, SendFails(c) PROVE Sessions'
  <2>1. tun[c] \in TunnelIds /\ pc[c] = "send" /\ driver[tun[c]] # "running"
    BY <1>2, TunnelAtHand, Zenon DEF SendFails, WithTunnel
  <2>2. session[tun[c]] # "none"
    BY <2>1, Zenon DEF Registration
  <2>3. session[tun[c]] = "down"
    BY <2>1, <2>2, Zenon DEF Sessions
  <2>. QED  BY <1>2, <2>3, Zenon DEF Sessions, SendFails, Goto, tunnelVars
<1>3. ASSUME NEW c \in Conns, Evict(c) PROVE Sessions'
  <2>1. session[tun[c]] = "down" /\ pc'[c] \notin {"open_err", "evict"}
    BY <1>3, Zenon DEF Sessions, Evict, NextAttempt, Goto
  <2>2. \A d \in Conns \ {c} : pc'[d] = pc[d] /\ tun'[d] = tun[d]
    BY <1>3, HandlerLocal, Zenon DEF RouteStep
  <2>. QED  BY <1>3, <2>1, <2>2, Zenon DEF Sessions, Evict, tunnelVars
<1>4. ASSUME NEW c \in Conns, HandshakeStep(c) PROVE Sessions'
  <2>1. CASE HandshakeFails(c)
    BY <2>1, SessionsFrame, Zenon DEF HandshakeFails, Goto, tunnelVars
  <2>2. ASSUME NEW id \in Identities, HandshakeDenied(c, id) \/ HandshakeLegacy(c, id)
        PROVE  Sessions'
    BY <2>2, SessionsFrame, Zenon DEF HandshakeDenied, HandshakeLegacy, Goto, tunnelVars
  <2>3. ASSUME NEW id \in Identities, HandshakeMux(c, id) PROVE Sessions'
    <3>1. nextId \in TunnelIds /\ \A d \in Conns : tun[d] # nextId
      BY <2>3, MuxAssumption DEF HandshakeMux, TunnelIds, Registration
    <3>2. \A d \in Conns : pc'[d] \in {"open_err", "evict"} =>
                             pc[d] \in {"open_err", "evict"} /\ tun'[d] = tun[d]
      BY <2>3, Zenon DEF HandshakeMux, Goto
    <3>. QED  BY <2>3, <3>1, <3>2 DEF Sessions, HandshakeMux
  <2>. QED  BY <1>4, <2>1, <2>2, <2>3, Zenon DEF HandshakeStep
<1>5. ASSUME NEW c \in Conns, RelayEnds(c) \/ LegacyEnds(c) PROVE Sessions'
  BY <1>5, SessionsFrame, Zenon DEF RelayEnds, LegacyEnds, Goto, tunnelVars
<1>6. ASSUME NEW t \in TunnelIds, TakeRequest(t) PROVE Sessions'
  BY <1>6, SessionsFrame, Zenon DEF TakeRequest, connVars
<1>7. ASSUME NEW t \in TunnelIds, OpenSucceeds(t) PROVE Sessions'
  BY <1>7, StashedRequester, SessionsFrame DEF OpenSucceeds, Goto
<1>8. ASSUME NEW t \in TunnelIds, OpenRefused(t) PROVE Sessions'
  <2>1. /\ stash[t] \in Conns /\ tun[stash[t]] = t
        /\ pc'[stash[t]] = "open_err" /\ \A d \in Conns \ {stash[t]} : pc'[d] = pc[d]
    BY <1>8, AnswerEffect, Zenon
  <2>2. /\ session'[t] = "down" /\ \A u \in TunnelIds \ {t} : session'[u] = session[u]
        /\ UNCHANGED <<tun, driver, pool>>
    BY <1>8, Zenon DEF OpenRefused
  <2>3. \A c \in Conns : pc'[c] \in {"open_err", "evict"} => session'[tun'[c]] = "down"
    <3>1. \A c \in Conns : pc[c] \in {"open_err", "evict"} => tun[c] \in TunnelIds
      BY TunnelAtHand, Zenon DEF WithTunnel
    <3>2. \A c \in Conns \ {stash[t]} : pc[c] \in {"open_err", "evict"} => session'[tun[c]] = "down"
      BY <2>2, <3>1, Zenon DEF Sessions
    <3>. QED  BY <2>1, <2>2, <3>2, Zenon
  <2>. QED  BY <2>2, <2>3, Zenon DEF Sessions
<1>9. ASSUME NEW t \in TunnelIds, DriverExits(t) PROVE Sessions'
  <2>1. \A c \in Conns : pc'[c] \in {"open_err", "evict"} => session'[tun'[c]] = "down"
    BY <1>9, DriverExitsEffect, Zenon DEF Sessions, DriverExits
  <2>. QED  BY <1>9, <2>1, Zenon DEF Sessions, DriverExits
<1>10. ASSUME NEW t \in TunnelIds, DriverEvicts(t) \/ SessionEnds(t) PROVE Sessions'
  <2>1. CASE DriverEvicts(t)
    BY <2>1, Zenon DEF Sessions, DriverEvicts, connVars
  <2>2. CASE SessionEnds(t)
    <3>1. \A c \in Conns : pc[c] \in {"open_err", "evict"} => tun[c] \in TunnelIds
      BY TunnelAtHand, Zenon DEF WithTunnel
    <3>. QED  BY <2>2, <3>1, Zenon DEF Sessions, SessionEnds, connVars
  <2>. QED  BY <1>10, <2>1, <2>2, Zenon
<1>11. CASE SetPolicy \/ UNCHANGED vars
  BY <1>11, SessionsFrame, Zenon DEF SetPolicy, vars, connVars, tunnelVars
<1>. QED  BY <1>1, <1>2, <1>3, <1>4, <1>5, <1>6, <1>7, <1>8, <1>9, <1>10, <1>11, Zenon
          DEF Next, DriverStep

-----------------------------------------------------------------------------
(* What the handlers share *)

LEMMA TunnelSetsFinite ==
  ASSUME NEW S, S \subseteq TunnelIds
  PROVE  IsFiniteSet(S) /\ Cardinality(S) \in Nat
<1>1. IsFiniteSet(TunnelIds)  BY MuxAssumption, FS_Interval DEF TunnelIds
<1>. QED  BY <1>1, FS_Subset, FS_CardinalityType, Zenon

LEMMA ConnSetsFinite ==
  ASSUME NEW S, S \subseteq Conns
  PROVE  IsFiniteSet(S) /\ Cardinality(S) \in Nat
  BY MuxAssumption, FS_Subset, FS_CardinalityType, Zenon

LEMMA LockingInit == Init => Locking
<1> SUFFICES ASSUME Init PROVE Locking  BY Zenon
<1>1. Cardinality(pool) = 0  BY FS_EmptySet, Zenon DEF Init
<1>. QED  BY <1>1, MuxAssumption DEF Init, Locking, LockHeldByCreator, PoolBounded

\* The labels at which a handler may hold the creation lock.
Creating == {"repick", "grow", "handshake", "reserve", "send", "wait", "open_err", "evict"}

\* Steps that leave the pool alone or shrink it, and keep holders in place.
LEMMA LockingFrame ==
  ASSUME TypeWeak, Locking,
         pool' \subseteq pool,
         holder' # None => pc'[holder'] \in Creating,
         MuxEnabled => \A c \in Conns : pc'[c] \in {"repick", "grow", "handshake"} =>
                         /\ holder' = c
                         /\ pc'[c] = "handshake" => Cardinality(pool) < MaxTunnelsPerPeer,
         ~MuxEnabled => \A c \in Conns : pc'[c] \in {"idle", "handshake"} \cup Outcomes
  PROVE  Locking'
<1>1. IsFiniteSet(pool)  BY TunnelSetsFinite, Zenon DEF TypeWeak
<1>2. /\ Cardinality(pool') <= Cardinality(pool)
      /\ Cardinality(pool) \in Nat /\ Cardinality(pool') \in Nat
  BY <1>1, FS_Subset, FS_CardinalityType, Zenon
<1>. QED  BY <1>2, MuxAssumption DEF Locking, LockHeldByCreator, PoolBounded, Creating

\* One handler moves: it keeps the lock or its absence, takes it or drops it.
LEMMA LockingLocal ==
  ASSUME TypeWeak, Locking, NEW c \in Conns, pool' \subseteq pool,
         \A d \in Conns \ {c} : pc'[d] = pc[d],
         \/ holder' = holder /\ (holder = c => pc'[c] \in Creating)
         \/ holder' = None
         \/ holder = None /\ holder' = c /\ pc'[c] \in Creating,
         holder' = None => holder \in {None, c},
         MuxEnabled /\ pc'[c] \in {"repick", "grow", "handshake"} =>
                         /\ holder' = c
                         /\ pc'[c] = "handshake" => Cardinality(pool) < MaxTunnelsPerPeer,
         ~MuxEnabled => pc'[c] \in {"idle", "handshake"} \cup Outcomes
  PROVE  Locking'
<1>0. /\ None \notin Conns
      /\ holder # None => holder \in Conns /\ pc[holder] \in Creating
      /\ MuxEnabled => \A d \in Conns : pc[d] \in {"repick", "grow", "handshake"} =>
           /\ holder = d
           /\ pc[d] = "handshake" => Cardinality(pool) < MaxTunnelsPerPeer
      /\ ~MuxEnabled => \A d \in Conns : pc[d] \in {"idle", "handshake"} \cup Outcomes
  BY MuxAssumption, Zenon DEF TypeWeak, Locking, LockHeldByCreator, Creating
<1>1. holder' # None => pc'[holder'] \in Creating
  BY <1>0, Zenon
<1>2. MuxEnabled => \A d \in Conns : pc'[d] \in {"repick", "grow", "handshake"} =>
        /\ holder' = d
        /\ pc'[d] = "handshake" => Cardinality(pool) < MaxTunnelsPerPeer
  BY <1>0
<1>3. ~MuxEnabled => \A d \in Conns : pc'[d] \in {"idle", "handshake"} \cup Outcomes
  BY <1>0, Zenon
<1>. QED  BY <1>1, <1>2, <1>3, LockingFrame, Zenon

LEMMA LockingStep ==
  ASSUME TypeWeak, Registration, Requests, Sessions, Locking, [Next]_vars
  PROVE  Locking'
<1> DEFINE Critical == {"repick", "grow", "handshake"}
<1>0. /\ None \notin Conns
      /\ holder # None => holder \in Conns /\ pc[holder] \in Creating
      /\ MuxEnabled => \A c \in Conns : pc[c] \in Critical =>
           /\ holder = c
           /\ pc[c] = "handshake" => Cardinality(pool) < MaxTunnelsPerPeer
      /\ ~MuxEnabled => \A c \in Conns : pc[c] \in {"idle", "handshake"} \cup Outcomes
  BY MuxAssumption, Zenon DEF TypeWeak, Locking, LockHeldByCreator, Creating
<1>1. ASSUME NEW c \in Conns, RouteStep(c) PROVE Locking'
  <2> USE DEF Creating, Outcomes
  <2>0. /\ \A d \in Conns \ {c} : pc'[d] = pc[d]
        /\ pc[c] \notin Creating => holder # c
        /\ MuxEnabled => (pc[c] \in {"repick", "grow"} => holder = c)
        /\ ~MuxEnabled => pc[c] \in {"idle", "handshake"} \cup Outcomes
    BY <1>0, <1>1, HandlerLocal, Zenon
  <2>1. CASE Start(c)
    <3>1. /\ pc[c] = "idle" /\ pc'[c] = IF MuxEnabled THEN "pick" ELSE "handshake"
          /\ UNCHANGED <<pool, holder>>
      BY <2>1, Zenon DEF Start, Goto, TypeWeak
    <3>. QED  BY <1>0, <2>0, <3>1, LockingLocal, Zenon
  <2>2. CASE PickFast(c) \/ PickAny(c)
    <3>1. /\ pc[c] \in {"pick", "any"} /\ UNCHANGED <<pool, holder>>
          /\ pc'[c] \in {"reserve", "denied", "lock", "failed", "pick"}
      BY <2>2, AuthorizeEffect, Zenon DEF PickFast, PickAny, NextAttempt, Goto, TypeWeak
    <3>. QED  BY <1>0, <2>0, <3>1, LockingLocal, Zenon
  <2>3. CASE AcquireLock(c)
    <3>1. /\ pc[c] = "lock" /\ pc'[c] = "repick" /\ holder = None /\ holder' = c
          /\ UNCHANGED pool
      BY <2>3, Zenon DEF AcquireLock, Goto, TypeWeak
    <3>. QED  BY <1>0, <2>0, <3>1, LockingLocal, Zenon
  <2>4. CASE Repick(c)
    <3>1. CASE UnderCap = {} /\ Goto(c, "grow") /\ UNCHANGED <<tun, authorized, overflowed, holder>>
      <4>1. pc[c] = "repick" /\ pc'[c] = "grow" /\ UNCHANGED <<pool, holder>>
        BY <2>4, <3>1, Zenon DEF Repick, Goto, TypeWeak
      <4>. QED  BY <1>0, <2>0, <4>1, LockingLocal, Zenon
    <3>2. ASSUME NEW t \in LeastLoaded(UnderCap), Authorize(c, t), Release(c) PROVE Locking'
      <4>1. /\ pc[c] = "repick" /\ pc'[c] \in {"reserve", "denied"} /\ UNCHANGED pool
            /\ holder' = IF holder = c THEN None ELSE holder
        BY <2>4, <3>2, AuthorizeEffect, Zenon DEF Repick, Release
      <4>. QED  BY <1>0, <2>0, <4>1, LockingLocal, Zenon
    <3>. QED  BY <2>4, <3>1, <3>2, Zenon DEF Repick
  <2>5. CASE Grow(c)
    <3>1. /\ pc[c] = "grow" /\ UNCHANGED pool
          /\ \/ /\ pc'[c] = "handshake" /\ Cardinality(pool) < MaxTunnelsPerPeer
                /\ holder' = holder
             \/ /\ pc'[c] = "any"
                /\ holder' = IF holder = c THEN None ELSE holder
      BY <2>5, Zenon DEF Grow, Goto, Release, TypeWeak
    <3>. QED  BY <1>0, <2>0, <3>1, LockingLocal, Zenon
  <2>6. CASE Reserve(c) \/ SendOpen(c) \/ SendFails(c) \/ OpenErr(c)
    <3>1. /\ pc[c] \in {"reserve", "send", "open_err"} /\ UNCHANGED <<pool, holder>>
          /\ pc'[c] \in {"send", "wait", "open_err", "evict"}
      BY <2>6, Zenon DEF Reserve, SendOpen, SendFails, OpenErr, Goto, TypeWeak
    <3>. QED  BY <1>0, <2>0, <3>1, LockingLocal, Zenon
  <2>7. CASE Evict(c)
    <3>1. /\ pc[c] = "evict" /\ pool' \subseteq pool /\ pc'[c] \in {"failed", "pick"}
          /\ holder' = IF holder = c THEN None ELSE holder
      BY <2>7, Zenon DEF Evict, NextAttempt, Goto, Release, TypeWeak
    <3>. QED  BY <1>0, <2>0, <3>1, LockingLocal, Zenon
  <2>. QED  BY <1>1, <2>1, <2>2, <2>3, <2>4, <2>5, <2>6, <2>7, Zenon DEF RouteStep
<1>2. ASSUME NEW c \in Conns, HandshakeStep(c) PROVE Locking'
  <2>0. \A d \in Conns \ {c} : pc'[d] = pc[d]  BY <1>2, HandlerLocal, Zenon
  <2>1. CASE HandshakeFails(c) \/ \E id \in Identities :
               HandshakeDenied(c, id) \/ HandshakeLegacy(c, id)
    <3>1. /\ pc[c] = "handshake" /\ UNCHANGED pool /\ pc'[c] \in Outcomes
          /\ holder' = IF holder = c THEN None ELSE holder
      BY <2>1, Zenon DEF HandshakeFails, HandshakeDenied, HandshakeLegacy, Goto, Release,
                  Outcomes, TypeWeak
    <3>. QED  BY <1>0, <2>0, <3>1, LockingLocal, Zenon DEF Outcomes
  <2>2. ASSUME NEW id \in Identities, HandshakeMux(c, id) PROVE Locking'
    <3>1. /\ pc[c] = "handshake" /\ pc'[c] = "reserve" /\ UNCHANGED holder
          /\ pool' = pool \cup {nextId} /\ MuxEnabled
      BY <2>2, Zenon DEF HandshakeMux, Goto, AlpnOutcomes, TypeWeak
    <3>2. holder = c /\ Cardinality(pool) < MaxTunnelsPerPeer
      BY <1>0, <3>1, Zenon
    <3>3. Cardinality(pool') <= MaxTunnelsPerPeer
      <4>1. IsFiniteSet(pool) /\ Cardinality(pool) \in Nat
        BY TunnelSetsFinite, Zenon DEF TypeWeak
      <4>2. Cardinality(pool') \in {Cardinality(pool), Cardinality(pool) + 1}
        BY <3>1, <4>1, FS_AddElement, Zenon
      <4>. QED  BY <3>2, <4>1, <4>2, MuxAssumption
    <3>4. \A d \in Conns : pc'[d] \notin {"repick", "grow", "handshake"}
      BY <1>0, <2>0, <3>1, <3>2, Zenon
    <3>. QED  BY <3>1, <3>2, <3>3, <3>4, Zenon DEF Locking, LockHeldByCreator, PoolBounded
  <2>. QED  BY <1>2, <2>1, <2>2, Zenon DEF HandshakeStep
<1>3. ASSUME NEW c \in Conns, RelayEnds(c) \/ LegacyEnds(c) PROVE Locking'
  <2>1. pc[c] \notin Creating /\ pc'[c] = "done" /\ UNCHANGED <<pool, holder>>
    BY <1>3, Zenon DEF RelayEnds, LegacyEnds, Goto, Creating, TypeWeak
  <2>2. \A d \in Conns \ {c} : pc'[d] = pc[d]  BY <1>3, HandlerLocal, Zenon
  <2>. QED  BY <1>0, <2>1, <2>2, LockingFrame, Zenon DEF Outcomes
<1>4. ASSUME NEW t \in TunnelIds, TakeRequest(t) \/ SessionEnds(t) PROVE Locking'
  BY <1>0, <1>4, LockingFrame, Zenon DEF TakeRequest, SessionEnds, connVars
<1>5. ASSUME NEW t \in TunnelIds, DriverEvicts(t) PROVE Locking'
  BY <1>0, <1>5, LockingFrame, Zenon DEF DriverEvicts, connVars
<1>6. ASSUME NEW t \in TunnelIds, OpenSucceeds(t) PROVE Locking'
  <2>1. /\ stash[t] \in Conns /\ pc[stash[t]] = "wait" /\ pc'[stash[t]] = "relay"
        /\ \A d \in Conns \ {stash[t]} : pc'[d] = pc[d]
        /\ holder' = (IF holder = stash[t] THEN None ELSE holder) /\ UNCHANGED pool
    BY <1>6, AnswerEffect, Zenon DEF OpenSucceeds, Release
  <2>. QED  BY <1>0, <2>1, LockingFrame, Zenon DEF Outcomes
<1>7. ASSUME NEW t \in TunnelIds, OpenRefused(t) PROVE Locking'
  <2>1. /\ stash[t] \in Conns /\ pc[stash[t]] = "wait" /\ pc'[stash[t]] = "open_err"
        /\ \A d \in Conns \ {stash[t]} : pc'[d] = pc[d]
        /\ UNCHANGED <<holder, pool>>
    BY <1>7, AnswerEffect, AnswerFrame, Zenon DEF OpenRefused
  <2>. QED  BY <1>0, <2>1, LockingFrame, Zenon DEF Outcomes, Creating
<1>8. ASSUME NEW t \in TunnelIds, DriverExits(t) PROVE Locking'
  <2>1. UNCHANGED <<holder, pool>>  BY <1>8, Zenon DEF DriverExits
  <2>2. \A d \in Conns : pc'[d] = pc[d] \/ (pc[d] = "wait" /\ pc'[d] = "open_err")
    BY <1>8, DriverExitsEffect, Zenon
  <2>. QED  BY <1>0, <2>1, <2>2, LockingFrame, Zenon DEF Outcomes, Creating
<1>9. CASE SetPolicy \/ UNCHANGED vars
  BY <1>0, <1>9, LockingFrame, Zenon DEF SetPolicy, vars, connVars, tunnelVars
<1>. QED  BY <1>1, <1>2, <1>3, <1>4, <1>5, <1>6, <1>7, <1>8, <1>9, Zenon
          DEF Next, DriverStep

-----------------------------------------------------------------------------
Holding == {"send", "wait", "open_err", "relay"}

LEMMA LiveExactInit == Init => LiveExact
<1> SUFFICES ASSUME Init, NEW t \in TunnelIds PROVE live[t] = Cardinality(Slots(t))
  BY Zenon DEF LiveExact
<1>1. Slots(t) = {}  BY Zenon DEF Init, Slots, HoldsSlot
<1>. QED  BY <1>1, FS_EmptySet, Zenon DEF Init

\* No slot changes hands.
LEMMA LiveFrame ==
  ASSUME LiveExact, UNCHANGED live,
         \A c \in Conns : \/ tun'[c] = tun[c] /\ (pc'[c] \in Holding <=> pc[c] \in Holding)
                          \/ pc[c] \notin Holding /\ pc'[c] \notin Holding
  PROVE  LiveExact'
<1> SUFFICES ASSUME NEW t \in TunnelIds PROVE live'[t] = Cardinality(Slots(t)')
  BY Zenon DEF LiveExact
<1>1. Slots(t)' = Slots(t)  BY Zenon DEF Slots, HoldsSlot, Holding
<1>. QED  BY <1>1, Zenon DEF LiveExact

\* One handler takes, or gives back, a slot of its tunnel.
LEMMA LiveLocal ==
  ASSUME TypeWeak, LiveExact, NEW c \in Conns, tun[c] \in TunnelIds, UNCHANGED tun,
         \A d \in Conns \ {c} : pc'[d] = pc[d],
         \/ /\ pc[c] \notin Holding /\ pc'[c] \in Holding
            /\ live' = [live EXCEPT ![tun[c]] = @ + 1]
         \/ /\ pc[c] \in Holding /\ pc'[c] \notin Holding
            /\ live' = [live EXCEPT ![tun[c]] = @ - 1]
  PROVE  LiveExact'
<1> SUFFICES ASSUME NEW t \in TunnelIds PROVE live'[t] = Cardinality(Slots(t)')
  BY Zenon DEF LiveExact
<1>1. IsFiniteSet(Slots(t)) /\ live[t] = Cardinality(Slots(t)) /\ Cardinality(Slots(t)) \in Nat
  BY ConnSetsFinite, Zenon DEF Slots, LiveExact
<1>2. CASE t # tun[c]
  <2>1. Slots(t)' = Slots(t)  BY <1>2, Zenon DEF Slots, HoldsSlot, Holding
  <2>. QED  BY <1>1, <1>2, <2>1, Zenon DEF TypeWeak
<1>3. CASE t = tun[c] /\ pc[c] \notin Holding
  <2>1. Slots(t)' = Slots(t) \cup {c} /\ c \notin Slots(t)
    BY <1>3, Zenon DEF Slots, HoldsSlot, Holding
  <2>2. live'[t] = live[t] + 1  BY <1>3, Zenon DEF TypeWeak
  <2>. QED  BY <1>1, <2>1, <2>2, FS_AddElement, Zenon
<1>4. CASE t = tun[c] /\ pc[c] \in Holding
  <2>1. Slots(t)' = Slots(t) \ {c} /\ c \in Slots(t)
    BY <1>4, Zenon DEF Slots, HoldsSlot, Holding
  <2>2. live'[t] = live[t] - 1  BY <1>4, Zenon DEF TypeWeak
  <2>. QED  BY <1>1, <2>1, <2>2, FS_RemoveElement, Zenon
<1>. QED  BY <1>2, <1>3, <1>4, Zenon

LEMMA LiveExactStep ==
  ASSUME TypeWeak, Registration, Requests, LiveExact, [Next]_vars
  PROVE  LiveExact'
<1> USE DEF Holding
<1>1. ASSUME NEW c \in Conns, Reserve(c) \/ OpenErr(c) \/ RelayEnds(c) PROVE LiveExact'
  <2>1. tun[c] \in TunnelIds
    BY <1>1, TunnelAtHand, Zenon DEF WithTunnel, Reserve, OpenErr, RelayEnds
  <2>2. CASE Reserve(c)
    BY <2>1, <2>2, LiveLocal, Zenon DEF Reserve, Goto, TypeWeak
  <2>3. CASE OpenErr(c)
    BY <2>1, <2>3, LiveLocal, Zenon DEF OpenErr, Goto, TypeWeak
  <2>4. CASE RelayEnds(c)
    BY <2>1, <2>4, LiveLocal, Zenon DEF RelayEnds, Goto, TypeWeak
  <2>. QED  BY <1>1, <2>2, <2>3, <2>4, Zenon
<1>2. ASSUME NEW c \in Conns, RouteStep(c) \/ HandshakeStep(c) \/ LegacyEnds(c),
             ~Reserve(c), ~OpenErr(c)
      PROVE  LiveExact'
  <2>1. \A d \in Conns \ {c} : pc'[d] = pc[d] /\ tun'[d] = tun[d]
    BY <1>2, HandlerLocal, Zenon
  <2>2. CASE SendOpen(c) \/ SendFails(c)
    <3>1. UNCHANGED <<tun, live>> /\ pc[c] \in Holding /\ pc'[c] \in Holding
      BY <2>2, Zenon DEF SendOpen, SendFails, Goto, TypeWeak, tunnelVars
    <3>. QED  BY <2>1, <3>1, LiveFrame, Zenon
  <2>3. CASE PickFast(c) \/ Repick(c) \/ PickAny(c)
    <3>1. UNCHANGED live /\ pc[c] \notin Holding /\ pc'[c] \notin Holding
      BY <2>3, AuthorizeEffect, Zenon DEF PickFast, Repick, PickAny, NextAttempt, Goto, TypeWeak, tunnelVars
    <3>. QED  BY <2>1, <3>1, LiveFrame, Zenon
  <2>4. CASE Start(c) \/ AcquireLock(c) \/ Grow(c) \/ Evict(c) \/ LegacyEnds(c)
    <3>1. UNCHANGED live /\ pc[c] \notin Holding /\ pc'[c] \notin Holding
      BY <2>4, Zenon DEF Start, AcquireLock, Grow, Evict, LegacyEnds, NextAttempt, Goto, TypeWeak, tunnelVars
    <3>. QED  BY <2>1, <3>1, LiveFrame, Zenon
  <2>5. CASE HandshakeStep(c)
    <3>1. UNCHANGED live /\ pc[c] \notin Holding /\ pc'[c] \notin Holding
      BY <2>5, Zenon DEF HandshakeStep, HandshakeFails, HandshakeDenied, HandshakeLegacy, HandshakeMux,
                  Goto, TypeWeak, tunnelVars
    <3>. QED  BY <2>1, <3>1, LiveFrame, Zenon
  <2>. QED  BY <1>2, <2>2, <2>3, <2>4, <2>5, Zenon DEF RouteStep
<1>3. ASSUME NEW t \in TunnelIds, OpenSucceeds(t) \/ OpenRefused(t) PROVE LiveExact'
  <2>1. /\ stash[t] \in Conns /\ pc[stash[t]] = "wait" /\ pc'[stash[t]] \in Holding
        /\ \A d \in Conns \ {stash[t]} : pc'[d] = pc[d]
        /\ UNCHANGED <<tun, live>>
    BY <1>3, AnswerEffect, AnswerFrame, Zenon
  <2>. QED  BY <2>1, LiveFrame, Zenon
<1>4. ASSUME NEW t \in TunnelIds, DriverExits(t) PROVE LiveExact'
  <2>1. UNCHANGED <<tun, live>>  BY <1>4, Zenon DEF DriverExits
  <2>2. \A d \in Conns : pc'[d] \in Holding <=> pc[d] \in Holding
    BY <1>4, DriverExitsEffect, Zenon
  <2>. QED  BY <2>1, <2>2, LiveFrame, Zenon
<1>5. ASSUME NEW t \in TunnelIds, TakeRequest(t) \/ DriverEvicts(t) \/ SessionEnds(t)
      PROVE  LiveExact'
  BY <1>5, LiveFrame, Zenon DEF TakeRequest, DriverEvicts, SessionEnds, connVars
<1>6. CASE SetPolicy \/ UNCHANGED vars
  BY <1>6, LiveFrame, Zenon DEF SetPolicy, vars, connVars, tunnelVars
<1>. QED  BY <1>1, <1>2, <1>3, <1>4, <1>5, <1>6, Zenon DEF Next, DriverStep, RouteStep

-----------------------------------------------------------------------------
LEMMA AuthorizationInit == Init => Authorization
  BY Zenon DEF Init, Authorization, WithTunnel

LEMMA AuthorizationStep ==
  ASSUME TypeWeak, Registration, Requests, Authorization, [Next]_vars
  PROVE  Authorization'
<1> DEFINE Cleared(c) == /\ pc[c] \in WithTunnel => authorized[c] = identity[tun[c]]
                         /\ pc[c] = "legacy" => authorized[c] # None
<1>0. \A c \in Conns : Cleared(c)  BY Zenon DEF Authorization
<1> SUFFICES \A d \in Conns : Cleared(d)'  BY Zenon DEF Authorization
<1>1. ASSUME NEW c \in Conns,
             RouteStep(c) \/ HandshakeStep(c) \/ RelayEnds(c) \/ LegacyEnds(c)
      PROVE  \A d \in Conns : Cleared(d)'
  <2>1. \A d \in Conns \ {c} : /\ pc'[d] = pc[d] /\ tun'[d] = tun[d]
                               /\ authorized'[d] = authorized[d]
    BY <1>1, HandlerLocal, Zenon
  <2>2. CASE UNCHANGED identity /\ ~\E id \in Identities : HandshakeMux(c, id)
    <3>1. \A d \in Conns \ {c} : Cleared(d)'  BY <1>0, <2>1, <2>2, Zenon
    <3>2. CASE PickFast(c) \/ Repick(c) \/ PickAny(c)
      <4>1. ASSUME NEW t, Authorize(c, t) PROVE Cleared(c)'
        BY <2>2, <4>1, AuthorizeEffect, Zenon DEF WithTunnel
      <4>2. pc'[c] \in {"lock", "grow", "failed", "pick"} \/ \E t : Authorize(c, t)
        <5>1. CASE PickFast(c)  BY <5>1, Zenon DEF PickFast, Goto, TypeWeak
        <5>2. CASE Repick(c)  BY <5>2, Zenon DEF Repick, Goto, TypeWeak
        <5>3. CASE PickAny(c)  BY <5>3, Zenon DEF PickAny, NextAttempt, Goto, TypeWeak
        <5>. QED  BY <3>2, <5>1, <5>2, <5>3, Zenon
      <4>3. {"lock", "grow", "failed", "pick"} \cap (WithTunnel \cup {"legacy"}) = {}
        BY Zenon DEF WithTunnel
      <4>. QED  BY <3>1, <4>1, <4>2, <4>3, Zenon
    <3>3. CASE Start(c) \/ AcquireLock(c) \/ Grow(c) \/ Evict(c) \/ RelayEnds(c) \/ LegacyEnds(c)
      <4>1. pc'[c] \notin WithTunnel \cup {"legacy"}
        BY <3>3, Zenon DEF Start, AcquireLock, Grow, Evict, RelayEnds, LegacyEnds, NextAttempt,
                    Goto, WithTunnel, TypeWeak
      <4>. QED  BY <3>1, <4>1, Zenon
    <3>4. CASE Reserve(c) \/ SendOpen(c) \/ SendFails(c) \/ OpenErr(c)
      <4>1. /\ pc[c] \in WithTunnel /\ pc'[c] \in WithTunnel /\ pc'[c] # "legacy"
            /\ UNCHANGED <<tun, authorized>>
        BY <3>4, Zenon DEF Reserve, SendOpen, SendFails, OpenErr, Goto, WithTunnel, TypeWeak
      <4>. QED  BY <1>0, <2>2, <3>1, <4>1, Zenon
    <3>5. CASE HandshakeFails(c)
      BY <3>1, <3>5, Zenon DEF HandshakeFails, Goto, WithTunnel, TypeWeak
    <3>6. ASSUME NEW id \in Identities, HandshakeDenied(c, id) \/ HandshakeLegacy(c, id)
          PROVE  \A d \in Conns : Cleared(d)'
      <4>1. /\ pc'[c] \notin WithTunnel
            /\ pc'[c] = "legacy" => authorized'[c] = id
        BY <3>6, Zenon DEF HandshakeDenied, HandshakeLegacy, Goto, WithTunnel, TypeWeak
      <4>2. id # None  BY MuxAssumption, Zenon
      <4>. QED  BY <3>1, <4>1, <4>2, Zenon
    <3>. QED  BY <1>1, <2>2, <3>2, <3>3, <3>4, <3>5, <3>6, Zenon DEF RouteStep, HandshakeStep
  <2>3. ASSUME NEW id \in Identities, HandshakeMux(c, id) PROVE \A d \in Conns : Cleared(d)'
    <3>1. nextId \in TunnelIds /\ \A d \in Conns : tun[d] # nextId
      BY <2>3, MuxAssumption DEF HandshakeMux, TunnelIds, TypeWeak, Registration
    <3>2. identity'[nextId] = id /\ \A t : t # nextId => identity'[t] = identity[t]
      BY <2>3, <3>1 DEF HandshakeMux, TypeWeak
    <3>3. tun'[c] = nextId /\ authorized'[c] = id /\ pc'[c] = "reserve"
      BY <2>3, Zenon DEF HandshakeMux, Goto, TypeWeak
    <3>4. Cleared(c)'  BY <3>2, <3>3, Zenon
    <3>5. \A d \in Conns \ {c} : Cleared(d)'  BY <1>0, <2>1, <3>1, <3>2
    <3>. QED  BY <3>4, <3>5, Zenon
  <2>4. UNCHANGED identity \/ \E id \in Identities : HandshakeMux(c, id)
    BY <1>1, Zenon DEF RouteStep, Start, PickFast, AcquireLock, Repick, Grow, PickAny, Reserve, SendOpen,
                SendFails, OpenErr, Evict, HandshakeStep, HandshakeFails, HandshakeDenied,
                HandshakeLegacy, RelayEnds, LegacyEnds, tunnelVars
  <2>. QED  BY <2>2, <2>3, <2>4, Zenon
<1>2. ASSUME NEW t \in TunnelIds, OpenSucceeds(t) \/ OpenRefused(t)
      PROVE  \A d \in Conns : Cleared(d)'
  <2>1. /\ stash[t] \in Conns /\ pc[stash[t]] = "wait" /\ pc'[stash[t]] \in {"relay", "open_err"}
        /\ \A d \in Conns \ {stash[t]} : pc'[d] = pc[d]
        /\ UNCHANGED <<tun, authorized, identity>>
    BY <1>2, AnswerEffect, AnswerFrame, Zenon
  <2>. QED  BY <1>0, <2>1, Zenon DEF WithTunnel
<1>3. ASSUME NEW t \in TunnelIds, DriverExits(t) PROVE \A d \in Conns : Cleared(d)'
  <2>1. UNCHANGED <<tun, authorized, identity>>  BY <1>3, Zenon DEF DriverExits
  <2>2. \A d \in Conns : pc'[d] = pc[d] \/ (pc[d] = "wait" /\ pc'[d] = "open_err")
    BY <1>3, DriverExitsEffect, Zenon
  <2>. QED  BY <1>0, <2>1, <2>2, Zenon DEF WithTunnel
<1>4. ASSUME NEW t \in TunnelIds, TakeRequest(t) \/ DriverEvicts(t) \/ SessionEnds(t)
      PROVE  \A d \in Conns : Cleared(d)'
  BY <1>0, <1>4, Zenon DEF TakeRequest, DriverEvicts, SessionEnds, connVars
<1>5. CASE SetPolicy \/ UNCHANGED vars
  BY <1>0, <1>5, Zenon DEF SetPolicy, vars, connVars, tunnelVars
<1>. QED  BY <1>1, <1>2, <1>3, <1>4, <1>5, Zenon DEF Next, DriverStep

-----------------------------------------------------------------------------
(* The retries of a handler *)

LEMMA RetriesInit == Init => Retries
<1> SUFFICES ASSUME Init, NEW c \in Conns PROVE RetriesOf(c)  BY Zenon DEF Retries
<1>1. Cardinality(Lost \ InHand(c)) \in Nat  BY TunnelSetsFinite, Zenon DEF Lost
<1>. QED  BY <1>1, MuxAssumption DEF Init, RetriesOf, Spent

\* Tunnels stay registered, and once dead and out of the pool stay so.
LEMMA LostMonotone ==
  ASSUME TypeWeak, Registration, Sessions, [Next]_vars
  PROVE  Lost \subseteq Lost' /\ Known \subseteq Known'
<1> SUFFICES ASSUME NEW u \in TunnelIds
             PROVE  /\ session[u] = "down" /\ u \notin pool => session'[u] = "down" /\ u \notin pool'
                    /\ session[u] # "none" => session'[u] # "none"
  BY Zenon DEF Lost, Known
<1>1. ASSUME NEW c \in Conns, NEW id \in Identities, HandshakeMux(c, id)
      PROVE  /\ session[u] = "down" /\ u \notin pool => session'[u] = "down" /\ u \notin pool'
             /\ session[u] # "none" => session'[u] # "none"
  <2>1. nextId \in TunnelIds /\ session[nextId] = "none"
    BY <1>1, MuxAssumption DEF HandshakeMux, TunnelIds, TypeWeak, Registration
  <2>. QED  BY <1>1, <2>1, Zenon DEF HandshakeMux, TypeWeak
<1>2. ASSUME NEW t \in TunnelIds, OpenRefused(t) \/ SessionEnds(t)
      PROVE  /\ session[u] = "down" => session'[u] = "down"
             /\ session[u] # "none" => session'[u] # "none"
             /\ UNCHANGED pool
  <2>1. session' = [session EXCEPT ![t] = "down"] /\ UNCHANGED pool
    BY <1>2, Zenon DEF OpenRefused, SessionEnds
  <2>. QED  BY <2>1, Zenon DEF TypeWeak
<1>3. \/ UNCHANGED session /\ pool' \subseteq pool
      \/ \E c \in Conns, id \in Identities : HandshakeMux(c, id)
      \/ \E t \in TunnelIds : OpenRefused(t) \/ SessionEnds(t)
  BY ZenonT(60) DEF Next, RouteStep, Start, PickFast, AcquireLock, Repick, Grow, PickAny, Reserve,
         SendOpen, SendFails, OpenErr, Evict, HandshakeStep, HandshakeFails, HandshakeDenied,
         HandshakeLegacy, RelayEnds, LegacyEnds, DriverStep, TakeRequest, OpenSucceeds, DriverExits, DriverEvicts,
         SetPolicy, vars, connVars, tunnelVars
<1>. QED  BY <1>1, <1>2, <1>3, Zenon

LEMMA AttemptsInt == RouteAttempts \in Int
BY MuxAssumption

LEMMA AtMostTrans ==
  ASSUME NEW x \in Int, NEW y \in Nat, NEW z \in Nat, x <= y, y <= z
  PROVE  x <= z
OBVIOUS

\* A handler that keeps its iterations keeps the bound.
LEMMA RetriesKeep ==
  ASSUME TypeWeak, Registration, Sessions, [Next]_vars, NEW c \in Conns, RetriesOf(c),
         left'[c] = left[c], Lost \ InHand(c) \subseteq Lost' \ InHand(c)',
         pc'[c] = "any" => pc[c] = "any", pc[c] = "failed" => pc'[c] = "failed"
  PROVE  RetriesOf(c)'
<1>1. /\ Cardinality(Lost \ InHand(c)) <= Cardinality(Lost' \ InHand(c)')
      /\ Cardinality(Lost \ InHand(c)) \in Nat /\ Cardinality(Lost' \ InHand(c)') \in Nat
  <2>1. Lost' \ InHand(c)' \subseteq TunnelIds /\ Lost \ InHand(c) \subseteq TunnelIds
    BY Zenon DEF Lost
  <2>. QED  BY <2>1, TunnelSetsFinite, FS_Subset, Zenon
<1>2. /\ Cardinality(Known) <= Cardinality(Known')
      /\ Cardinality(Known) \in Nat /\ Cardinality(Known') \in Nat
  <2>1. Known' \subseteq TunnelIds /\ Known \subseteq TunnelIds
    BY Zenon DEF Known
  <2>. QED  BY <2>1, LostMonotone, TunnelSetsFinite, FS_Subset, Zenon
<1>3. left[c] \in Int /\ RouteAttempts \in Int
  <2>1. left[c] \in Int  BY Zenon DEF TypeWeak
  <2>. QED  BY <2>1, AttemptsInt, Zenon
<1>4. Spent(c) \in Int  BY <1>3 DEF Spent
<1>5. Spent(c)' = Spent(c)  BY Zenon DEF Spent
<1>6. Spent(c) <= Cardinality(Lost' \ InHand(c)')
  <2>1. Spent(c) <= Cardinality(Lost \ InHand(c))  BY Zenon DEF RetriesOf
  <2>. QED  BY <1>1, <1>4, <2>1, AtMostTrans, Zenon
<1>7. ASSUME pc'[c] = "any" PROVE Spent(c) + 1 <= Cardinality(Known')
  <2>1. Spent(c) + 1 <= Cardinality(Known)  BY <1>7, Zenon DEF RetriesOf
  <2>. QED  BY <1>2, <1>4, <2>1
<1>8. left'[c] \in 0..RouteAttempts /\ (pc'[c] # "failed" => left'[c] >= 1)
  BY Zenon DEF RetriesOf
<1>. QED  BY <1>5, <1>6, <1>7, <1>8, Zenon DEF RetriesOf

\* A handler that goes round the loop pays with a tunnel.
LEMMA RetriesSpend ==
  ASSUME TypeWeak, NEW c \in Conns, RetriesOf(c), NextAttempt(c), pc[c] # "failed",
         Spent(c) + 1 <= Cardinality(Lost')
  PROVE  RetriesOf(c)'
<1>1. left'[c] = left[c] - 1 /\ pc'[c] = IF left[c] = 1 THEN "failed" ELSE "pick"
  BY Zenon DEF NextAttempt, Goto, TypeWeak
<1>2. left[c] \in Int /\ left[c] >= 1 /\ left[c] <= RouteAttempts
  BY DEF RetriesOf, TypeWeak
<1>3. Spent(c)' = Spent(c) + 1 /\ Spent(c) \in Int
  BY <1>1, <1>2, MuxAssumption DEF Spent
<1>4. InHand(c)' = {}  BY <1>1, Zenon DEF InHand, WithTunnel
<1>5. left'[c] \in 0..RouteAttempts /\ (pc'[c] # "failed" => left'[c] >= 1)
  BY <1>1, <1>2, MuxAssumption
<1>6. Lost' \ InHand(c)' = Lost'  BY <1>4, Zenon
<1>7. pc'[c] # "any"  BY <1>1, Zenon
<1>. QED  BY <1>3, <1>5, <1>6, <1>7, Zenon DEF RetriesOf

LEMMA RetriesStep ==
  ASSUME TypeWeak, Registration, Requests, Sessions, Retries, [Next]_vars
  PROVE  Retries'
<1>0. /\ \A c \in Conns : RetriesOf(c)
      /\ Lost \subseteq Lost' /\ Known \subseteq Known'
  BY LostMonotone, Zenon DEF Retries
<1> SUFFICES \A d \in Conns : RetriesOf(d)'  BY Zenon DEF Retries
<1>1. ASSUME NEW d \in Conns, pc'[d] = pc[d], tun'[d] = tun[d], left'[d] = left[d]
      PROVE  RetriesOf(d)'
  <2>1. InHand(d)' = InHand(d)  BY <1>1, Zenon DEF InHand
  <2>. QED  BY <1>0, <1>1, <2>1, RetriesKeep, Zenon
<1>2. ASSUME NEW d \in Conns, pc[d] \in WithTunnel, pc'[d] \in WithTunnel, tun'[d] = tun[d],
             left'[d] = left[d]
      PROVE  RetriesOf(d)'
  <2>1. InHand(d)' = InHand(d)  BY <1>2, Zenon DEF InHand
  <2>. QED  BY <1>0, <1>2, <2>1, RetriesKeep, Zenon DEF WithTunnel
<1>3. ASSUME NEW d \in Conns, pc'[d] \notin WithTunnel \cup {"any"}, left'[d] = left[d],
             pc[d] = "failed" => pc'[d] = "failed"
      PROVE  RetriesOf(d)'
  <2>1. InHand(d)' = {}  BY <1>3, Zenon DEF InHand
  <2>. QED  BY <1>0, <1>3, <2>1, RetriesKeep, Zenon
<1>4. ASSUME NEW c \in Conns,
             RouteStep(c) \/ HandshakeStep(c) \/ RelayEnds(c) \/ LegacyEnds(c)
      PROVE  \A d \in Conns : RetriesOf(d)'
  <2>1. \A d \in Conns \ {c} : RetriesOf(d)'
    BY <1>1, <1>4, HandlerLocal, Zenon
  <2> SUFFICES RetriesOf(c)'  BY <2>1, Zenon
  <2>2. ASSUME NEW t \in pool, Authorize(c, t), pc[c] \in Running \ WithTunnel,
               UNCHANGED <<left, pool, session>>
        PROVE  RetriesOf(c)'
    <3>1. tun'[c] = t /\ pc'[c] \in {"reserve", "denied"}  BY <2>2, AuthorizeEffect, Zenon
    <3>2. InHand(c)' \subseteq {t}  BY <3>1, Zenon DEF InHand
    <3>3. t \notin Lost  BY Zenon DEF Lost
    <3>4. Lost' = Lost  BY <2>2, Zenon DEF Lost
    <3>5. Lost \ InHand(c) \subseteq Lost' \ InHand(c)'  BY <3>2, <3>3, <3>4, Zenon
    <3>. QED  BY <1>0, <2>2, <3>1, <3>5, RetriesKeep, Zenon DEF Running
  <2>3. CASE PickFast(c) \/ Repick(c)
    <3>1. /\ pc[c] \in {"pick", "repick"} /\ UNCHANGED <<left, pool, session>>
          /\ \/ \E t \in pool : Authorize(c, t)
             \/ pc'[c] \in {"lock", "grow"}
      BY <2>3, LeastLoadedSubset, Zenon DEF PickFast, Repick, Goto, UnderCap, TypeWeak, tunnelVars
    <3>. QED  BY <1>3, <2>2, <3>1, Zenon DEF Running, WithTunnel
  <2>4. CASE PickAny(c)
    <3>1. pc[c] = "any" /\ UNCHANGED <<pool, session>>  BY <2>4, Zenon DEF PickAny, tunnelVars
    <3>2. CASE \E t \in LeastLoaded(pool) : Authorize(c, t) /\ UNCHANGED left
      BY <2>2, <3>1, <3>2, LeastLoadedSubset, Zenon DEF Running, WithTunnel
    <3>3. CASE pool = {} /\ NextAttempt(c)
      <4>1. Known = Lost'
        BY <3>1, <3>3, Zenon DEF Known, Lost, Sessions, TypeWeak
      <4>2. Spent(c) + 1 <= Cardinality(Lost')  BY <1>0, <3>1, <4>1, Zenon DEF RetriesOf
      <4>. QED  BY <1>0, <3>1, <3>3, <4>2, RetriesSpend, Zenon
    <3>. QED  BY <2>4, <3>2, <3>3, Zenon DEF PickAny
  <2>5. CASE Start(c) \/ AcquireLock(c) \/ LegacyEnds(c) \/ RelayEnds(c)
    BY <1>3, <2>5, Zenon DEF Start, AcquireLock, LegacyEnds, RelayEnds, Goto, WithTunnel, TypeWeak
  <2>6. CASE Grow(c)
    <3>1. pc[c] = "grow" /\ UNCHANGED <<left, pool, session>>
      BY <2>6, Zenon DEF Grow, tunnelVars
    <3>2. CASE pc'[c] = "handshake"  BY <1>3, <3>1, <3>2, Zenon DEF WithTunnel
    <3>3. CASE pc'[c] = "any" /\ Cardinality(pool) >= MaxTunnelsPerPeer
      <4>1. InHand(c) = {} /\ InHand(c)' = {}  BY <3>1, <3>3, Zenon DEF InHand, WithTunnel
      <4>2. Lost' = Lost /\ Known' = Known  BY <3>1, Zenon DEF Lost, Known
      <4>3. pool \subseteq Known /\ Lost \subseteq Known /\ Lost \cap pool = {}
        BY Zenon DEF Lost, Known, TypeWeak, Registration
      <4>4. /\ IsFiniteSet(Known) /\ IsFiniteSet(Lost) /\ IsFiniteSet(pool)
            /\ Cardinality(Known) \in Nat /\ Cardinality(Lost) \in Nat /\ Cardinality(pool) \in Nat
        BY TunnelSetsFinite, Zenon DEF Known, Lost, TypeWeak
      <4>5. Cardinality(Lost \cup pool) = Cardinality(Lost) + Cardinality(pool)
        <5>1. Cardinality(Lost \cup pool)
                = Cardinality(Lost) + Cardinality(pool) - Cardinality(Lost \cap pool)
          BY <4>4, FS_Union, Zenon
        <5>2. Cardinality(Lost \cap pool) = 0  BY <4>3, FS_EmptySet, Zenon
        <5>. QED  BY <4>4, <5>1, <5>2
      <4>6. Cardinality(Lost \cup pool) <= Cardinality(Known)
        BY <4>3, <4>4, FS_Subset, Zenon
      <4>7. Spent(c) <= Cardinality(Lost)  BY <1>0, <4>1, Zenon DEF RetriesOf
      <4>8. Spent(c) \in Int  BY MuxAssumption DEF Spent, TypeWeak
      <4>9. Spent(c) + 1 <= Cardinality(Known)
        BY <3>3, <4>4, <4>5, <4>6, <4>7, <4>8, MuxAssumption
      <4>. QED  BY <1>0, <3>1, <3>3, <4>1, <4>2, <4>7, <4>9, Zenon DEF RetriesOf, Spent
    <3>. QED  BY <2>6, <3>2, <3>3, Zenon DEF Grow, Goto, TypeWeak
  <2>7. CASE Reserve(c) \/ SendOpen(c) \/ SendFails(c) \/ OpenErr(c)
    BY <1>2, <2>7, Zenon DEF Reserve, SendOpen, SendFails, OpenErr, Goto, WithTunnel, TypeWeak
  <2>8. CASE Evict(c)
    <3>1. /\ pc[c] = "evict" /\ pool' = pool \ {tun[c]} /\ UNCHANGED session
          /\ tun[c] \in TunnelIds /\ session[tun[c]] = "down"
      BY <2>8, TunnelAtHand, Zenon DEF Evict, tunnelVars, Sessions, WithTunnel
    <3>2. CASE holder = c /\ Goto(c, "failed") /\ UNCHANGED left
      BY <1>3, <3>1, <3>2, Zenon DEF Goto, WithTunnel, TypeWeak
    <3>3. CASE NextAttempt(c)
      <4>1. InHand(c) = {tun[c]}  BY <3>1, Zenon DEF InHand, WithTunnel
      <4>2. Lost' = (Lost \ {tun[c]}) \cup {tun[c]}  BY <3>1, Zenon DEF Lost
      <4>3. IsFiniteSet(Lost \ {tun[c]})  BY TunnelSetsFinite, Zenon DEF Lost
      <4>4. Cardinality(Lost') = Cardinality(Lost \ {tun[c]}) + 1
        BY <4>2, <4>3, FS_AddElement, Zenon
      <4>5. Spent(c) <= Cardinality(Lost \ {tun[c]})  BY <1>0, <4>1, Zenon DEF RetriesOf
      <4>6. Spent(c) \in Int /\ Cardinality(Lost \ {tun[c]}) \in Nat
        BY <4>3, FS_CardinalityType, MuxAssumption DEF Spent, TypeWeak
      <4>7. Spent(c) + 1 <= Cardinality(Lost')  BY <4>4, <4>5, <4>6
      <4>. QED  BY <1>0, <3>1, <3>3, <4>7, RetriesSpend, Zenon
    <3>. QED  BY <2>8, <3>2, <3>3, Zenon DEF Evict
  <2>9. CASE HandshakeStep(c)
    <3>1. CASE pc'[c] \in {"failed", "denied", "legacy"}
      <4>1. pc[c] = "handshake" /\ UNCHANGED left
        BY <2>9, Zenon DEF HandshakeStep, HandshakeFails, HandshakeDenied, HandshakeLegacy, HandshakeMux
      <4>. QED  BY <1>3, <3>1, <4>1, Zenon DEF WithTunnel
    <3>2. ASSUME NEW id \in Identities, HandshakeMux(c, id) PROVE RetriesOf(c)'
      <4>1. nextId \in TunnelIds /\ session[nextId] = "none"
        BY <3>2, MuxAssumption DEF HandshakeMux, TunnelIds, TypeWeak, Registration
      <4>2. nextId \notin Lost  BY <4>1, Zenon DEF Lost
      <4>3. InHand(c)' = {nextId} /\ pc[c] = "handshake" /\ pc'[c] = "reserve" /\ UNCHANGED left
        BY <3>2, Zenon DEF HandshakeMux, Goto, InHand, WithTunnel, TypeWeak
      <4>. QED  BY <1>0, <4>2, <4>3, RetriesKeep, Zenon
    <3>. QED
      BY <2>9, <3>1, <3>2, Zenon DEF HandshakeStep, HandshakeFails, HandshakeDenied, HandshakeLegacy,
                              Goto, TypeWeak
  <2>. QED  BY <1>4, <2>3, <2>4, <2>5, <2>6, <2>7, <2>8, <2>9, Zenon DEF RouteStep
<1>5. ASSUME NEW t \in TunnelIds, OpenSucceeds(t) \/ OpenRefused(t)
      PROVE  \A d \in Conns : RetriesOf(d)'
  <2>1. /\ stash[t] \in Conns /\ pc[stash[t]] = "wait" /\ pc'[stash[t]] \in {"relay", "open_err"}
        /\ \A d \in Conns \ {stash[t]} : pc'[d] = pc[d]
        /\ UNCHANGED <<tun, left>>
    BY <1>5, AnswerEffect, AnswerFrame, Zenon
  <2>. QED  BY <1>1, <1>2, <2>1, Zenon DEF WithTunnel
<1>6. ASSUME NEW t \in TunnelIds, DriverExits(t) PROVE \A d \in Conns : RetriesOf(d)'
  <2>1. UNCHANGED <<tun, left>>  BY <1>6, Zenon DEF DriverExits
  <2>2. \A d \in Conns : pc'[d] = pc[d] \/ (pc[d] = "wait" /\ pc'[d] = "open_err")
    BY <1>6, DriverExitsEffect, Zenon
  <2>. QED  BY <1>1, <1>2, <2>1, <2>2, Zenon DEF WithTunnel
<1>7. ASSUME NEW t \in TunnelIds, TakeRequest(t) \/ DriverEvicts(t) \/ SessionEnds(t)
      PROVE  \A d \in Conns : RetriesOf(d)'
  BY <1>1, <1>7, Zenon DEF TakeRequest, DriverEvicts, SessionEnds, connVars
<1>8. CASE SetPolicy \/ UNCHANGED vars
  BY <1>1, <1>8, Zenon DEF SetPolicy, vars, connVars, tunnelVars
<1>. QED  BY <1>4, <1>5, <1>6, <1>7, <1>8, Zenon DEF Next, DriverStep

-----------------------------------------------------------------------------
LEMMA SoftCapInit == Init => SoftCap
<1> SUFFICES ASSUME Init PROVE SoftCap  BY Zenon
<1>1. OnWorker = {} /\ \A t \in TunnelIds : Committed(t) = {}
  BY Zenon DEF Init, OnWorker, Running, Committed, WithTunnel
<1>. QED  BY <1>1, FS_EmptySet, MuxAssumption DEF SoftCap

\* A handler reaches a worker only when one is free.
LEMMA WorkersStep ==
  ASSUME TypeWeak, Requests, Cardinality(OnWorker) <= Workers, [Next]_vars
  PROVE  Cardinality(OnWorker)' <= Workers
<1>0. OnWorker \subseteq Conns /\ IsFiniteSet(OnWorker) /\ Cardinality(OnWorker) \in Nat
  BY ConnSetsFinite, Zenon DEF OnWorker
<1>1. ASSUME OnWorker' \subseteq OnWorker PROVE Cardinality(OnWorker)' <= Workers
  BY <1>0, <1>1, FS_Subset, FS_CardinalityType, MuxAssumption
<1>2. ASSUME NEW c \in Conns, FreeWorker, OnWorker' \subseteq OnWorker \cup {c}
      PROVE  Cardinality(OnWorker)' <= Workers
  <2>1. /\ IsFiniteSet(OnWorker \cup {c})
        /\ Cardinality(OnWorker \cup {c}) \in {Cardinality(OnWorker), Cardinality(OnWorker) + 1}
    BY <1>0, FS_AddElement, Zenon
  <2>2. Cardinality(OnWorker') <= Cardinality(OnWorker \cup {c}) /\ Cardinality(OnWorker') \in Nat
    BY <1>2, <2>1, FS_Subset, FS_CardinalityType, Zenon
  <2>. QED  BY <1>0, <1>2, <2>1, <2>2, MuxAssumption DEF FreeWorker
<1>3. ASSUME NEW c \in Conns,
             RouteStep(c) \/ HandshakeStep(c) \/ RelayEnds(c) \/ LegacyEnds(c)
      PROVE  Cardinality(OnWorker)' <= Workers
  <2>1. OnWorker' \subseteq OnWorker \cup {c}
    BY <1>3, HandlerLocal, Zenon DEF OnWorker
  <2>2. pc[c] \in Running \/ pc'[c] \notin Running => OnWorker' \subseteq OnWorker
    BY <2>1, Zenon DEF OnWorker
  <2>3. pc[c] \in Running \/ pc'[c] \notin Running \/ FreeWorker
    <3>1. CASE RouteStep(c)
      BY <3>1, Zenon DEF RouteStep, Start, PickFast, AcquireLock, Repick, Grow, PickAny, Reserve, SendOpen,
                  SendFails, OpenErr, Evict, Goto, Running, TypeWeak
    <3>2. CASE HandshakeStep(c)
      BY <3>2, Zenon DEF HandshakeStep, HandshakeFails, HandshakeDenied, HandshakeLegacy, HandshakeMux,
                  Goto, Running, TypeWeak
    <3>3. CASE RelayEnds(c) \/ LegacyEnds(c)
      BY <3>3, Zenon DEF RelayEnds, LegacyEnds, Goto, Running, TypeWeak
    <3>. QED  BY <1>3, <3>1, <3>2, <3>3, Zenon
  <2>. QED  BY <1>1, <1>2, <2>1, <2>2, <2>3, Zenon
<1>4. ASSUME NEW t \in TunnelIds, OpenSucceeds(t) \/ OpenRefused(t)
      PROVE  Cardinality(OnWorker)' <= Workers
  <2>1. /\ stash[t] \in Conns /\ pc'[stash[t]] \in {"relay", "open_err"}
        /\ \A d \in Conns \ {stash[t]} : pc'[d] = pc[d]
    BY <1>4, AnswerEffect, AnswerFrame, Zenon
  <2>. QED  BY <1>1, <2>1, Zenon DEF OnWorker, Running
<1>5. ASSUME NEW t \in TunnelIds, DriverExits(t) PROVE Cardinality(OnWorker)' <= Workers
  <2>1. \A d \in Conns : pc'[d] = pc[d] \/ pc'[d] = "open_err"
    BY <1>5, DriverExitsEffect, Zenon
  <2>. QED  BY <1>1, <2>1, Zenon DEF OnWorker, Running
<1>6. ASSUME NEW t \in TunnelIds, TakeRequest(t) \/ DriverEvicts(t) \/ SessionEnds(t)
      PROVE  Cardinality(OnWorker)' <= Workers
  BY <1>1, <1>6, Zenon DEF TakeRequest, DriverEvicts, SessionEnds, connVars, OnWorker
<1>7. CASE SetPolicy \/ UNCHANGED vars
  BY <1>1, <1>7, Zenon DEF SetPolicy, vars, connVars, OnWorker
<1>. QED  BY <1>3, <1>4, <1>5, <1>6, <1>7, Zenon DEF Next, DriverStep

\* A slot is committed only by a pick that saw the tunnel under the cap, by the
\* registration of the tunnel, or by pick_any, which is not counted.
LEMMA CommittedStep ==
  ASSUME TypeWeak, Registration, Requests, LiveExact, SoftCap, [Next]_vars,
         NEW t \in TunnelIds
  PROVE  Cardinality(Committed(t))' <= StreamsPerTunnel + Workers - 1
<1> DEFINE Slotted == WithTunnel \ {"evict"}
<1>0. /\ IsFiniteSet(Committed(t)) /\ Cardinality(Committed(t)) \in Nat
      /\ IsFiniteSet(OnWorker) /\ Cardinality(OnWorker) \in Nat
      /\ IsFiniteSet(Slots(t)) /\ Cardinality(Slots(t)) \in Nat
      /\ StreamsPerTunnel \in Nat \ {0} /\ Workers \in Nat \ {0}
  BY ConnSetsFinite, MuxAssumption, Zenon DEF Committed, OnWorker, Slots
<1>1. ASSUME Committed(t)' \subseteq Committed(t)
      PROVE  Cardinality(Committed(t))' <= StreamsPerTunnel + Workers - 1
  <2>1. Cardinality(Committed(t)') <= Cardinality(Committed(t)) /\ Cardinality(Committed(t)') \in Nat
    BY <1>0, <1>1, FS_Subset, FS_CardinalityType, Zenon
  <2>. QED  BY <1>0, <2>1 DEF SoftCap
<1>2. ASSUME NEW S, S = Committed(t)', S \subseteq Slots(t) \cup OnWorker,
             live[t] < StreamsPerTunnel
      PROVE  Cardinality(Committed(t))' <= StreamsPerTunnel + Workers - 1
  <2>1. /\ Cardinality(Slots(t) \cup OnWorker)
             = Cardinality(Slots(t)) + Cardinality(OnWorker) - Cardinality(Slots(t) \cap OnWorker)
        /\ IsFiniteSet(Slots(t) \cup OnWorker)
    BY <1>0, FS_Union, Zenon
  <2>2. Cardinality(Slots(t) \cap OnWorker) \in Nat /\ Cardinality(Slots(t) \cup OnWorker) \in Nat
    BY <1>0, <2>1, FS_Intersection, FS_CardinalityType, Zenon
  <2>3. Cardinality(S) <= Cardinality(Slots(t) \cup OnWorker) /\ Cardinality(S) \in Nat
    BY <1>2, <2>1, FS_Subset, FS_CardinalityType, Zenon
  <2>4. Cardinality(Slots(t)) < StreamsPerTunnel /\ Cardinality(OnWorker) <= Workers
    BY <1>2, Zenon DEF LiveExact, SoftCap
  <2>5. Cardinality(S) <= StreamsPerTunnel + Workers - 1
    BY <1>0, <2>1, <2>2, <2>3, <2>4
  <2>. QED  BY <1>2, <2>5, Zenon
<1>3. ASSUME NEW c \in Conns,
             RouteStep(c) \/ HandshakeStep(c) \/ RelayEnds(c) \/ LegacyEnds(c)
      PROVE  Cardinality(Committed(t))' <= StreamsPerTunnel + Workers - 1
  <2>1. \A d \in Conns \ {c} : pc'[d] = pc[d] /\ tun'[d] = tun[d]
    BY <1>3, HandlerLocal, Zenon
  <2>2. \A d \in Conns \ {c} : d \in overflowed => d \in overflowed'
    BY <1>3, Zenon DEF RouteStep, Start, PickFast, AcquireLock, Repick, Grow, PickAny, Reserve, SendOpen,
                SendFails, OpenErr, Evict, HandshakeStep, HandshakeFails, HandshakeDenied,
                HandshakeLegacy, HandshakeMux, RelayEnds, LegacyEnds
  <2>3. Committed(t)' \subseteq Committed(t) \cup {c}
    BY <2>1, <2>2, Zenon DEF Committed
  <2>4. ASSUME c \notin Committed(t)' \/ c \in Committed(t)
        PROVE  Cardinality(Committed(t))' <= StreamsPerTunnel + Workers - 1
    BY <1>1, <2>3, <2>4, Zenon
  <2>5. ASSUME NEW u \in UnderCap, Authorize(c, u), pc[c] \in Running
        PROVE  Cardinality(Committed(t))' <= StreamsPerTunnel + Workers - 1
    <3>1. tun'[c] = u  BY <2>5, AuthorizeEffect, Zenon
    <3>2. CASE u # t  BY <2>4, <3>1, <3>2, Zenon DEF Committed
    <3>3. CASE u = t
      <4>1. Committed(t) \subseteq Slots(t) \cup OnWorker
        BY Zenon DEF Committed, WithTunnel, Slots, HoldsSlot, OnWorker, Running
      <4>2. c \in OnWorker  BY <2>5, Zenon DEF OnWorker
      <4>3. live[t] < StreamsPerTunnel  BY <3>3, Zenon DEF UnderCap
      <4>. QED  BY <1>2, <2>3, <4>1, <4>2, <4>3, Zenon
    <3>. QED  BY <3>2, <3>3, Zenon
  <2>6. CASE PickFast(c) \/ Repick(c)
    <3>1. \/ \E u \in UnderCap : Authorize(c, u) /\ pc[c] \in Running
          \/ pc'[c] \in {"lock", "grow"}
      BY <2>6, LeastLoadedSubset, Zenon DEF PickFast, Repick, Goto, Running, TypeWeak
    <3>2. CASE pc'[c] \in {"lock", "grow"}  BY <2>4, <3>2, Zenon DEF Committed, WithTunnel
    <3>. QED  BY <2>5, <3>1, <3>2, Zenon
  <2>7. CASE PickAny(c)
    <3>1. c \in overflowed' \/ pc'[c] \in {"failed", "pick"}
      BY <2>7, Zenon DEF PickAny, NextAttempt, Goto, TypeWeak
    <3>. QED  BY <2>4, <3>1, Zenon DEF Committed, WithTunnel
  <2>8. CASE Start(c) \/ AcquireLock(c) \/ Grow(c) \/ OpenErr(c) \/ Evict(c)
               \/ RelayEnds(c) \/ LegacyEnds(c)
    <3>1. pc'[c] \notin Slotted
      BY <2>8, Zenon DEF Start, AcquireLock, Grow, OpenErr, Evict, RelayEnds, LegacyEnds, NextAttempt,
                  Goto, WithTunnel, TypeWeak
    <3>. QED  BY <2>4, <3>1, Zenon DEF Committed
  <2>9. CASE Reserve(c) \/ SendOpen(c) \/ SendFails(c)
    <3>1. pc[c] \in Slotted /\ UNCHANGED <<tun, overflowed>>
      BY <2>9, Zenon DEF Reserve, SendOpen, SendFails, WithTunnel
    <3>. QED  BY <2>4, <3>1, Zenon DEF Committed
  <2>10. CASE HandshakeFails(c) \/ \E id \in Identities :
                HandshakeDenied(c, id) \/ HandshakeLegacy(c, id)
    <3>1. pc'[c] \notin Slotted
      BY <2>10, Zenon DEF HandshakeFails, HandshakeDenied, HandshakeLegacy, Goto, WithTunnel, TypeWeak
    <3>. QED  BY <2>4, <3>1, Zenon DEF Committed
  <2>11. ASSUME NEW id \in Identities, HandshakeMux(c, id)
         PROVE  Cardinality(Committed(t))' <= StreamsPerTunnel + Workers - 1
    <3>1. tun'[c] = nextId /\ \A d \in Conns : tun[d] # nextId
      BY <2>11, MuxAssumption DEF HandshakeMux, TypeWeak, TunnelIds, NoTunnel, Registration
    <3>2. CASE t # nextId  BY <2>4, <3>1, <3>2, Zenon DEF Committed
    <3>3. CASE t = nextId
      <4>1. Committed(t)' \subseteq {c}  BY <2>1, <3>1, <3>3, Zenon DEF Committed
      <4>2. IsFiniteSet({c}) /\ Cardinality({c}) = 1  BY FS_Singleton, Zenon
      <4>3. Cardinality(Committed(t)') <= 1 /\ Cardinality(Committed(t)') \in Nat
        BY <4>1, <4>2, FS_Subset, FS_CardinalityType, Zenon
      <4>. QED  BY <1>0, <4>3
    <3>. QED  BY <3>2, <3>3, Zenon
  <2>. QED  BY <1>3, <2>6, <2>7, <2>8, <2>9, <2>10, <2>11, Zenon DEF RouteStep, HandshakeStep
<1>4. ASSUME NEW u \in TunnelIds, OpenSucceeds(u) \/ OpenRefused(u)
      PROVE  Committed(t)' \subseteq Committed(t)
  <2>1. /\ stash[u] \in Conns /\ pc[stash[u]] = "wait"
        /\ \A d \in Conns \ {stash[u]} : pc'[d] = pc[d]
        /\ UNCHANGED <<tun, overflowed>>
    BY <1>4, AnswerEffect, AnswerFrame, Zenon
  <2>. QED  BY <2>1, Zenon DEF Committed, WithTunnel
<1>5. ASSUME NEW u \in TunnelIds, DriverExits(u) PROVE Committed(t)' \subseteq Committed(t)
  <2>1. UNCHANGED <<tun, overflowed>>  BY <1>5, Zenon DEF DriverExits
  <2>2. \A d \in Conns : pc'[d] = pc[d] \/ pc[d] = "wait"
    BY <1>5, DriverExitsEffect, Zenon
  <2>. QED  BY <2>1, <2>2, Zenon DEF Committed, WithTunnel
<1>6. ASSUME NEW u \in TunnelIds, TakeRequest(u) \/ DriverEvicts(u) \/ SessionEnds(u)
      PROVE  Committed(t)' \subseteq Committed(t)
  BY <1>6, Zenon DEF TakeRequest, DriverEvicts, SessionEnds, connVars, Committed
<1>7. ASSUME SetPolicy \/ UNCHANGED vars PROVE Committed(t)' \subseteq Committed(t)
  BY <1>7, Zenon DEF SetPolicy, vars, connVars, Committed
<1>. QED  BY <1>1, <1>3, <1>4, <1>5, <1>6, <1>7, Zenon DEF Next, DriverStep

-----------------------------------------------------------------------------
(* The inductive invariant and the theorems *)

Inv ==
  /\ TypeWeak /\ Registration /\ Requests /\ Sessions /\ Locking /\ LiveExact
  /\ Authorization /\ Retries /\ SoftCap

LEMMA Invariance == Spec => []Inv
<1>1. Init => Inv
  BY TypeWeakInit, RegistrationInit, RequestsInit, SessionsInit, LockingInit, LiveExactInit,
     AuthorizationInit, RetriesInit, SoftCapInit, Zenon DEF Inv
<1>2. Inv /\ [Next]_vars => Inv'
  <2> SUFFICES ASSUME Inv, [Next]_vars PROVE Inv'  BY Zenon
  <2>1. TypeWeak' /\ Registration' /\ Requests' /\ Sessions' /\ Locking'
    BY TypeWeakStep, RegistrationStep, RequestsStep, SessionsStep, LockingStep, Zenon DEF Inv
  <2>2. LiveExact' /\ Authorization' /\ Retries'
    BY LiveExactStep, AuthorizationStep, RetriesStep, Zenon DEF Inv
  <2>3. SoftCap'
    BY WorkersStep, CommittedStep, Zenon DEF Inv, SoftCap
  <2>. QED  BY <2>1, <2>2, <2>3, Zenon DEF Inv
<1>. QED  BY <1>1, <1>2, PTL DEF Spec

\* Every variable stays in its type: the live counter never goes below zero
\* and the loop of route never starts an iteration it does not have.
THEOREM TypeCorrect == Spec => []TypeOK
<1>1. Inv => TypeOK
  <2> SUFFICES ASSUME Inv PROVE TypeOK  BY Zenon
  <2>1. live \in [TunnelIds -> Nat]
    <3>1. \A t \in TunnelIds : live[t] \in Nat
      BY ConnSetsFinite, Zenon DEF Inv, LiveExact, Slots
    <3>. QED  BY <3>1, Zenon DEF Inv, TypeWeak
  <2>2. left \in [Conns -> 0..RouteAttempts]
    BY Zenon DEF Inv, TypeWeak, Retries, RetriesOf
  <2>. QED  BY <2>1, <2>2, Zenon DEF Inv, TypeWeak, TypeOK
<1>. QED  BY <1>1, Invariance, PTL

\* The pool never holds more than MAX_TUNNELS_PER_PEER tunnels to a peer, for
\* any number of concurrent connections, driver ends and evictions.
THEOREM PoolSafe == Spec => []PoolBounded
<1>1. Inv => PoolBounded  BY Zenon DEF Inv, Locking
<1>. QED  BY <1>1, Invariance, PTL

\* At most one TLS handshake to a peer is in progress: open_mux_stream creates
\* tunnels under the peer's lock.
THEOREM EstablishmentSingleFlight == Spec => []SingleFlight
<1>1. Inv => SingleFlight  BY Zenon DEF Inv, Locking, SingleFlight, Establishing
<1>. QED  BY <1>1, Invariance, PTL

\* No outcome of a connection leaves the peer's creation lock taken: its holder
\* is on its way through the locked part of the route.
THEOREM CreateLockSafe == Spec => []LockHeldByCreator
<1>1. Inv => LockHeldByCreator  BY Zenon DEF Inv, Locking
<1>. QED  BY <1>1, Invariance, PTL

\* The counter load balancing reads is the number of slots held.
THEOREM LoadExact == Spec => []LiveExact
  BY Invariance, PTL DEF Inv

\* Eviction by id never takes a working tunnel out of the pool.
THEOREM EvictionSafe == Spec => []UpTunnelsPooled
<1>1. Inv => UpTunnelsPooled  BY Zenon DEF Inv, Sessions, UpTunnelsPooled
<1>. QED  BY <1>1, Invariance, PTL

\* The soft cap is overshot by less than the number of worker threads.
THEOREM SoftCapSafe == Spec => []OvershootBounded
<1>1. Inv => OvershootBounded
  <2> SUFFICES ASSUME Inv, NEW t \in TunnelIds
               PROVE  live[t] <= StreamsPerTunnel + Workers - 1 + Cardinality(Overflow(t))
    BY Zenon DEF OvershootBounded
  <2>1. Slots(t) \subseteq Committed(t) \cup Overflow(t)
    BY Zenon DEF Slots, HoldsSlot, Committed, Overflow, WithTunnel
  <2>2. /\ IsFiniteSet(Committed(t)) /\ Cardinality(Committed(t)) \in Nat
        /\ IsFiniteSet(Overflow(t)) /\ Cardinality(Overflow(t)) \in Nat
        /\ Cardinality(Slots(t)) \in Nat
    BY ConnSetsFinite, Zenon DEF Committed, Overflow, Slots
  <2>3. /\ IsFiniteSet(Committed(t) \cup Overflow(t))
        /\ Cardinality(Committed(t) \cup Overflow(t))
             = Cardinality(Committed(t)) + Cardinality(Overflow(t))
                 - Cardinality(Committed(t) \cap Overflow(t))
    BY <2>2, FS_Union, Zenon
  <2>4. Cardinality(Committed(t) \cap Overflow(t)) \in Nat
    BY <2>2, FS_Intersection, FS_CardinalityType, Zenon
  <2>5. Cardinality(Slots(t)) <= Cardinality(Committed(t) \cup Overflow(t))
    BY <2>1, <2>3, FS_Subset, Zenon
  <2>6. live[t] = Cardinality(Slots(t)) /\ Cardinality(Committed(t)) <= StreamsPerTunnel + Workers - 1
    BY Zenon DEF Inv, LiveExact, SoftCap
  <2>. QED  BY <2>2, <2>3, <2>4, <2>5, <2>6, MuxAssumption
<1>. QED  BY <1>1, Invariance, PTL

\* No open request is lost or duplicated on its way to the driver.
THEOREM RequestsSafe == Spec => []RequestNeverDropped
<1>1. Inv => RequestNeverDropped
  <2> SUFFICES ASSUME Inv, NEW c \in Conns, pc[c] = "wait"
               PROVE  LET t == tun[c]
                          places == {i \in DOMAIN queue[t] : queue[t][i] = c}
                      IN /\ driver[t] = "running"
                         /\ Cardinality(places) + (IF stash[t] = c THEN 1 ELSE 0) = 1
    BY Zenon DEF RequestNeverDropped
  <2> DEFINE t == tun[c]
             places == {i \in DOMAIN queue[t] : queue[t][i] = c}
  <2>1. t \in TunnelIds  BY TunnelAtHand, Zenon DEF Inv, WithTunnel
  <2>2. c \in Range(queue[t]) \cup {stash[t]} /\ c # None
    BY MuxAssumption, Zenon DEF Inv, Requests
  <2>3. IsInjective(queue[t]) /\ stash[t] \notin Range(queue[t])
    BY <2>1, Zenon DEF Inv, Requests
  <2>4. driver[t] = "running"
    <3>1. Range(<<>>) = {}  BY DEF Range
    <3>2. queue[t] # <<>> \/ stash[t] # None  BY <2>2, <3>1, Zenon
    <3>. QED  BY <2>1, <3>2, Zenon DEF Inv, Requests
  <2> HIDE DEF t
  <2>5. CASE stash[t] = c
    <3>1. places = {}  BY <2>3, <2>5, Zenon DEF Range
    <3>2. Cardinality(places) = 0  BY <3>1, FS_EmptySet, Zenon
    <3>. QED  BY <2>4, <2>5, <3>2 DEF t
  <2>6. CASE stash[t] # c
    <3>1. PICK i \in DOMAIN queue[t] : queue[t][i] = c  BY <2>2, <2>6, Zenon DEF Range
    <3>2. places = {i}  BY <2>3, <3>1, Zenon DEF IsInjective
    <3>3. Cardinality(places) = 1  BY <3>2, FS_Singleton, Zenon
    <3>. QED  BY <2>4, <2>6, <3>3 DEF t
  <2>. QED  BY <2>5, <2>6, Zenon
<1>. QED  BY <1>1, Invariance, PTL

\* Whoever relays was authorised for the identity of the tunnel it relays on.
THEOREM RelaySafe == Spec => []RelayAuthorized
<1>1. Inv => RelayAuthorized
  BY Zenon DEF Inv, Authorization, RelayAuthorized, WithTunnel
<1>. QED  BY <1>1, Invariance, PTL

\* Each retry is paid for by a tunnel of its own that died.
THEOREM RetriesSafe == Spec => []RetriesPaidByDeaths
<1>1. Inv => RetriesPaidByDeaths
  <2> SUFFICES ASSUME Inv, NEW c \in Conns
               PROVE  RouteAttempts - left[c] <= Cardinality(DeadTunnels)
    BY Zenon DEF RetriesPaidByDeaths
  <2>1. Lost \ InHand(c) \subseteq DeadTunnels  BY Zenon DEF Lost, DeadTunnels
  <2>2. IsFiniteSet(DeadTunnels) /\ Cardinality(DeadTunnels) \in Nat
    BY TunnelSetsFinite, Zenon DEF DeadTunnels
  <2>3. Cardinality(Lost \ InHand(c)) <= Cardinality(DeadTunnels) /\ Cardinality(Lost \ InHand(c)) \in Nat
    BY <2>1, <2>2, FS_Subset, FS_CardinalityType, Zenon
  <2>4. Spent(c) <= Cardinality(Lost \ InHand(c)) /\ Spent(c) \in Int
    BY MuxAssumption DEF Inv, Retries, RetriesOf, Spent
  <2>. QED  BY <2>2, <2>3, <2>4 DEF Spent
<1>. QED  BY <1>1, Invariance, PTL

\* What the pool has lost stays lost: a tunnel that is dead and out of the pool never
\* comes back into it, and an id that names a tunnel never becomes unused again,
\* whichever of evict(), the driver and the handlers gets there first.
THEOREM DeadTunnelsStayOut == Spec => [][Lost \subseteq Lost' /\ Known \subseteq Known']_vars
<1>1. Inv /\ [Next]_vars => [Lost \subseteq Lost' /\ Known \subseteq Known']_vars
  BY LostMonotone, Zenon DEF Inv
<1>. QED  BY <1>1, Invariance, PTL DEF Spec

=============================================================================
