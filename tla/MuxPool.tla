------------------------------- MODULE MuxPool -------------------------------
(***************************************************************************)
(* How outbound connections reach one upstream peer: OutboundProxy::route, *)
(* try_tunnel_stream and establish (outbound.rs) over the tunnel pool, the *)
(* tunnels and their drivers (mux.rs).                                     *)
(*                                                                         *)
(* One upstream address is modelled: the pool and the creation locks are   *)
(* maps keyed by address and entries of different addresses share nothing  *)
(* but the id counter.                                                     *)
(*                                                                         *)
(* A connection handler is a task of a multi-threaded runtime.  Its        *)
(* program counter names the await point it is parked at or, between two   *)
(* await points, the next access to shared state.  At most Workers tasks   *)
(* are between two await points at a time.                                 *)
(***************************************************************************)
EXTENDS Integers, FiniteSets, Sequences, Functions

CONSTANTS
  Conns,             \* connection handlers, all to the one upstream address
  Identities,        \* SPIFFE identities the peer may present in a handshake
  StreamsPerTunnel,  \* STREAMS_PER_TUNNEL, the soft cap
  MaxTunnelsPerPeer, \* MAX_TUNNELS_PER_PEER
  MaxNumStreams,     \* yamux's max_num_streams, the hard cap of a session
  OpenQueue,         \* capacity of a tunnel's open-request channel
  RouteAttempts,     \* iterations of the loop in route
  Workers,           \* worker threads of the runtime
  TunnelBound,       \* bound: tunnels registered in a behaviour
  MuxEnabled,        \* the mux flag of the configuration
  None               \* no connection, no identity

ASSUME MuxAssumption ==
  /\ IsFiniteSet(Conns)
  /\ StreamsPerTunnel \in Nat \ {0}
  /\ MaxTunnelsPerPeer \in Nat \ {0}
  /\ MaxNumStreams \in Nat \ {0}
  /\ OpenQueue \in Nat \ {0}
  /\ RouteAttempts \in Nat \ {0}
  /\ Workers \in Nat \ {0}
  /\ TunnelBound \in Nat
  /\ MuxEnabled \in BOOLEAN
  /\ None \notin Conns
  /\ None \notin Identities

VARIABLES
  pc,          \* where each handler is
  tun,         \* the tunnel a handler picked or registered, NoTunnel if none
  left,        \* iterations of route's loop a handler has left
  authorized,  \* identity the policy last allowed this handler to talk to
  overflowed,  \* handlers whose tunnel came from pick_any (history)
  holder,      \* holder of the address's creation lock
  allowed,     \* identities the policy engine allows now
  pool,        \* the peer's entry of MuxPool::peers, as a set of ids
  nextId,      \* TUNNEL_IDS, starting at 1
  identity,    \* peer_identity of each tunnel
  live,        \* the live counter of each tunnel
  queue,       \* open requests in each tunnel's channel
  stash,       \* pending_open of each driver
  session,     \* the yamux session of each tunnel
  driver       \* the driver task of each tunnel

connVars   == <<pc, tun, left, authorized, overflowed>>
tunnelVars == <<identity, live, queue, stash, session, driver>>
vars == <<connVars, holder, allowed, pool, nextId, tunnelVars>>

NoTunnel  == 0
TunnelIds == 1..TunnelBound

Awaiting  == {"idle", "lock", "handshake", "send", "wait", "open_err",
              "relay", "legacy", "done", "denied", "failed"}
Running   == {"pick", "repick", "grow", "any", "reserve", "evict"}
Outcomes  == {"relay", "legacy", "done", "denied", "failed"}

TypeOK ==
  /\ pc \in [Conns -> Awaiting \cup Running]
  /\ tun \in [Conns -> TunnelIds \cup {NoTunnel}]
  /\ left \in [Conns -> 0..RouteAttempts]
  /\ authorized \in [Conns -> Identities \cup {None}]
  /\ overflowed \in SUBSET Conns
  /\ holder \in Conns \cup {None}
  /\ allowed \in SUBSET Identities
  /\ pool \in SUBSET TunnelIds
  /\ nextId \in 1..(TunnelBound + 1)
  /\ identity \in [TunnelIds -> Identities \cup {None}]
  /\ live \in [TunnelIds -> Nat]
  /\ queue \in [TunnelIds -> Seq(Conns)]
  /\ stash \in [TunnelIds -> Conns \cup {None}]
  /\ session \in [TunnelIds -> {"none", "up", "down"}]
  /\ driver \in [TunnelIds -> {"none", "running", "exited", "gone"}]

Init ==
  /\ pc = [c \in Conns |-> "idle"]
  /\ tun = [c \in Conns |-> NoTunnel]
  /\ left = [c \in Conns |-> RouteAttempts]
  /\ authorized = [c \in Conns |-> None]
  /\ overflowed = {}
  /\ holder = None
  /\ allowed \in SUBSET Identities
  /\ pool = {}
  /\ nextId = 1
  /\ identity = [t \in TunnelIds |-> None]
  /\ live = [t \in TunnelIds |-> 0]
  /\ queue = [t \in TunnelIds |-> <<>>]
  /\ stash = [t \in TunnelIds |-> None]
  /\ session = [t \in TunnelIds |-> "none"]
  /\ driver = [t \in TunnelIds |-> "none"]

-----------------------------------------------------------------------------
(* The runtime and the pool *)

OnWorker   == {c \in Conns : pc[c] \in Running}
FreeWorker == Cardinality(OnWorker) < Workers

\* The tunnel of S with the least load, as a set of at most one; min_by_key
\* breaks a tie by the order of the Vec, which is the order of registration.
LeastLoaded(S) ==
  {t \in S : \A u \in S : live[t] < live[u] \/ (live[t] = live[u] /\ t <= u)}

\* Mutant: load compared with <= to the cap.
UnderCapInclusive == {t \in pool : live[t] <= StreamsPerTunnel}

UnderCap == {t \in pool : live[t] < StreamsPerTunnel}

\* The requester's side of a stream slot: from fetch_add to the guard's drop.
HoldsSlot(c, t) == tun[c] = t /\ pc[c] \in {"send", "wait", "open_err", "relay"}
Slots(t)   == {c \in Conns : HoldsSlot(c, t)}
Streams(t) == {c \in Conns : tun[c] = t /\ pc[c] = "relay"}

\* The application protocols a handshake can agree on: TlsClient offers mux
\* only when the flag is set, and a legacy peer declines it.
AlpnOutcomes == IF MuxEnabled THEN {"mux", "legacy"} ELSE {"legacy"}

Goto(c, label) == pc' = [pc EXCEPT ![c] = label]

\* Dropping the creation-lock guard, when c holds it.
Release(c) == holder' = IF holder = c THEN None ELSE holder

-----------------------------------------------------------------------------
(* The connection handler: route *)

\* handle_connection calls route: straight to establish when mux is off.
Start(c) ==
  /\ pc[c] = "idle"
  /\ FreeWorker
  /\ Goto(c, IF MuxEnabled THEN "pick" ELSE "handshake")
  /\ UNCHANGED <<tun, left, authorized, overflowed, holder, allowed, pool,
                 nextId, tunnelVars>>

\* Mutant: a verdict reached earlier in the loop is reused for the next tunnel.
AuthorizeOnce(c, t) ==
  /\ tun' = [tun EXCEPT ![c] = t]
  /\ \/ /\ authorized[c] # None
        /\ UNCHANGED authorized
        /\ Goto(c, "reserve")
     \/ /\ authorized[c] = None
        /\ identity[t] \in allowed
        /\ authorized' = [authorized EXCEPT ![c] = identity[t]]
        /\ Goto(c, "reserve")
     \/ /\ authorized[c] = None
        /\ identity[t] \notin allowed
        /\ UNCHANGED authorized
        /\ Goto(c, "denied")

\* try_tunnel_stream up to open_stream: the policy is evaluated against the
\* identity of the tunnel that was picked.
Authorize(c, t) ==
  /\ tun' = [tun EXCEPT ![c] = t]
  /\ \/ /\ identity[t] \in allowed
        /\ authorized' = [authorized EXCEPT ![c] = identity[t]]
        /\ Goto(c, "reserve")
     \/ /\ identity[t] \notin allowed
        /\ authorized' = [authorized EXCEPT ![c] = None]
        /\ Goto(c, "denied")

\* The fast path: pick_under_cap without the lock.
PickFast(c) ==
  /\ pc[c] = "pick"
  /\ \/ /\ \E t \in LeastLoaded(UnderCap) : Authorize(c, t)
        /\ overflowed' = overflowed \ {c}
     \/ /\ UnderCap = {}
        /\ Goto(c, "lock")
        /\ UNCHANGED <<tun, authorized, overflowed>>
  /\ UNCHANGED <<left, holder, allowed, pool, nextId, tunnelVars>>

\* Mutant: every caller gets a creation lock of its own.
AcquireFreshLock(c) ==
  /\ pc[c] = "lock"
  /\ FreeWorker
  /\ holder' = c
  /\ Goto(c, "repick")
  /\ UNCHANGED <<tun, left, authorized, overflowed, allowed, pool, nextId, tunnelVars>>

AcquireLock(c) ==
  /\ pc[c] = "lock"
  /\ holder = None
  /\ FreeWorker
  /\ holder' = c
  /\ Goto(c, "repick")
  /\ UNCHANGED <<tun, left, authorized, overflowed, allowed, pool, nextId, tunnelVars>>

\* pick_under_cap again, under the lock; the guard is dropped before the open.
Repick(c) ==
  /\ pc[c] = "repick"
  /\ \/ /\ \E t \in LeastLoaded(UnderCap) : Authorize(c, t)
        /\ overflowed' = overflowed \ {c}
        /\ Release(c)
     \/ /\ UnderCap = {}
        /\ Goto(c, "grow")
        /\ UNCHANGED <<tun, authorized, overflowed, holder>>
  /\ UNCHANGED <<left, allowed, pool, nextId, tunnelVars>>

\* Mutant: can_grow with <=.
GrowInclusive(c) ==
  /\ pc[c] = "grow"
  /\ \/ /\ Cardinality(pool) <= MaxTunnelsPerPeer
        /\ Goto(c, "handshake")
        /\ UNCHANGED holder
     \/ /\ Cardinality(pool) > MaxTunnelsPerPeer
        /\ Goto(c, "any")
        /\ Release(c)
  /\ UNCHANGED <<tun, left, authorized, overflowed, allowed, pool, nextId, tunnelVars>>

\* can_grow decides between establish, under the lock, and pick_any without.
Grow(c) ==
  /\ pc[c] = "grow"
  /\ \/ /\ Cardinality(pool) < MaxTunnelsPerPeer
        /\ Goto(c, "handshake")
        /\ UNCHANGED holder
     \/ /\ Cardinality(pool) >= MaxTunnelsPerPeer
        /\ Goto(c, "any")
        /\ Release(c)
  /\ UNCHANGED <<tun, left, authorized, overflowed, allowed, pool, nextId, tunnelVars>>

\* The next iteration of route's loop, or Route::Failed after the last.
NextAttempt(c) ==
  /\ left' = [left EXCEPT ![c] = @ - 1]
  /\ Goto(c, IF left[c] = 1 THEN "failed" ELSE "pick")

\* pick_any when the pool is full; an empty pool goes round the loop.
PickAny(c) ==
  /\ pc[c] = "any"
  /\ \/ /\ \E t \in LeastLoaded(pool) : Authorize(c, t)
        /\ overflowed' = overflowed \cup {c}
        /\ UNCHANGED left
     \/ /\ pool = {}
        /\ NextAttempt(c)
        /\ UNCHANGED <<tun, authorized, overflowed>>
  /\ UNCHANGED <<holder, allowed, pool, nextId, tunnelVars>>

-----------------------------------------------------------------------------
(* The connection handler: establish *)

\* tls_client.connect fails or times out.
HandshakeFails(c) ==
  /\ pc[c] = "handshake"
  /\ Goto(c, "failed")
  /\ Release(c)
  /\ UNCHANGED <<tun, left, authorized, overflowed, allowed, pool, nextId, tunnelVars>>

\* The peer presented id, and the policy denies it.
HandshakeDenied(c, id) ==
  /\ pc[c] = "handshake"
  /\ id \notin allowed
  /\ authorized' = [authorized EXCEPT ![c] = None]
  /\ Goto(c, "denied")
  /\ Release(c)
  /\ UNCHANGED <<tun, left, overflowed, allowed, pool, nextId, tunnelVars>>

\* The policy allows id and the handshake agreed on the 1:1 protocol.
HandshakeLegacy(c, id) ==
  /\ pc[c] = "handshake"
  /\ "legacy" \in AlpnOutcomes
  /\ id \in allowed
  /\ authorized' = [authorized EXCEPT ![c] = id]
  /\ Goto(c, "legacy")
  /\ Release(c)
  /\ UNCHANGED <<tun, left, overflowed, allowed, pool, nextId, tunnelVars>>

\* The policy allows id and the handshake agreed on mux: register puts the
\* tunnel into the pool and spawns its driver.  The lock stays held.
HandshakeMux(c, id) ==
  /\ pc[c] = "handshake"
  /\ "mux" \in AlpnOutcomes
  /\ id \in allowed
  /\ FreeWorker
  /\ nextId <= TunnelBound
  /\ authorized' = [authorized EXCEPT ![c] = id]
  /\ overflowed' = overflowed \ {c}
  /\ tun' = [tun EXCEPT ![c] = nextId]
  /\ pool' = pool \cup {nextId}
  /\ nextId' = nextId + 1
  /\ identity' = [identity EXCEPT ![nextId] = id]
  /\ session' = [session EXCEPT ![nextId] = "up"]
  /\ driver' = [driver EXCEPT ![nextId] = "running"]
  /\ Goto(c, "reserve")
  /\ UNCHANGED <<left, holder, allowed, live, queue, stash>>

-----------------------------------------------------------------------------
(* The connection handler: open_stream, and what its callers do on Err *)

\* fetch_add on live, before the request is sent.
Reserve(c) ==
  /\ pc[c] = "reserve"
  /\ live' = [live EXCEPT ![tun[c]] = @ + 1]
  /\ Goto(c, "send")
  /\ UNCHANGED <<tun, left, authorized, overflowed, holder, allowed, pool, nextId,
                 identity, queue, stash, session, driver>>

\* open_tx.send: waits while the channel is full.
SendOpen(c) ==
  /\ pc[c] = "send"
  /\ driver[tun[c]] = "running"
  /\ Len(queue[tun[c]]) < OpenQueue
  /\ queue' = [queue EXCEPT ![tun[c]] = Append(@, c)]
  /\ Goto(c, "wait")
  /\ UNCHANGED <<tun, left, authorized, overflowed, holder, allowed, pool, nextId,
                 identity, live, stash, session, driver>>

\* Mutant: the slot is given back by hand, and again by the guard.
SendFailsReleasing(c) ==
  /\ pc[c] = "send"
  /\ driver[tun[c]] # "running"
  /\ live' = [live EXCEPT ![tun[c]] = @ - 1]
  /\ Goto(c, "open_err")
  /\ UNCHANGED <<tun, left, authorized, overflowed, holder, allowed, pool, nextId,
                 identity, queue, stash, session, driver>>

\* open_tx.send fails once the driver has dropped the receiver.
SendFails(c) ==
  /\ pc[c] = "send"
  /\ driver[tun[c]] # "running"
  /\ Goto(c, "open_err")
  /\ UNCHANGED <<tun, left, authorized, overflowed, holder, allowed, pool, nextId,
                 tunnelVars>>

\* Mutant: open_stream has no guard, and its error path keeps the slot.
OpenErrLeaking(c) ==
  /\ pc[c] = "open_err"
  /\ FreeWorker
  /\ Goto(c, "evict")
  /\ UNCHANGED <<tun, left, authorized, overflowed, holder, allowed, pool, nextId,
                 tunnelVars>>

\* open_stream returns Err: its guard gives the slot back.
OpenErr(c) ==
  /\ pc[c] = "open_err"
  /\ FreeWorker
  /\ live' = [live EXCEPT ![tun[c]] = @ - 1]
  /\ Goto(c, "evict")
  /\ UNCHANGED <<tun, left, authorized, overflowed, holder, allowed, pool, nextId,
                 identity, queue, stash, session, driver>>

\* Mutant: the caller leaves eviction to the driver.
EvictNothing(c) ==
  /\ pc[c] = "evict"
  /\ \/ /\ holder = c
        /\ Goto(c, "failed")
        /\ UNCHANGED left
     \/ /\ holder # c
        /\ NextAttempt(c)
  /\ Release(c)
  /\ UNCHANGED <<tun, authorized, overflowed, allowed, pool, nextId, tunnelVars>>

\* The caller evicts the tunnel by id.  establish then fails the connection
\* and the creation lock is dropped; try_tunnel_stream goes round the loop.
Evict(c) ==
  /\ pc[c] = "evict"
  /\ pool' = pool \ {tun[c]}
  /\ \/ /\ holder = c
        /\ Goto(c, "failed")
        /\ UNCHANGED left
     \/ /\ holder # c
        /\ NextAttempt(c)
  /\ Release(c)
  /\ UNCHANGED <<tun, authorized, overflowed, allowed, nextId, tunnelVars>>

\* The relay ends and the MuxStream is dropped with its guard.
RelayEnds(c) ==
  /\ pc[c] = "relay"
  /\ live' = [live EXCEPT ![tun[c]] = @ - 1]
  /\ Goto(c, "done")
  /\ UNCHANGED <<tun, left, authorized, overflowed, holder, allowed, pool, nextId,
                 identity, queue, stash, session, driver>>

LegacyEnds(c) ==
  /\ pc[c] = "legacy"
  /\ Goto(c, "done")
  /\ UNCHANGED <<tun, left, authorized, overflowed, holder, allowed, pool, nextId,
                 tunnelVars>>

-----------------------------------------------------------------------------
(* The driver of a tunnel: drive_client and what register spawns around it *)

\* Mutant: the next request is received while one is still stashed.
TakeRequestAlways(t) ==
  /\ driver[t] = "running"
  /\ queue[t] # <<>>
  /\ stash' = [stash EXCEPT ![t] = Head(queue[t])]
  /\ queue' = [queue EXCEPT ![t] = Tail(@)]
  /\ UNCHANGED <<connVars, holder, allowed, pool, nextId, identity, live, session, driver>>

TakeRequest(t) ==
  /\ driver[t] = "running"
  /\ stash[t] = None
  /\ queue[t] # <<>>
  /\ stash' = [stash EXCEPT ![t] = Head(queue[t])]
  /\ queue' = [queue EXCEPT ![t] = Tail(@)]
  /\ UNCHANGED <<connVars, holder, allowed, pool, nextId, identity, live, session, driver>>

\* poll_new_outbound is Ready(Ok): the requester gets its stream, and if it
\* came from establish it drops the creation lock.  Pending leaves the stash.
OpenSucceeds(t) ==
  /\ driver[t] = "running"
  /\ stash[t] # None
  /\ session[t] = "up"
  /\ Cardinality(Streams(t)) < MaxNumStreams
  /\ Goto(stash[t], "relay")
  /\ Release(stash[t])
  /\ stash' = [stash EXCEPT ![t] = None]
  /\ UNCHANGED <<tun, left, authorized, overflowed, allowed, pool, nextId,
                 identity, live, queue, session, driver>>

\* poll_new_outbound is Ready(Err): the session is down, or it is at its hard
\* cap, which closes it.
OpenRefused(t) ==
  /\ driver[t] = "running"
  /\ stash[t] # None
  /\ session[t] = "down" \/ Cardinality(Streams(t)) >= MaxNumStreams
  /\ session' = [session EXCEPT ![t] = "down"]
  /\ Goto(stash[t], "open_err")
  /\ stash' = [stash EXCEPT ![t] = None]
  /\ UNCHANGED <<tun, left, authorized, overflowed, holder, allowed, pool, nextId,
                 identity, live, queue, driver>>

\* Mutant: the requests a driver still had are kept alive, never answered.
DriverExitsSilently(t) ==
  /\ driver[t] = "running"
  /\ session[t] = "down"
  /\ driver' = [driver EXCEPT ![t] = "exited"]
  /\ queue' = [queue EXCEPT ![t] = <<>>]
  /\ stash' = [stash EXCEPT ![t] = None]
  /\ UNCHANGED <<connVars, holder, allowed, pool, nextId, identity, live, session>>

\* poll_next_inbound reports the end of the session: drive_client returns, and
\* the requests it still had are dropped with their reply channels.
DriverExits(t) ==
  /\ driver[t] = "running"
  /\ session[t] = "down"
  /\ driver' = [driver EXCEPT ![t] = "exited"]
  /\ queue' = [queue EXCEPT ![t] = <<>>]
  /\ stash' = [stash EXCEPT ![t] = None]
  /\ pc' = [c \in Conns |->
              IF c \in Range(queue[t]) \cup {stash[t]} THEN "open_err" ELSE pc[c]]
  /\ UNCHANGED <<tun, left, authorized, overflowed, holder, allowed, pool, nextId,
                 identity, live, session>>

\* Mutants: the driver drops the peer's whole entry, or nothing.
DriverEvictsAll(t) ==
  /\ driver[t] = "exited"
  /\ driver' = [driver EXCEPT ![t] = "gone"]
  /\ pool' = {}
  /\ UNCHANGED <<connVars, holder, allowed, nextId, identity, live, queue, stash, session>>

DriverEvictsNothing(t) ==
  /\ driver[t] = "exited"
  /\ driver' = [driver EXCEPT ![t] = "gone"]
  /\ UNCHANGED <<connVars, holder, allowed, pool, nextId, identity, live, queue, stash, session>>

\* The spawned task evicts its own tunnel by id.
DriverEvicts(t) ==
  /\ driver[t] = "exited"
  /\ driver' = [driver EXCEPT ![t] = "gone"]
  /\ pool' = pool \ {t}
  /\ UNCHANGED <<connVars, holder, allowed, nextId, identity, live, queue, stash, session>>

-----------------------------------------------------------------------------
(* The environment *)

\* The peer closes the session or its transport fails.
SessionEnds(t) ==
  /\ session[t] = "up"
  /\ session' = [session EXCEPT ![t] = "down"]
  /\ UNCHANGED <<connVars, holder, allowed, pool, nextId, identity, live, queue, stash, driver>>

\* The policy engine's rules are replaced (set_global_policies).
SetPolicy ==
  /\ allowed' \in SUBSET Identities
  /\ UNCHANGED <<connVars, holder, pool, nextId, tunnelVars>>

-----------------------------------------------------------------------------
RouteStep(c) ==
  \/ Start(c) \/ PickFast(c) \/ AcquireLock(c) \/ Repick(c) \/ Grow(c) \/ PickAny(c)
  \/ Reserve(c) \/ SendOpen(c) \/ SendFails(c) \/ OpenErr(c) \/ Evict(c)

HandshakeStep(c) ==
  \/ HandshakeFails(c)
  \/ \E id \in Identities :
       HandshakeDenied(c, id) \/ HandshakeLegacy(c, id) \/ HandshakeMux(c, id)

DriverStep(t) ==
  TakeRequest(t) \/ OpenSucceeds(t) \/ OpenRefused(t) \/ DriverExits(t) \/ DriverEvicts(t)

Next ==
  \/ \E c \in Conns : RouteStep(c) \/ HandshakeStep(c) \/ RelayEnds(c) \/ LegacyEnds(c)
  \/ \E t \in TunnelIds : DriverStep(t) \/ SessionEnds(t)
  \/ SetPolicy

Spec == Init /\ [][Next]_vars

\* A runnable task is eventually polled, the creation lock and the request
\* channel serve their waiters in order, and a handshake ends.  Nothing
\* makes a relay or a session end, or the policy change.
Fairness ==
  /\ \A c \in Conns : SF_vars(RouteStep(c)) /\ WF_vars(HandshakeStep(c))
  /\ \A t \in TunnelIds : WF_vars(DriverStep(t))

FairSpec == Spec /\ Fairness

-----------------------------------------------------------------------------
(* Properties *)

\* The pool never holds more tunnels to a peer than MAX_TUNNELS_PER_PEER: the
\* room can_grow saw is still there when register uses it, a handshake later.
PoolBounded == Cardinality(pool) <= MaxTunnelsPerPeer

\* Concurrent connections share one handshake: with mux on, at most one of them
\* is between can_grow and the end of establish (the creation lock's purpose).
Establishing == {c \in Conns : pc[c] = "handshake"}
SingleFlight == MuxEnabled => \A c, d \in Establishing : c = d

\* The live counter that load balancing reads is exactly the number of handlers
\* holding a slot on the tunnel, whatever way their opens and relays end.
LiveExact == \A t \in TunnelIds : live[t] = Cardinality(Slots(t))

\* Eviction only removes tunnels whose session has ended: a working tunnel is
\* never lost to the pool, however late an old driver or a failed open evicts.
UpTunnelsPooled == \A t \in TunnelIds : session[t] = "up" => t \in pool

\* The soft cap is checked before the slot is reserved, so it can be overshot,
\* but only by the tasks running at that moment, pick_any's picks aside.
Overflow(t) == overflowed \cap Slots(t)
OvershootBounded ==
  \A t \in TunnelIds :
    live[t] <= StreamsPerTunnel + Workers - 1 + Cardinality(Overflow(t))

\* A request a handler waits on is in its tunnel's channel or stashed by its
\* driver, in one place only: drive_client never drops a request unanswered.
RequestNeverDropped ==
  \A c \in Conns : pc[c] = "wait" =>
    LET t == tun[c]
        places == {i \in DOMAIN queue[t] : queue[t][i] = c}
    IN /\ driver[t] = "running"
       /\ Cardinality(places) + (IF stash[t] = c THEN 1 ELSE 0) = 1

\* A handler relays over a tunnel only after the policy allowed the identity
\* of that very tunnel, also when it retried after a dead tunnel.
RelayAuthorized ==
  \A c \in Conns :
    /\ pc[c] = "relay" => authorized[c] = identity[tun[c]]
    /\ pc[c] = "legacy" => authorized[c] # None

\* A handler loses an iteration of route's loop only to a tunnel that died, and
\* never to the same one twice: n iterations spent, at least n tunnels dead.
DeadTunnels == {t \in TunnelIds : session[t] = "down"}
RetriesPaidByDeaths ==
  \A c \in Conns : RouteAttempts - left[c] <= Cardinality(DeadTunnels)

\* The creation lock is held only by a handler on its way through establish, so
\* no outcome of a connection leaves the peer's creation lock taken.
LockHeldByCreator ==
  holder # None =>
    pc[holder] \in {"repick", "grow", "handshake", "reserve", "send", "wait",
                    "open_err", "evict"}

\* Every connection that starts gets a route: a stream, a 1:1 connection, a
\* denial or a failure.
RouteCompletes == \A c \in Conns : (pc[c] # "idle") ~> (pc[c] \in Outcomes)

\* A tunnel whose session ended leaves the pool for good.
DeadLeavesPool == \A t \in TunnelIds : (session[t] = "down") ~> [](t \notin pool)
=============================================================================
