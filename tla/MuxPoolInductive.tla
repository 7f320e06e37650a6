-------------------------- MODULE MuxPoolInductive --------------------------
(***************************************************************************)
(* The inductive invariant of MuxPool, in layers.  MuxPoolProofs proves    *)
(* that it is one, and what it implies.                                    *)
(***************************************************************************)
EXTENDS MuxPool

-----------------------------------------------------------------------------
(* The inductive invariant, in layers: each one uses the ones before it. *)

\* Types, without the lower bounds of the two counters.
TypeWeak ==
  /\ pc \in [Conns -> Awaiting \cup Running]
  /\ tun \in [Conns -> TunnelIds \cup {NoTunnel}]
  /\ left \in [Conns -> Int]
  /\ authorized \in [Conns -> Identities \cup {None}]
  /\ overflowed \in SUBSET Conns
  /\ holder \in Conns \cup {None}
  /\ allowed \in SUBSET Identities
  /\ pool \in SUBSET TunnelIds
  /\ nextId \in 1..(TunnelBound + 1)
  /\ identity \in [TunnelIds -> Identities \cup {None}]
  /\ live \in [TunnelIds -> Int]
  /\ queue \in [TunnelIds -> Seq(Conns)]
  /\ stash \in [TunnelIds -> Conns \cup {None}]
  /\ session \in [TunnelIds -> {"none", "up", "down"}]
  /\ driver \in [TunnelIds -> {"none", "running", "exited", "gone"}]

\* States in which a handler has a tunnel at hand.
WithTunnel == {"reserve", "send", "wait", "open_err", "evict", "relay"}

\* Only registered tunnels are used, pooled or driven.
Registration ==
  /\ \A t \in pool : t < nextId
  /\ \A t \in TunnelIds : t < nextId <=> session[t] # "none"
  /\ \A t \in TunnelIds : session[t] = "none" <=> driver[t] = "none"
  /\ \A c \in Conns : tun[c] < nextId
  /\ \A c \in Conns : pc[c] \in WithTunnel => tun[c] # NoTunnel

\* Open requests: what is queued or stashed is what its requester waits on.
Requests ==
  /\ \A t \in TunnelIds : \A c \in Range(queue[t]) \cup ({stash[t]} \ {None}) :
       pc[c] = "wait" /\ tun[c] = t
  /\ \A t \in TunnelIds : queue[t] # <<>> \/ stash[t] # None => driver[t] = "running"
  /\ \A t \in TunnelIds : IsInjective(queue[t])
  /\ \A t \in TunnelIds : stash[t] \notin Range(queue[t])
  /\ \A c \in Conns : pc[c] = "wait" => c \in Range(queue[tun[c]]) \cup {stash[tun[c]]}

\* Sessions: only a tunnel whose session is down is given up on.
Sessions ==
  /\ \A t \in TunnelIds : session[t] = "up" => driver[t] = "running" /\ t \in pool
  /\ \A t \in TunnelIds : driver[t] \in {"exited", "gone"} => session[t] = "down"
  /\ \A c \in Conns : pc[c] \in {"open_err", "evict"} => session[tun[c]] = "down"

\* The creation lock, and what its holder knows of the pool.
Locking ==
  /\ LockHeldByCreator
  /\ PoolBounded
  /\ MuxEnabled => \A c \in Conns :
       /\ pc[c] \in {"repick", "grow", "handshake"} => holder = c
       /\ pc[c] = "handshake" => Cardinality(pool) < MaxTunnelsPerPeer
  /\ ~MuxEnabled => /\ pool = {}
                    /\ \A c \in Conns : pc[c] \in {"idle", "handshake"} \cup Outcomes

\* Retries: the loop of route is entered with an iteration left, and each
\* iteration spent is a tunnel that is dead and out of the pool.
Lost      == {t \in TunnelIds : session[t] = "down" /\ t \notin pool}
Known     == {t \in TunnelIds : session[t] # "none"}
InHand(c) == IF pc[c] \in WithTunnel THEN {tun[c]} ELSE {}
Spent(c)  == RouteAttempts - left[c]
RetriesOf(c) ==
  /\ left[c] \in 0..RouteAttempts
  /\ pc[c] # "failed" => left[c] >= 1
  /\ Spent(c) <= Cardinality(Lost \ InHand(c))
  /\ pc[c] = "any" => Spent(c) + 1 <= Cardinality(Known)
Retries == \A c \in Conns : RetriesOf(c)

\* Authorisation: the identity a handler was cleared for is its tunnel's.
Authorization ==
  \A c \in Conns :
    /\ pc[c] \in WithTunnel => authorized[c] = identity[tun[c]]
    /\ pc[c] = "legacy" => authorized[c] # None

\* The soft cap: the slots that are held or about to be, pick_any's aside.
Committed(t) == {c \in Conns : tun[c] = t /\ pc[c] \in WithTunnel \ {"evict"}} \ overflowed
SoftCap ==
  /\ Cardinality(OnWorker) <= Workers
  /\ \A t \in TunnelIds : Cardinality(Committed(t)) <= StreamsPerTunnel + Workers - 1
=============================================================================
