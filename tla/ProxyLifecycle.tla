--------------------------- MODULE ProxyLifecycle ---------------------------
(***************************************************************************)
(* The life of one interlinkd process: main starts the admin server and    *)
(* the two proxies, the acceptors of a proxy admit connections under its   *)
(* connection limit, and a signal stops the acceptors, lets the admitted   *)
(* connections drain for a grace period and ends the process.  The body    *)
(* of a connection's handler is left out: it returns, or it never does.    *)
(* So are the stream tasks of a tunnel, which hold no permit and are not   *)
(* counted: nothing here waits for them.                                   *)
(***************************************************************************)
EXTENDS Integers, FiniteSets

CONSTANTS
  Acceptors,        \* the SO_REUSEPORT acceptors of each proxy
  Conns,            \* the connections that may arrive
  MaxConnections,   \* INTERLINK_MAX_CONNECTIONS, the permits of each proxy
  Disabled,         \* the proxies configured with port 0
  DefaultUpstream,  \* whether INTERLINK_DEFAULT_UPSTREAM is set
  None

Proxies == {"inbound", "outbound"}

ASSUME LifecycleAssumption ==
  /\ IsFiniteSet(Acceptors)
  /\ IsFiniteSet(Conns)
  /\ MaxConnections \in Nat
  /\ Disabled \subseteq Proxies
  /\ DefaultUpstream \in BOOLEAN
  /\ None \notin Conns

VARIABLES
  main,     \* where main() is
  signal,   \* the value of the shutdown watch channel
  admin,    \* the admin server's task
  run,      \* run[p]: where the proxy's run() is
  late,     \* late[p]: the drain deadline has passed
  forced,   \* forced[p]: run() returned because of the deadline
  acc,      \* acc[p][a]: where the acceptor task is
  hand,     \* hand[p][a]: the connection the acceptor is admitting
  permits,  \* permits[p]: free permits of connection_semaphore
  active,   \* active[p]: active_connections
  conn,     \* conn[c]: what became of the connection
  at        \* at[c]: the proxy it came to

procVars == <<main, signal, admin>>
runVars == <<run, late, forced>>
accVars == <<acc, hand>>
connVars == <<permits, active, conn, at>>
vars == <<procVars, runVars, accVars, connVars>>

MainPCs == {"admin", "inbound", "outbound", "serving",
            "joinInbound", "joinOutbound", "joinAdmin", "exited"}
RunPCs == {"unborn", "binding", "accepting", "draining", "checking", "stopped"}
AccPCs == {"unborn", "select", "permit", "spawn", "stopped"}
ConnStates == {"new", "inHand", "running", "returned", "uncounted",
               "closed", "dropped", "rejected", "cut"}

TypeOK ==
  /\ main \in MainPCs
  /\ signal \in BOOLEAN
  /\ admin \in {"unborn", "binding", "serving", "stopped"}
  /\ run \in [Proxies -> RunPCs]
  /\ late \in [Proxies -> BOOLEAN]
  /\ forced \in [Proxies -> BOOLEAN]
  /\ acc \in [Proxies -> [Acceptors -> AccPCs]]
  /\ hand \in [Proxies -> [Acceptors -> Conns \cup {None}]]
  /\ permits \in [Proxies -> 0..MaxConnections]
  /\ active \in [Proxies -> Nat]
  /\ conn \in [Conns -> ConnStates]
  /\ at \in [Conns -> Proxies \cup {None}]

Init ==
  /\ main = "admin"
  /\ signal = FALSE
  /\ admin = "unborn"
  /\ run = [p \in Proxies |-> "unborn"]
  /\ late = [p \in Proxies |-> FALSE]
  /\ forced = [p \in Proxies |-> FALSE]
  /\ acc = [p \in Proxies |-> [a \in Acceptors |-> "unborn"]]
  /\ hand = [p \in Proxies |-> [a \in Acceptors |-> None]]
  /\ permits = [p \in Proxies |-> MaxConnections]
  /\ active = [p \in Proxies |-> 0]
  /\ conn = [c \in Conns |-> "new"]
  /\ at = [c \in Conns |-> None]

\* The runtime drops every task when main returns.
Alive == main # "exited"

-----------------------------------------------------------------------------
\* main()

SpawnAdmin ==
  /\ main = "admin"
  /\ main' = "inbound"
  /\ admin' = "binding"
  /\ UNCHANGED <<signal, runVars, accVars, connVars>>

SpawnProxy(p) ==
  /\ main = p
  /\ main' = IF p = "inbound" THEN "outbound" ELSE "serving"
  /\ run' = [run EXCEPT ![p] = "binding"]
  /\ UNCHANGED <<signal, admin, late, forced, accVars, connVars>>

\* SIGTERM or SIGINT, or a failure to listen for them.
Shutdown ==
  /\ main = "serving"
  /\ signal' = TRUE
  /\ main' = "joinInbound"
  /\ UNCHANGED <<admin, runVars, accVars, connVars>>

JoinInbound ==
  /\ main = "joinInbound"
  /\ run["inbound"] = "stopped"
  /\ main' = "joinOutbound"
  /\ UNCHANGED <<signal, admin, runVars, accVars, connVars>>

\* Mutant: the outbound proxy's task is not awaited.
JoinInboundOnly ==
  /\ main = "joinOutbound"
  /\ main' = "joinAdmin"
  /\ UNCHANGED <<signal, admin, runVars, accVars, connVars>>

JoinOutbound ==
  /\ main = "joinOutbound"
  /\ run["outbound"] = "stopped"
  /\ main' = "joinAdmin"
  /\ UNCHANGED <<signal, admin, runVars, accVars, connVars>>

\* The process ends, and with it the handlers that still run.
JoinAdmin ==
  /\ main = "joinAdmin"
  /\ admin = "stopped"
  /\ main' = "exited"
  /\ conn' = [c \in Conns |-> IF conn[c] \in {"inHand", "running"} THEN "cut"
                              ELSE conn[c]]
  /\ UNCHANGED <<signal, admin, runVars, accVars, permits, active, at>>

-----------------------------------------------------------------------------
\* AdminServer::run

\* A failed bind ends the task.
AdminBind ==
  /\ Alive
  /\ admin = "binding"
  /\ admin' \in {"serving", "stopped"}
  /\ UNCHANGED <<main, signal, runVars, accVars, connVars>>

AdminStops ==
  /\ Alive
  /\ admin = "serving"
  /\ signal
  /\ admin' = "stopped"
  /\ UNCHANGED <<main, signal, runVars, accVars, connVars>>

-----------------------------------------------------------------------------
\* TcpProxy::run and OutboundProxy::run

\* Port 0 disables the proxy, a failed bind costs one acceptor, and with none
\* left the proxy is not started.
Bind(p) ==
  /\ Alive
  /\ run[p] = "binding"
  /\ \E B \in SUBSET Acceptors :
       /\ p \in Disabled => B = {}
       /\ run' = [run EXCEPT ![p] = IF B = {} THEN "stopped" ELSE "accepting"]
       /\ acc' = [acc EXCEPT ![p] =
                    [a \in Acceptors |-> IF a \in B THEN "select" ELSE "stopped"]]
  /\ UNCHANGED <<procVars, late, forced, hand, connVars>>

\* Mutant: the acceptors are not awaited before the drain.
RunDrainsAtOnce(p) ==
  /\ Alive
  /\ run[p] = "accepting"
  /\ signal
  /\ run' = [run EXCEPT ![p] = "draining"]
  /\ UNCHANGED <<procVars, late, forced, accVars, connVars>>

\* Every acceptor has been awaited.
RunDrains(p) ==
  /\ Alive
  /\ run[p] = "accepting"
  /\ \A a \in Acceptors : acc[p][a] = "stopped"
  /\ run' = [run EXCEPT ![p] = "draining"]
  /\ UNCHANGED <<procVars, late, forced, accVars, connVars>>

\* wait_for_graceful_shutdown: the count is polled first, then the clock.
PollActive(p) ==
  /\ Alive
  /\ run[p] = "draining"
  /\ run' = [run EXCEPT ![p] = IF active[p] = 0 THEN "stopped" ELSE "checking"]
  /\ UNCHANGED <<procVars, late, forced, accVars, connVars>>

\* Mutant: the poll has no deadline.
PollForever(p) ==
  /\ Alive
  /\ run[p] = "checking"
  /\ run' = [run EXCEPT ![p] = "draining"]
  /\ UNCHANGED <<procVars, late, forced, accVars, connVars>>

CheckDeadline(p) ==
  /\ Alive
  /\ run[p] = "checking"
  /\ run' = [run EXCEPT ![p] = IF late[p] THEN "stopped" ELSE "draining"]
  /\ forced' = [forced EXCEPT ![p] = late[p]]
  /\ UNCHANGED <<procVars, late, accVars, connVars>>

\* SHUTDOWN_GRACE runs out.
DeadlinePasses(p) ==
  /\ Alive
  /\ run[p] \in {"draining", "checking"}
  /\ ~late[p]
  /\ late' = [late EXCEPT ![p] = TRUE]
  /\ UNCHANGED <<procVars, run, forced, accVars, connVars>>

-----------------------------------------------------------------------------
\* The accept loop and handle_accept

\* The destination SO_ORIGINAL_DST may report for a connection.
OriginalDsts == {"original", "self", None}

Default == IF DefaultUpstream THEN "default" ELSE None

\* Outbound prefers an original destination that is not its own port, inbound
\* prefers the default and takes any original destination otherwise.
OutboundUpstream(dst) == IF dst = "original" THEN dst ELSE Default
InboundUpstream(dst) == IF DefaultUpstream THEN Default ELSE dst
Choose(p, dst) == IF p = "outbound" THEN OutboundUpstream(dst) ELSE InboundUpstream(dst)

\* select! may take a connection even when the signal is up.
Accept(p, a, c) ==
  /\ Alive
  /\ acc[p][a] = "select"
  /\ conn[c] = "new"
  /\ at' = [at EXCEPT ![c] = p]
  /\ \E dst \in OriginalDsts :
       IF Choose(p, dst) = None
       THEN /\ conn' = [conn EXCEPT ![c] = "dropped"]
            /\ UNCHANGED accVars
       ELSE /\ conn' = [conn EXCEPT ![c] = "inHand"]
            /\ hand' = [hand EXCEPT ![p][a] = c]
            /\ acc' = [acc EXCEPT ![p][a] = "permit"]
  /\ UNCHANGED <<procVars, runVars, permits, active>>

\* The permit is tried for, never waited for.
TryAcquireOwned(p, a) ==
  /\ Alive
  /\ acc[p][a] = "permit"
  /\ permits[p] > 0
  /\ permits' = [permits EXCEPT ![p] = @ - 1]
  /\ acc' = [acc EXCEPT ![p][a] = "spawn"]
  /\ UNCHANGED <<procVars, runVars, hand, active, conn, at>>

\* Mutant: a connection over the limit waits for a permit.
RejectWaits(p, a) ==
  /\ Alive
  /\ acc[p][a] = "permit"
  /\ permits[p] > MaxConnections
  /\ UNCHANGED vars

Reject(p, a) ==
  /\ Alive
  /\ acc[p][a] = "permit"
  /\ permits[p] = 0
  /\ conn' = [conn EXCEPT ![hand[p][a]] = "rejected"]
  /\ hand' = [hand EXCEPT ![p][a] = None]
  /\ acc' = [acc EXCEPT ![p][a] = "select"]
  /\ UNCHANGED <<procVars, runVars, permits, active, at>>

\* The connection is counted before its task is spawned.
SpawnHandler(p, a) ==
  /\ Alive
  /\ acc[p][a] = "spawn"
  /\ active' = [active EXCEPT ![p] = @ + 1]
  /\ conn' = [conn EXCEPT ![hand[p][a]] = "running"]
  /\ hand' = [hand EXCEPT ![p][a] = None]
  /\ acc' = [acc EXCEPT ![p][a] = "select"]
  /\ UNCHANGED <<procVars, runVars, permits, at>>

\* wait_shutdown resolves, at once when the signal is already up.
AcceptorStops(p, a) ==
  /\ Alive
  /\ acc[p][a] = "select"
  /\ signal
  /\ acc' = [acc EXCEPT ![p][a] = "stopped"]
  /\ UNCHANGED <<procVars, runVars, hand, connVars>>

-----------------------------------------------------------------------------
\* The task of an admitted connection

HandlerReturns(c) ==
  /\ Alive
  /\ conn[c] = "running"
  /\ conn' = [conn EXCEPT ![c] = "returned"]
  /\ UNCHANGED <<procVars, runVars, accVars, permits, active, at>>

Uncount(c) ==
  /\ Alive
  /\ conn[c] = "returned"
  /\ active' = [active EXCEPT ![at[c]] = @ - 1]
  /\ conn' = [conn EXCEPT ![c] = "uncounted"]
  /\ UNCHANGED <<procVars, runVars, accVars, permits, at>>

\* Mutant: the permit is not given back.
DropPermitLeaks(c) ==
  /\ Alive
  /\ conn[c] = "uncounted"
  /\ conn' = [conn EXCEPT ![c] = "closed"]
  /\ UNCHANGED <<procVars, runVars, accVars, permits, active, at>>

DropPermit(c) ==
  /\ Alive
  /\ conn[c] = "uncounted"
  /\ permits' = [permits EXCEPT ![at[c]] = @ + 1]
  /\ conn' = [conn EXCEPT ![c] = "closed"]
  /\ UNCHANGED <<procVars, runVars, accVars, active, at>>

-----------------------------------------------------------------------------
MainStep ==
  \/ SpawnAdmin
  \/ \E p \in Proxies : SpawnProxy(p)
  \/ JoinInbound
  \/ JoinOutbound
  \/ JoinAdmin

AdminStep == AdminBind \/ AdminStops

RunStep(p) ==
  \/ Bind(p)
  \/ RunDrains(p)
  \/ PollActive(p)
  \/ CheckDeadline(p)

AdmitStep(p, a) == TryAcquireOwned(p, a) \/ Reject(p, a) \/ SpawnHandler(p, a)

EndStep(c) == Uncount(c) \/ DropPermit(c)

Next ==
  \/ MainStep
  \/ Shutdown
  \/ AdminStep
  \/ \E p \in Proxies :
       \/ RunStep(p)
       \/ DeadlinePasses(p)
       \/ \E a \in Acceptors :
            \/ AdmitStep(p, a)
            \/ AcceptorStops(p, a)
            \/ \E c \in Conns : Accept(p, a, c)
  \/ \E c \in Conns : HandlerReturns(c) \/ EndStep(c)

Spec == Init /\ [][Next]_vars

\* Tasks that can step do so and time passes.  No fairness for arrivals, for
\* the signal, or for the handlers: a relay may run for ever.
Fairness ==
  /\ WF_vars(MainStep)
  /\ WF_vars(AdminStep)
  /\ \A p \in Proxies :
       /\ WF_vars(RunStep(p))
       /\ WF_vars(DeadlinePasses(p))
       /\ \A a \in Acceptors :
            /\ WF_vars(AdmitStep(p, a))
            /\ WF_vars(AcceptorStops(p, a))
  /\ \A c \in Conns : WF_vars(EndStep(c))

FairSpec == Spec /\ Fairness

-----------------------------------------------------------------------------
\* The connections of a proxy, and its acceptors, that hold a permit.
Holders(p) ==
  {c \in Conns : at[c] = p /\ conn[c] \in {"running", "returned", "uncounted"}}
Granting(p) == {a \in Acceptors : acc[p][a] = "spawn"}

\* The connection limit is exact: while the process runs, the free permits of a
\* proxy, the acceptors about to spawn and the handlers that have not dropped
\* their permit add up to max_connections, whatever ends a handler and whichever
\* acceptors race for the last permit.
LimitExact ==
  Alive => \A p \in Proxies :
    permits[p] + Cardinality(Holders(p)) + Cardinality(Granting(p)) = MaxConnections

\* The end of the process cuts a connection only when its own proxy's grace
\* period ran out: one admitted just as the signal arrives, by an acceptor that
\* had not seen it, is drained like the others.
CutOnlyAfterGrace ==
  \A c \in Conns : conn[c] = "cut" => forced[at[c]]

\* Once run() has gone on to wait_for_graceful_shutdown, no connection of that
\* proxy starts to run, so the count it polls can only fall.
AdmissionsEndBeforeDrain ==
  [][\A p \in Proxies, c \in Conns :
       /\ run[p] \in {"draining", "checking", "stopped"}
       /\ conn[c] # "running"
       /\ conn'[c] = "running"
       => at[c] # p]_vars

\* After the signal the process ends, whatever the relays, the binds and the
\* arrivals do: no acceptor misses the signal and no drain outlasts its grace.
ShutdownCompletes == signal ~> main = "exited"

\* An acceptor that has a connection in hand comes back to its select!, even
\* when the proxy is saturated with connections that never end.
AcceptLoopNeverStalls ==
  \A p \in Proxies, a \in Acceptors :
    acc[p][a] \in {"permit", "spawn"} ~> acc[p][a] \in {"select", "stopped"}
=============================================================================
