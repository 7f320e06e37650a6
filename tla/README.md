# Interlink: a TLA+ model of the proxy

Interlink is a sidecar that carries the TCP connections of a workload over
mutual TLS between SPIFFE identities. This directory models its concurrent parts
in TLA+, checks them with TLC on small instances, and proves the safety properties
with TLAPS for every value of the constants.

## The system

| Part | Source | State | Operations |
| --- | --- | --- | --- |
| Outbound routing, tunnel pool | `proxy/outbound.rs`, `proxy/mux.rs` | tunnels per peer, creation locks, live counters, open-request channels | `route`, `try_tunnel_stream`, `establish`, `open_stream`, `register`, `evict`, `drive_client` |
| Admission and drain | `proxy/outbound.rs`, `proxy/tcp.rs`, `proxy/mod.rs` | permits, active count, acceptors | `run`, `handle_accept`, `wait_for_graceful_shutdown` |
| Process | `main.rs`, `common/config.rs` | the configuration, the identity, the shutdown watch, three task handles | `load`, `validate`, start, signal, joins |
| Admin server | `admin/mod.rs` | its task | `/reload`, shutdown |
| Inbound handler | `proxy/tcp.rs`, `proxy/mux.rs` | one connection or tunnel, its metrics | `handle_connection`, `serve_tunnel`, `relay_stream_to_upstream` |
| Service discovery | `discovery/dns.rs` | cache, in-flight semaphores | `resolve`, `clear_cache` |
| Credential reload | `proxy/reload.rs`, `proxy/verify.rs` | the published generation, the reload lock | `reload`, `build_generation`, `connect`, `accept` |
| Segment patterns | `common/identity.rs` | none | `SegmentGlob::new`, `matches` |
| TLS handshakes | `proxy/handshake.rs`, `proxy/verify.rs` | resumable sessions, the identity cache | `connect`, `accept`, `extract_identity_from_tls_stream` |
| Policy engine | `policy/mod.rs` | namespace rules, global rules | `evaluate`, `add_namespace_rule`, `set_global_policies` |
| SPIFFE identities | `common/identity.rs`, `identity/ca/mod.rs` | none | `from_uri`, `to_uri`, `CompiledPattern`, `issue_leaf` |

The parts interact as follows. `main` loads the configuration, derives the
workload's identity, loads the first credentials and builds the policy; it starts
the admin server and both proxies and later tells them to stop. Acceptors admit connections under the limit. An
outbound handler resolves its upstream, then takes a stream of a shared tunnel
or makes a connection of its own. The peer's inbound handler accepts it, checks
the policy and relays. Every handshake uses the credential generation published
at its start, and yields the identity that the policy engine judges.

What is hard in it: picks and growth of the pool separated by awaits, tunnels
that die at any moment, late evictions, a leader election whose semaphore is
removed while others hold it, acceptors that race for the last permit and with
the signal, files replaced while they are read, sessions and cached identities
that outlive a reload, a policy read in two steps, identities derived in several
places from text, and index arithmetic over overlapping anchors. `PROJECT.json` lists each hazard with its line and the
properties that cover it.

## Modules

Every module is a state machine whose program counters name the await points of
the tasks and, between them, the accesses to shared state. `MC*.tla` add
symmetry sets for TLC. Operators marked "Mutant" are deliberately wrong variants
of the definition that follows them; each breaks a property, which shows that
the property depends on that line of code.

**MuxPool** models one upstream address: pool entries and locks of different
addresses share only the id counter. `pool` is a set of ids, since the `Vec` is
in id order. A pick is one atomic snapshot. At most `Workers` handlers are
between two await points; drivers take no worker, which allows more
interleavings than the runtime. `send` counts as an await point also when the
channel has room. The driver's answer and the requester's wake-up are one step.
Handlers are never aborted, so `req.is_closed()` is never true and that branch
is left out. `Pending` from yamux leaves the request in the stash.
yamux's behaviour at its stream limit (error, session closed) is external; the
lag with which it forgets closed streams is left out. `TunnelBound` bounds the
tunnels of a behaviour.

**ServiceDiscovery** models one name: the cache, the semaphore map and tokio's
first-in first-out hand-over of a permit. An answer is identified by the call
whose lookup produced it. `overlap` and `cleared` are history: the calls that ran at
some time of a call, and the calls during which `clear_cache` was called. What the
properties say of a clearing excuses only the calls that overlap one it fell into.

**ProxyLifecycle** models `main`, the admin server, both proxies, their
acceptors, permits, the active count, and the drain. An arrival and its accept
are one step (the kernel's backlog is not modelled). The exit of the process
cuts the handlers that still run. `select!` may take a connection even when the
signal is up. The stream tasks of tunnels are not in it: they hold no permit and are
not counted, so admission and drain do not know of them. Inbound has them.

**Inbound** models a handler from its admission to its end and the streams of a
tunnel, which are tasks of their own. Bytes are numbered. The policy is the set
of peers it allows at present; the setters are the library's, `main` does not
call them after start. In `MCInboundGreeting.cfg` clients wait for the upstream's
greeting before they send.

**CredentialReload** models the contents of a file by the number of the issue it
belongs to. A file that is being rewritten is read as a failure; a truncated
bundle that still parses is left out. An expired certificate is a validation
that fails, at any time. The waiters of the reload lock are served in any order.
What a request has read is forgotten once it is no longer used.

**CredentialRegister** is the abstract specification of the reloader: one register
that is replaced in one step, by a value that is acceptable and not older, and
that each user reads once. CredentialReload implements it (`ImplementsRegister`),
with the generation in force for the register and a handshake's generation for
what its user read. TlsHandshake uses the reloader only as such a register
(`UsesRegister`), so it need not know how files are read.

**SpiffeIdentity** holds the pure operators for identities. A text is the sequence
of the segments between its slashes, so that formatting an identity as a URI is
concatenation, and the parser sees what the formatter produced: a trust domain
that itself holds slashes, a port or capitals does not read back as itself. Which
segments a segment with a star in it matches is the constant `Matched`; what is
assumed of it is what SegmentGlob's theorem `WholeSegments` says of the matcher.

**Startup** runs `main` from the config file to the two proxies. Its initial
states are all combinations of a file, an environment and credential files of the
instance. Each step is one that can fail, with an error or with a panic, which
aborts the process. `DerivedIdentity` is written once for the three places in the
code that derive it alike; each place is a step of its own.

**PolicyEngine** models `evaluate` as two reads, with changes of the rules between
them. `moments` and `crossed` are history: what the policy, read at once, said
during the call, and which changes fell between the reads.

**TlsHandshake** models both directions. A certificate stands for its DER bytes.
The session stores belong to the `ClientConfig` and `ServerConfig` of a generation,
as rustls keeps them; which handshakes resume is left open, and so is what the
identity cache evicts.

**PeerAdmission** composes the two: the identity that a handshake yields is the one
the policy engine judges, as source when it was accepted and as destination when
it was dialled, while reloads and policy changes go on.

**SegmentGlob** runs `new` and `matches` on every pattern and value up to a length.
An iteration of the scan in `new`, and of the search in `matches_multi`, is one step;
positions are those of characters, where the code counts bytes: a wildcard is one
byte, and no literal starts inside a character. `Means` is the reference: it says
nothing of literals, kinds or search, only that for every wildcard a word can be
chosen such that pattern and value become the same.

The proofs are in modules of their own: **MuxPoolProofs**, **CredentialReloadProofs**,
**PeerAdmissionProofs**, **StartupProofs**, **ProxyLifecycleProofs**,
**ServiceDiscoveryProofs**, **InboundProofs** and **SegmentGlobProofs** are each about
the module they are named after. **MuxPoolInductive** has the layers of the pool's
inductive invariant.

## Runs

| Run | Instance | Shows |
| --- | --- | --- |
| `mux_pool` | 3 connections, 2 identities, soft cap 1, 2 tunnels in the pool, 3 in all, 2 workers | eight safety invariants of the pool and its types |
| `mux_live` | 2 connections, 1 tunnel in the pool, 2 in all | every connection gets a route; dead tunnels leave the pool for good |
| `discovery` | 3 callers, failures, expiry, clearing | answers and failures are those of overlapping calls; no semaphore is stranded; every call returns |
| `discovery_single_flight` | 3 callers, no failure, expiry or clearing | **violated**: two lookups at a time |
| `lifecycle` | 2 acceptors per proxy, 2 connections, limit 1 | the limit is exact; nothing is admitted after the drain began; the exit cuts only what outlasted its grace; the process ends after the signal; acceptors do not stall |
| `inbound` | 2 connections, 2 streams each, 2 bytes, detection buffer of 2 | metrics, order of bytes, nothing forwarded before the check; what was sent reaches an upstream that goes on reading |
| `inbound_server_first` | 1 connection | **violated**: a server-first protocol waits for ever |
| `reload` | 2 requests, 1 handshake, 3 issues, one foreign, a change of root | the reloader implements the register, so generations are sound and replaced as a whole; they never go back and are used once acknowledged; every request is answered |
| `reload_chain` | an issue under an intermediate | **violated**: what is validated is not what is served |
| `segment_glob` | 2 letters and the wildcard, patterns up to 6, values up to 4 | the matcher agrees with its meaning and slices in range |
| `startup` | 14 files, 1388 environments, 55 sets of credentials | a serving process has one identity, the configured one if there is one, and admits its replicas, with what a star in its identity stands for; the one panic left is the semaphore's |
| `admission` | 2 connections, 4 leaves, 2 generations with different roots, 2 contradicting rules | peers are verified under the generation loaded, with their own identity, in their role; a decision is that of some moment of the call; namespace rules are stable |

Bounds. Three connections with two tunnels of one stream make the pool full,
overshoot the soft cap and reach `pick_any`; two retries see two dead tunnels.
Three callers are a leader, its waiter and a caller that leads anew. Two
acceptors and a limit of one race for the last permit. Of two bytes
detection takes both, or one and the relay the other. Patterns of six characters hold three
literals between wildcards and both anchors; values of four let anchors overlap and
literals be found twice, and hold stars, as segments of identities may. The texts of
`startup` have every shape that the parser tells apart, with a star for a name, and
with one inside the namespace or the service account. Two generations and leaves of both
roots are what a stale session or a stale cache entry needs; two connections fill
the cache for one another; two rules and one global list reach every order of
changes between the two reads.

`DecisionOfSomeMoment` states its exception: when a rule is added to the
destination's namespace after the first read and the global list is replaced
before the second, the answer may be one the policy gave at no moment. Two
separate setters, of which `main` uses neither after start, cannot be made to look
like one change by two reads.

Violated runs state what a document or comment of the repository says;
`PROJECT.json` quotes it. More differences between documents and code were met
while modelling and have no run:

- `ready` starts true and `main` never calls `set_ready`, so `/readyz` answers 200
  after a proxy failed to bind; `src/admin/mod.rs:14` says "200 when proxies are
  accepting traffic".
- `serve_tunnel` relays every stream of a tunnel that was judged once;
  `docs/architecture/overview.md:36` says "each stream policy-checked".
- `pick_any` does not look at the hard cap, which `src/proxy/outbound.rs:374` says
  its choice is under; reaching the cap takes more than 16 x 512 connections to
  one peer, above the default limit of 1024.
- `InboundUpstream` takes the proxy's own address, where
  `docs/architecture/overview.md:32` has a self-connect guard.
- The inbound proxy prefers the default upstream to `SO_ORIGINAL_DST`; `README.md:97`
  calls it a fallback "when `SO_ORIGINAL_DST` is unavailable".
- The policy that `main` builds compiles the workload's own identity as a pattern, and
  `from_uri` accepts a star in a name, so a workload whose namespace or service account
  is `web*` also exchanges traffic with `webapp`; `src/main.rs:72` says "peers
  presenting this workload's exact SPIFFE identity". `OnlyReplicasAllowed` says how far
  this goes: without its disjunct `IsGlob(expected)` TLC finds it violated in `startup`.
- With a default upstream the inbound proxy has no discovery, so a default that is
  a hostname cannot be resolved there (`main.rs:109`).

`TypeOK` is a property of `mux_pool`, where it says that no counter goes below
zero. In the other modules it is no property of a run; it is proved for the reloader,
the life of the process, discovery, the inbound handler and the segment patterns.
`LockHeldByCreator` and
`GenerationSound` are proved and not repeated in a run: `RouteCompletes` fails when
a lock is kept, and `ImplementsRegister` contains the second.

Deadlock is checked in the MuxPool runs, where the policy can always change. It
is not in the others, which end when all calls, connections or requests of the
instance are over.

Fairness. Tasks that can run are polled. In MuxPool the steps of a route are
strongly fair, because the creation lock and the channel serve waiters in order;
handshakes end, as TLS has a timeout and the TCP connect that of the operating
system. DNS lookups answer or time out. Nothing is assumed of relays, arrivals,
sessions, the peers, the rotator or the signal. In particular a write to a socket need
not complete, as an upstream or a client may stop reading: the specification of Inbound
has no fairness for `Forward`, `CopyUp` and `CopyDown`. `BytesDelivered` makes the
assumption where it needs it, for the one connection it speaks of: if that upstream goes
on reading (`UpstreamReads`), it gets every byte. `GreetingRelayed` is violated although
both ends go on reading.

## Proofs

The proofs about the pool assume only `MuxAssumption`: finitely many connections, positive
caps and queue lengths, and a `None` that is neither a connection nor an
identity. It also covers `MuxEnabled = FALSE`, which no run does.

Its inductive invariant is built in layers, each preserved with the help of the
ones before it:

1. `TypeWeak`: types, with counters as integers.
2. `Registration`: only ids that were handed out are used.
3. `Requests`: what is queued or stashed is exactly what handlers wait on.
4. `Sessions`: only a tunnel whose session is down is given up on.
5. `Locking`: between `can_grow` and `register` a handler holds the lock, and
   the room it saw is still there, because only lock holders add tunnels.
6. `Retries`: every iteration spent is a tunnel that is dead and out of the pool.
7. `Authorization`: a handler was cleared for its tunnel's identity.
8. `SoftCap`: the handlers committed to a tunnel exceed the cap by at most the
   other workers.

`LiveExact` is proved beside them, and with `TypeWeak` and `Retries` gives
`TypeOK`: counters never go below zero. The theorems are `TypeCorrect`,
`PoolSafe`, `EstablishmentSingleFlight`, `CreateLockSafe`, `LoadExact`,
`EvictionSafe`, `SoftCapSafe`, `RequestsSafe`, `RelaySafe` and `RetriesSafe`, and
about steps `DeadTunnelsStayOut`: what is dead and out of the pool stays so, which is
what lets a retry be charged to a tunnel once and for all, and the "for good" of
`DeadLeavesPool`.

The proofs about the reloader assume only `ReloadAssumption`: issues are numbers up
to some bound, the first one carries the own identity, and `None` is neither a
request nor what a handshake holds. The number of requests, handshakes and issues
is arbitrary. The inductive invariant adds to the properties:

1. `Types`, with a file that is being rewritten short of the last issue.
2. `Exclusion`: whoever is between the acquisition of the lock and its end holds it.
3. `Checked`: what is about to be stored is valid.
4. `Ages`: from the generation in force through what the lock's holder has read to
   the disk, contents only get newer, and what was on disk when a request came is
   no newer than what the request then reads.

`Ages` is what makes a store a step forward: nothing can be stored between a
request's reads and its store, because it holds the lock. The theorems are
`PublishedIsSound`, `AckedIsUsed`, `NeverGoesBack`, `TypesAreKept` and
`ReloaderImplementsRegister`; the last maps a store to `Publish`, a handshake to `Read` and every other step to a
stutter.

The proofs about admission (`PeerAdmissionProofs`) assume what the modules say of
their constants: the two parts name connections alike, decisions and rules have
their types, and `None` is no certificate and no decision. How an identity is read
from a leaf is never used. For the handshakes the invariant is

1. `Progress`: which fields a handshake has filled at each step;
2. `Verified`: every session that can be resumed was verified under its generation,
   by the side that may resume it, and so was the leaf of every handshake. This is
   what carries `PeerVerified` over resumption, where nothing is checked;
3. `Identified`: every cache entry names the owner of its leaf, so hits and misses
   cannot be told apart.

For the decisions, the history variables are related to the rules: what the first
read saw is still what the namespace's rules say of the pair, unless a rule was added.
That rules are appended matters here, and that the first match wins: the first match
of a longer list is the first match of the shorter one if that has any, a fact about
sequences that is proved from the least position at which they differ. The theorems
are `PeersAreVerified`, `PeersAreJudged`, `HandshakesUseRegister`,
`DecisionsAreAtomic` and `NamespaceDecisionsStay`.

The proofs about the start (`StartupProofs`) hold for any segments, configuration
layers and credential files of the right types (`SegmentAssumption`,
`StartupAssumption`). Beside an invariant that says what each step of `main` has
established for the next, they need one fact about texts: an identity that `from_uri`
returned has three segments, the first in lower case (`Proper`), and such an identity
is printed by `to_uri` as a URI that both `from_uri` and the pattern compiler read as
that identity (`ReadsBack`). An identity made up from the trust domain need not be
proper, as a trust domain may hold anything. It is by the time it is printed, because
`build_generation` has compared it with the one read from the leaf; this is why the
unwraps in `patterns::allow` are safe. Of wildcards they use that a lone star matches
everything, a segment without a star itself only, and any segment itself. The theorems are `StartPanicsOnlyAtLimit`,
`ServingHasOneIdentity`, `ConfiguredIdentityIsUsed` and `PolicyAdmitsReplicasOnly`.

The proofs about the life of the process (`ProxyLifecycleProofs`) assume
`LifecycleAssumption`: finitely many acceptors and connections. The invariant adds:

1. `Stages`: main spawns and joins the proxies, and each proxy its acceptors, in
   order; a proxy that drains has no acceptor left;
2. `Hands`: a connection between accept and spawn is in the hand of exactly one
   acceptor;
3. `Arrivals`: a connection has the proxy that accepted it;
4. `CountExact`: `active_connections` is the number of handlers that count;
5. `Drained`: a proxy that has stopped has no handler left, or was forced.

`CountExact` turns the poll for zero into a fact about handlers, and `Stages` keeps it
true after the poll. The theorems are `LimitIsExact`, `DrainComesFirst`,
`AdmissionsEnd` and `TypesAreKept`.

The proofs about discovery (`ServiceDiscoveryProofs`) assume `DiscoveryAssumption`.
The invariant says who holds the permit of each semaphore (`Permits`), who is queued
for it (`Queues`), that the one in the map has a leader to come or at work (`Mapped`),
that the cached result is that of a leader which is still about to remove it
(`Current`), or was cleared during its call, and that whoever gets a permit second finds an entry of its own time
(`Served`). The last is what is hard: a semaphore is removed from the map while calls
still wait for it, and a new leader may then look the name up beside the old one. The
theorems are `WaitersGetCurrentAnswers`, `FailuresAreCurrent`,
`MappedSemaphoresAreLive` and `TypesAreKept`.

The proofs about the inbound handler (`InboundProofs`) assume `InboundAssumption`:
finitely many connections and streams, since the counters count them, and a detection
buffer that is not empty. The invariant has, for each connection,

1. `Stages`: before the policy check nothing has been read, written or accepted, and
   behind it the connection is allowed, as a tunnel or 1:1;
2. `Bytes`: what was written to the upstream is a prefix of what was read, and that
   of what was sent; detection has read and not yet written, and the relay has
   written all it read;
3. `Checked`: who has forwarded anything is allowed;

and `MetricsExact`, which is inductive with `Stages`: that a connection returning from
the relay is no tunnel is what makes it count. The theorems are `MetricsAreExact`,
`UpstreamsGetPrefixes`, `NothingIsForwardedUnchecked` and `TypesAreKept`; the last
rests on the first, which keeps the gauge from going below zero.

The proofs about segment patterns (`SegmentGlobProofs`) assume `GlobAssumption`: the
wildcard is no letter, and the bounds on the lengths are numbers. As these may be any,
the theorems hold for patterns and values of every length. No induction over words is
needed, because the loops are steps and `Means` is a choice of words:

1. `Rest(p, v, a, x)` says that what follows position `a` of `p` can stand for what
   follows offset `x` of `v`; it is a layout, a function from positions to offsets.
   `MeansIsRest` equates `Means` with `Rest` from zero. Lemmas say what a letter run
   and a run of wildcards do to it (`RestRun`, `RestStars`), and that before a wildcard
   an earlier offset is as good as a later one (`RestEarlier`).
2. `GreedyStep` follows: between two wildcards, a literal may be taken at its first
   place before the suffix without losing a match, and without such a place there is
   none. `RestTail` is its counterpart for the suffix itself.
3. `Cut` says what the scan has made of the pattern up to a position: nonempty literals
   without wildcards, in order, with nothing but wildcards between them. `Splitting`
   is the invariant of the scan, and `Compiled` its result with the kind.
4. `Searching` is the invariant of `matches_multi`: the suffix lies at the end, the
   bounds are in order, and the answer is whether what is left of the pattern, from
   the end of the last literal found, can stand for what is left of the value.

The theorems are `MatchesMeaning`, `SlicesHold` and `TypeCorrect`. `MatchingIsLinear`
gives a number that every step lowers and that starts at `2 * Len(pattern) + 5`, so
that both functions end without an assumption of fairness other than that they run.
`WholeSegments` ties the module to SpiffeIdentity, which assumes of `Matched` the three
cases it states.

Only model-checked: the liveness properties (`RouteCompletes`, `DeadLeavesPool`,
`ResolveTerminates`, `ShutdownCompletes`, `AcceptLoopNeverStalls`, `BytesDelivered`,
`ReloadAnswered`), which are out of the prover's reach, and what the three violated
runs show. Every other property of a run is also a theorem.

## Not modelled

- An outbound proxy's tunnel composed with the peer's inbound handler: each side is
  modelled against any behaviour of the other, and they share no state but the bytes.
- The verdict of the protocol detector and the metrics other than the inbound
  connection counters are written and never read by the program.
- The identity providers return what they were made with; `main` does not use the
  Kubernetes one.
- Key generation, signatures and path validation are cryptography; the model has
  what they decide.
- The parsing of addresses and of HTTP request lines keeps no state, and a unit
  test reaches each of its cases. The admin server's answers under way when the
  process ends are cut, which the model leaves out.
- Logging, the metrics exporter and the error type have no effect on the others.
