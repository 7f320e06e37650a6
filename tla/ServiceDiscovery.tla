-------------------------- MODULE ServiceDiscovery --------------------------
(***************************************************************************)
(* ServiceDiscovery::resolve (discovery/dns.rs): the DNS cache and the     *)
(* leader election that is to keep lookups of a name single-flight.        *)
(*                                                                         *)
(* One name is modelled: both maps are keyed by name and nothing crosses   *)
(* names.  Each element of Callers makes one call.  A call's program       *)
(* counter names its next access to the cache, to the in_flight map or to  *)
(* its semaphore; each access is atomic, and calls run on several threads. *)
(***************************************************************************)
EXTENDS Naturals, Sequences, FiniteSets

CONSTANTS
  Callers,    \* calls of resolve, all for the one name
  None,       \* no caller
  CanFail,    \* whether a lookup may fail
  CanExpire,  \* whether the TTL may run out during the behaviour
  CanClear    \* whether clear_cache may be called

ASSUME DiscoveryAssumption ==
  /\ IsFiniteSet(Callers)
  /\ None \notin Callers
  /\ {CanFail, CanExpire, CanClear} \subseteq BOOLEAN

VARIABLES
  pc,        \* where each call is
  sem,       \* the semaphore a call cloned; semaphores bear their creator's name
  inFlight,  \* the name's entry in in_flight, None if absent
  holder,    \* who has the permit of each semaphore
  waiters,   \* who waits for it, in order
  cache,     \* the name's cache entry
  ok,        \* whether the call's own lookup succeeded (leaders)
  source,    \* the call whose lookup the answer came from, None if no answer yet
  overlap,   \* calls that were running during this one (history)
  cleared    \* the calls during which clear_cache was called (history)

vars == <<pc, sem, inFlight, holder, waiters, cache, ok, source, overlap, cleared>>

\* A cache entry: who looked it up, whether that gave endpoints, and its age.
Entries  == [by : Callers, ok : BOOLEAN, fresh : BOOLEAN]
NoEntry  == [by |-> None, ok |-> FALSE, fresh |-> FALSE]

Labels   == {"idle", "entry", "try", "lookup", "insert", "remove", "release",
             "wait", "drop", "done", "failed"}
Returned == {"done", "failed"}

Running  == {c \in Callers : pc[c] \notin Returned \cup {"idle"}}

TypeOK ==
  /\ pc \in [Callers -> Labels]
  /\ sem \in [Callers -> Callers \cup {None}]
  /\ inFlight \in Callers \cup {None}
  /\ holder \in [Callers -> Callers \cup {None}]
  /\ waiters \in [Callers -> Seq(Callers)]
  /\ cache \in Entries \cup {NoEntry}
  /\ ok \in [Callers -> BOOLEAN]
  /\ source \in [Callers -> Callers \cup {None}]
  /\ overlap \in [Callers -> SUBSET Callers]
  /\ cleared \subseteq Callers

Init ==
  /\ pc = [c \in Callers |-> "idle"]
  /\ sem = [c \in Callers |-> None]
  /\ inFlight = None
  /\ holder = [s \in Callers |-> None]
  /\ waiters = [s \in Callers |-> <<>>]
  /\ cache = NoEntry
  /\ ok = [c \in Callers |-> FALSE]
  /\ source = [c \in Callers |-> None]
  /\ overlap = [c \in Callers |-> {}]
  /\ cleared = {}

Goto(c, label) == pc' = [pc EXCEPT ![c] = label]

-----------------------------------------------------------------------------
(* resolve *)

Usable(e) == e # NoEntry /\ e.fresh /\ e.ok

\* Mutant: a fresh entry without endpoints is answered from the cache too.
CheckCacheNegative(c) ==
  /\ pc[c] = "idle"
  /\ \/ /\ cache.fresh
        /\ Goto(c, IF cache.ok THEN "done" ELSE "failed")
        /\ source' = [source EXCEPT ![c] = cache.by]
        /\ UNCHANGED overlap
     \/ /\ ~cache.fresh
        /\ Goto(c, "entry")
        /\ overlap' = [d \in Callers |-> IF d = c THEN Running \cup {c}
                                         ELSE IF d \in Running THEN overlap[d] \cup {c}
                                         ELSE overlap[d]]
        /\ UNCHANGED source
  /\ UNCHANGED <<sem, inFlight, holder, waiters, cache, ok, cleared>>

\* The fast path.  From here on the call overlaps those that are running.
CheckCache(c) ==
  /\ pc[c] = "idle"
  /\ \/ /\ Usable(cache)
        /\ Goto(c, "done")
        /\ source' = [source EXCEPT ![c] = cache.by]
        /\ UNCHANGED overlap
     \/ /\ ~Usable(cache)
        /\ Goto(c, "entry")
        /\ overlap' = [d \in Callers |-> IF d = c THEN Running \cup {c}
                                         ELSE IF d \in Running THEN overlap[d] \cup {c}
                                         ELSE overlap[d]]
        /\ UNCHANGED source
  /\ UNCHANGED <<sem, inFlight, holder, waiters, cache, ok, cleared>>

\* in_flight.entry(name).or_insert_with(...).clone().
GetSemaphore(c) ==
  /\ pc[c] = "entry"
  /\ inFlight' = IF inFlight = None THEN c ELSE inFlight
  /\ sem' = [sem EXCEPT ![c] = inFlight']
  /\ Goto(c, "try")
  /\ UNCHANGED <<holder, waiters, cache, ok, source, overlap, cleared>>

\* try_acquire, and for those it refuses the acquire that queues them up.
TryAcquire(c) ==
  /\ pc[c] = "try"
  /\ \/ /\ holder[sem[c]] = None
        /\ holder' = [holder EXCEPT ![sem[c]] = c]
        /\ Goto(c, "lookup")
        /\ UNCHANGED waiters
     \/ /\ holder[sem[c]] # None
        /\ waiters' = [waiters EXCEPT ![sem[c]] = Append(@, c)]
        /\ Goto(c, "wait")
        /\ UNCHANGED holder
  /\ UNCHANGED <<sem, inFlight, cache, ok, source, overlap, cleared>>

\* resolver.lookup(name) returns.
LookupReturns(c) ==
  /\ pc[c] = "lookup"
  /\ \E success \in BOOLEAN :
       /\ success \/ CanFail
       /\ ok' = [ok EXCEPT ![c] = success]
  /\ Goto(c, "insert")
  /\ UNCHANGED <<sem, inFlight, holder, waiters, cache, source, overlap, cleared>>

\* Mutant: only a success is cached.
InsertOnlySuccess(c) ==
  /\ pc[c] = "insert"
  /\ cache' = IF ok[c] THEN [by |-> c, ok |-> TRUE, fresh |-> TRUE] ELSE cache
  /\ source' = [source EXCEPT ![c] = c]
  /\ Goto(c, "remove")
  /\ UNCHANGED <<sem, inFlight, holder, waiters, ok, overlap, cleared>>

\* The leader caches its result, a failure as an entry without endpoints.
InsertResult(c) ==
  /\ pc[c] = "insert"
  /\ cache' = [by |-> c, ok |-> ok[c], fresh |-> TRUE]
  /\ source' = [source EXCEPT ![c] = c]
  /\ Goto(c, "remove")
  /\ UNCHANGED <<sem, inFlight, holder, waiters, ok, overlap, cleared>>

\* Mutant: a failed leader returns early and leaves its semaphore in the map.
RemoveOnSuccess(c) ==
  /\ pc[c] = "remove"
  /\ inFlight' = IF ok[c] THEN None ELSE inFlight
  /\ Goto(c, "release")
  /\ UNCHANGED <<sem, holder, waiters, cache, ok, source, overlap, cleared>>

\* in_flight.remove(name) removes what the map holds under the name by now.
RemoveInFlight(c) ==
  /\ pc[c] = "remove"
  /\ inFlight' = None
  /\ Goto(c, "release")
  /\ UNCHANGED <<sem, holder, waiters, cache, ok, source, overlap, cleared>>

\* Dropping a permit hands it to the first waiter, if there is one.
GiveBack(s) ==
  IF waiters[s] = <<>>
  THEN holder' = [holder EXCEPT ![s] = None] /\ UNCHANGED waiters
  ELSE /\ holder' = [holder EXCEPT ![s] = Head(waiters[s])]
       /\ waiters' = [waiters EXCEPT ![s] = Tail(@)]

\* Mutant: the leader forgets its permit.
LeaderKeepsPermit(c) ==
  /\ pc[c] = "release"
  /\ Goto(c, IF ok[c] THEN "done" ELSE "failed")
  /\ UNCHANGED <<sem, inFlight, holder, waiters, cache, ok, source, overlap, cleared>>

\* The leader returns, and its permit is dropped.
LeaderReturns(c) ==
  /\ pc[c] = "release"
  /\ GiveBack(sem[c])
  /\ Goto(c, IF ok[c] THEN "done" ELSE "failed")
  /\ UNCHANGED <<sem, inFlight, cache, ok, source, overlap, cleared>>

\* A waiter gets the permit and takes what the cache holds, expired or not.
WaiterReads(c) ==
  /\ pc[c] = "wait"
  /\ holder[sem[c]] = c
  /\ source' = [source EXCEPT ![c] = cache.by]
  /\ ok' = [ok EXCEPT ![c] = cache.ok]
  /\ Goto(c, "drop")
  /\ UNCHANGED <<sem, inFlight, holder, waiters, cache, overlap, cleared>>

WaiterReturns(c) ==
  /\ pc[c] = "drop"
  /\ GiveBack(sem[c])
  /\ Goto(c, IF ok[c] THEN "done" ELSE "failed")
  /\ UNCHANGED <<sem, inFlight, cache, ok, source, overlap, cleared>>

-----------------------------------------------------------------------------
\* The TTL of the cached entry runs out.
Expire ==
  /\ CanExpire
  /\ cache.fresh
  /\ cache' = [cache EXCEPT !.fresh = FALSE]
  /\ UNCHANGED <<pc, sem, inFlight, holder, waiters, ok, source, overlap, cleared>>

ClearCache ==
  /\ CanClear
  /\ cache # NoEntry
  /\ cache' = NoEntry
  /\ cleared' = cleared \cup Running
  /\ UNCHANGED <<pc, sem, inFlight, holder, waiters, ok, source, overlap>>

Step(c) ==
  \/ CheckCache(c) \/ GetSemaphore(c) \/ TryAcquire(c) \/ LookupReturns(c)
  \/ InsertResult(c) \/ RemoveInFlight(c) \/ LeaderReturns(c)
  \/ WaiterReads(c) \/ WaiterReturns(c)

Next == (\E c \in Callers : Step(c)) \/ Expire \/ ClearCache

Spec == Init /\ [][Next]_vars

\* Running tasks are polled, and a lookup answers or times out.
FairSpec == Spec /\ \A c \in Callers : WF_vars(Step(c))

-----------------------------------------------------------------------------
(* Properties *)

\* The cache was cleared during a call that this one overlaps, or during itself.
ClearedUnder(c) == overlap[c] \cap cleared # {}

\* A waiter is answered by a lookup that a call overlapping its own made, never
\* by an older one, although it does not look at the age of the entry; it goes
\* without an answer only if the cache was cleared under it or its leader.
WaiterAnsweredByOverlap ==
  \A c \in Callers : pc[c] \in {"drop"} \cup Returned /\ overlap[c] # {} =>
    source[c] \in overlap[c] \/ (source[c] = None /\ ClearedUnder(c))

\* Whoever is told that the lookup failed overlapped a call whose lookup did
\* fail, or one that lost its entry to clear_cache: no failure is served from an
\* entry of the past.
FailureIsCurrent ==
  \A c \in Callers : pc[c] = "failed" =>
    ClearedUnder(c) \/ \E d \in overlap[c] : source[d] = d /\ ~ok[d]

\* A semaphore in the in_flight map has a leader to come or at work, who will take
\* the entry out: none is left behind when nobody resolves the name, and a call
\* that finds one there never waits on a leader that is already through.
MappedSemaphoreIsLive ==
  inFlight # None =>
    \E c \in Callers : sem[c] = inFlight /\ pc[c] \in {"try", "lookup", "insert", "remove"}

\* Every call returns: nobody waits on a permit that is never handed on.
ResolveTerminates == \A c \in Callers : (pc[c] # "idle") ~> (pc[c] \in Returned)

\* "Single-flight — at most one DNS lookup per name at a time."
SingleFlight == Cardinality({c \in Callers : pc[c] = "lookup"}) <= 1
=============================================================================
