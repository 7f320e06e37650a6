----------------------- MODULE ServiceDiscoveryProofs -----------------------
(***************************************************************************)
(* Proofs about ServiceDiscovery: what a call that waited for somebody     *)
(* else's lookup is answered with, and who answers for a semaphore in the  *)
(* in_flight map, for any number of calls.                                 *)
(***************************************************************************)
EXTENDS ServiceDiscovery, TLAPS

Leading == {"lookup", "insert", "remove", "release"}
Holding == Leading \cup {"wait", "drop"}

\* The permit of a semaphore is with the call that is past its acquisition, and
\* a call's own semaphore is nobody's before the call has created it.
Permits ==
  /\ \A c \in Callers :
       /\ pc[c] \in Holding \cup {"try"} => sem[c] \in Callers
       /\ pc[c] \in Leading \cup {"drop"} => holder[sem[c]] = c
       /\ pc[c] \in {"idle", "entry"} => \A d \in Callers : sem[d] # c
  /\ \A s \in Callers :
       holder[s] # None => sem[holder[s]] = s /\ pc[holder[s]] \in Holding

\* Who is queued waits there, once, and has not got the permit yet.
Queues ==
  \A s \in Callers : \A i \in 1..Len(waiters[s]) :
    /\ pc[waiters[s][i]] = "wait" /\ sem[waiters[s][i]] = s
    /\ holder[s] # waiters[s][i]
    /\ \A j \in 1..Len(waiters[s]) : waiters[s][j] = waiters[s][i] => j = i

\* The semaphore in the map has a leader to come, or one that has not got round
\* to removing it.
Mapped ==
  inFlight # None =>
    \/ holder[inFlight] = None /\ \E c \in Callers : pc[c] = "try" /\ sem[c] = inFlight
    \/ holder[inFlight] \in Callers /\ pc[holder[inFlight]] \in {"lookup", "insert", "remove"}

\* As long as a leader is about to remove the semaphore from the map, so is the
\* one whose result is cached; or the cache was cleared during its call.
Current ==
  inFlight # None /\ holder[inFlight] \in Callers /\ pc[holder[inFlight]] = "remove" =>
    \/ cache = NoEntry /\ holder[inFlight] \in cleared
    \/ cache # NoEntry /\ pc[cache.by] = "remove"

\* Calls that run at the same time know of each other.
Overlaps ==
  \A c \in Callers :
    /\ pc[c] = "idle" => overlap[c] = {}
    /\ c \in Running => Running \subseteq overlap[c]

\* A call that is its own source is past its lookup; such a call wrote the cache.
Lookups ==
  /\ \A c \in Callers :
       /\ source[c] = c => pc[c] \in {"remove", "release"} \cup Returned
       /\ pc[c] \in {"remove", "release"} => source[c] = c
  /\ cache # NoEntry => source[cache.by] = cache.by /\ ok[cache.by] = cache.ok

\* What the cache holds may be handed to c.
Serves(c) ==
  \/ cache # NoEntry /\ cache.by \in overlap[c]
  \/ cache = NoEntry /\ ClearedUnder(c)

\* Whoever is to get the permit second finds an entry of its own time.
Served ==
  \A c \in Callers : pc[c] \in {"try", "wait"} =>
    \/ holder[sem[c]] = None
    \/ pc[holder[sem[c]]] \in {"lookup", "insert"}
    \/ Serves(c)

\* A failure that is about to be returned has somebody's failed lookup behind it.
Failed ==
  \A c \in Callers : pc[c] \in {"drop", "failed"} /\ ~ok[c] =>
    ClearedUnder(c) \/ \E d \in overlap[c] : source[d] = d /\ ~ok[d]

\* A returned call's ok is its answer.
Told == \A c \in Callers : pc[c] = "failed" => ~ok[c]

Inv ==
  /\ TypeOK /\ Permits /\ Queues /\ Mapped /\ Current /\ Overlaps /\ Lookups
  /\ Served /\ Failed /\ Told /\ WaiterAnsweredByOverlap

-----------------------------------------------------------------------------
\* One entry of a function changes.
LEMMA PutAt ==
  ASSUME NEW S, NEW T, NEW f \in [S -> T], NEW i \in S, NEW v \in T, NEW g,
         g = [f EXCEPT ![i] = v]
  PROVE  g \in [S -> T] /\ g[i] = v /\ \A j \in S \ {i} : g[j] = f[j]
BY Zenon

\* The types of the single entries.
LEMMA Typed ==
  ASSUME TypeOK, NEW c \in Callers
  PROVE  /\ pc[c] \in Labels /\ ok[c] \in BOOLEAN /\ overlap[c] \subseteq Callers
         /\ sem[c] \in Callers \cup {None} /\ holder[c] \in Callers \cup {None}
         /\ source[c] \in Callers \cup {None}
         /\ waiters[c] \in Seq(Callers)
         /\ \A i \in 1..Len(waiters[c]) : waiters[c][i] \in Callers
BY DEF TypeOK

\* A cache entry names a call.
LEMMA EntryBy ==
  ASSUME TypeOK
  PROVE  /\ cache # NoEntry => cache.by \in Callers /\ cache.ok \in BOOLEAN
         /\ cache = NoEntry => cache.by = None /\ cache.ok = FALSE /\ cache.fresh = FALSE
BY DEF TypeOK, Entries, NoEntry

\* A call that takes a step goes to its next label; the others stay.
LEMMA Goes ==
  ASSUME TypeOK, NEW c \in Callers, NEW l \in Labels, Goto(c, l)
  PROVE  pc' \in [Callers -> Labels] /\ pc'[c] = l /\ \A d \in Callers \ {c} : pc'[d] = pc[d]
BY Zenon DEF Goto, TypeOK

\* Some call that is not through uses the semaphore in the map.
LEMMA MappedHasUser ==
  ASSUME Permits, Mapped, inFlight \in Callers
  PROVE  \E c \in Callers :
           sem[c] = inFlight /\ pc[c] \in {"try", "lookup", "insert", "remove"}
<1>1. CASE holder[inFlight] \in Callers /\ pc[holder[inFlight]] \in {"lookup", "insert", "remove"}
  BY <1>1, DiscoveryAssumption, Zenon DEF Permits
<1>. QED  BY <1>1, DiscoveryAssumption, Zenon DEF Mapped

\* What is left of a queue without repetitions when its first has gone.
LEMMA TailOfQueue ==
  ASSUME NEW S, NEW q \in Seq(S), q # <<>>,
         \A i, j \in 1..Len(q) : q[i] = q[j] => i = j
  PROVE  /\ Tail(q) \in Seq(S) /\ Head(q) \in S
         /\ \E k \in 1..Len(q) : Head(q) = q[k]
         /\ \A i \in 1..Len(Tail(q)) :
              /\ \E k \in 1..Len(q) : Tail(q)[i] = q[k]
              /\ Tail(q)[i] # Head(q)
              /\ \A j \in 1..Len(Tail(q)) : Tail(q)[j] = Tail(q)[i] => j = i
<1>1. /\ Tail(q) \in Seq(S) /\ Head(q) = q[1] /\ q[1] \in S /\ 1 \in 1..Len(q)
      /\ Len(q) \in Nat /\ Len(Tail(q)) = Len(q) - 1
  OBVIOUS
<1>2. \A i \in 1..Len(Tail(q)) : i + 1 \in 1..Len(q) /\ i + 1 # 1 /\ Tail(q)[i] = q[i + 1]
  BY <1>1
<1>3. \A i, j \in 1..Len(Tail(q)) : i + 1 = j + 1 => i = j
  BY <1>1
<1>. QED  BY <1>1, <1>2, <1>3, Zenon

\* A call that does not wait, or waits no longer, stands in no queue.
LEMMA NotQueued ==
  ASSUME TypeOK, Queues, NEW c \in Callers, pc[c] # "wait" \/ holder[sem[c]] = c
  PROVE  \A s \in Callers : \A i \in 1..Len(waiters[s]) : waiters[s][i] # c
BY DEF Queues

\* A step of such a call that leaves the queues alone keeps them in order.
LEMMA QueuesStay ==
  ASSUME TypeOK, Queues, NEW c \in Callers,
         \A s \in Callers : \A i \in 1..Len(waiters[s]) : waiters[s][i] # c,
         waiters' = waiters,
         \A d \in Callers \ {c} : pc'[d] = pc[d] /\ sem'[d] = sem[d],
         \A s \in Callers : holder'[s] = holder[s] \/ holder'[s] = c
  PROVE  Queues'
<1> SUFFICES ASSUME NEW s \in Callers, NEW i \in 1..Len(waiters[s])
             PROVE  /\ pc'[waiters[s][i]] = "wait" /\ sem'[waiters[s][i]] = s
                    /\ holder'[s] # waiters[s][i]
                    /\ \A j \in 1..Len(waiters[s]) : waiters[s][j] = waiters[s][i] => j = i
  BY DEF Queues
<1>1. waiters[s][i] \in Callers \ {c}
  BY Typed, Zenon
<1>. QED  BY <1>1 DEF Queues

\* Calls only leave the set of those that run, and no history is forgotten.
LEMMA OverlapsStay ==
  ASSUME Overlaps, overlap' = overlap, Running' \subseteq Running,
         \A d \in Callers : pc'[d] = "idle" => pc[d] = "idle"
  PROVE  Overlaps'
BY Zenon DEF Overlaps

\* Nothing is cached, mapped or held before the first call.
LEMMA InvInit == Init => Inv
<1> SUFFICES ASSUME Init PROVE Inv
  BY Zenon
<1>1. TypeOK
  <2>1. waiters \in [Callers -> Seq(Callers)]
    BY DEF Init
  <2>2. pc \in [Callers -> Labels] /\ ok \in [Callers -> BOOLEAN]
    BY Zenon DEF Init, Labels
  <2>3. overlap \in [Callers -> SUBSET Callers]
    BY Zenon DEF Init
  <2>4. /\ sem \in [Callers -> Callers \cup {None}]
        /\ holder \in [Callers -> Callers \cup {None}]
        /\ source \in [Callers -> Callers \cup {None}]
    BY Zenon DEF Init
  <2>5. inFlight \in Callers \cup {None} /\ cache \in Entries \cup {NoEntry} /\ cleared \subseteq Callers
    BY Zenon DEF Init
  <2>. QED  BY <2>1, <2>2, <2>3, <2>4, <2>5, Zenon DEF TypeOK
<1>2. Permits /\ Queues /\ Mapped /\ Current
  BY DiscoveryAssumption
     DEF Init, Permits, Queues, Mapped, Current, Holding, Leading, NoEntry
<1>3. Overlaps /\ Lookups
  BY DiscoveryAssumption, Zenon DEF Init, Overlaps, Lookups, Running, Returned
<1>4. Served /\ Failed /\ Told /\ WaiterAnsweredByOverlap
  BY Zenon DEF Init, Served, Failed, ClearedUnder, Told, WaiterAnsweredByOverlap, Returned
<1>. QED  BY <1>1, <1>2, <1>3, <1>4, Zenon DEF Inv

\* The fast path answers from the cache; otherwise the call starts to overlap
\* with those that run.
LEMMA InvCheckCache ==
  ASSUME Inv, NEW c \in Callers, CheckCache(c)
  PROVE  Inv'
<1> USE DEF Inv
<1>1. /\ pc[c] = "idle" /\ pc' \in [Callers -> Labels] /\ pc'[c] \in {"done", "entry"}
      /\ \A d \in Callers \ {c} : pc'[d] = pc[d]
      /\ UNCHANGED <<sem, inFlight, holder, waiters, cache, ok, cleared>>
  <2>1. "done" \in Labels /\ "entry" \in Labels  BY Zenon DEF Labels
  <2>2. Goto(c, "done") \/ Goto(c, "entry")  BY Zenon DEF CheckCache
  <2>3. pc[c] = "idle" /\ UNCHANGED <<sem, inFlight, holder, waiters, cache, ok, cleared>>
    BY Zenon DEF CheckCache
  <2>. QED  BY <2>1, <2>2, <2>3, Goes, Zenon
<1>2. \/ /\ pc'[c] = "done" /\ overlap' = overlap
         /\ source' = [source EXCEPT ![c] = cache.by] /\ cache # NoEntry
      \/ /\ pc'[c] = "entry" /\ source' = source
         /\ overlap' = [d \in Callers |-> IF d = c THEN Running \cup {c}
                                          ELSE IF d \in Running THEN overlap[d] \cup {c}
                                          ELSE overlap[d]]
  BY Goes, Zenon DEF CheckCache, Usable, Labels
<1>3. /\ source' \in [Callers -> Callers \cup {None}]
      /\ \A d \in Callers \ {c} : source'[d] = source[d]
      /\ pc'[c] = "entry" => source'[c] = source[c]
  <2>1. source \in [Callers -> Callers \cup {None}]  BY Zenon DEF TypeOK
  <2>. QED  BY <1>2, <2>1, EntryBy, Zenon
<1>4. /\ overlap' \in [Callers -> SUBSET Callers]
      /\ \A d \in Callers : overlap[d] \subseteq overlap'[d]
      /\ pc'[c] = "done" => overlap'[c] = {}
      /\ \A d \in Callers \ {c} : d \notin Running => overlap'[d] = overlap[d]
  <2>1. overlap \in [Callers -> SUBSET Callers] /\ overlap[c] = {}
    BY <1>1, Zenon DEF TypeOK, Overlaps
  <2>2. Running \subseteq Callers  BY Zenon DEF Running
  <2>. QED  BY <1>2, <2>1, <2>2, Zenon
<1>5. TypeOK'
  BY <1>1, <1>3, <1>4, Zenon DEF TypeOK
<1>6. Permits'
  BY <1>1, Typed DEF Permits, Holding, Leading
<1>7. Queues'
  BY <1>1, NotQueued, QueuesStay, Zenon
<1>8. Mapped'
  BY <1>1, Zenon DEF Mapped
<1>9. Current'
  BY <1>1, EntryBy, Zenon DEF Current
<1>10. Overlaps'
  BY <1>1, <1>2, <1>4 DEF Overlaps, Running, Returned
<1>11. Lookups'
  BY <1>1, <1>3, EntryBy DEF Lookups, Returned
<1>0. \A d \in Callers : ClearedUnder(d) => ClearedUnder(d)'
  BY <1>1, <1>4, Zenon DEF ClearedUnder
<1>12. Served'
  BY <1>0, <1>1, <1>4, Typed DEF Served, Serves, Permits, Holding, Leading
<1>13. Failed' /\ Told'
  BY <1>0, <1>1, <1>3, <1>4, Typed DEF Failed, Told, Lookups, Returned
<1>14. WaiterAnsweredByOverlap'
  <2>1. \A d \in Callers \ {c} :
          pc[d] \in {"drop"} \cup Returned /\ overlap'[d] # {} => overlap[d] # {}
    BY <1>4, Zenon DEF Overlaps, Returned, Running
  <2>. QED  BY <1>0, <1>1, <1>3, <1>4, <2>1, Zenon DEF WaiterAnsweredByOverlap, Returned
<1>. QED  BY <1>5, <1>6, <1>7, <1>8, <1>9, <1>10, <1>11, <1>12, <1>13, <1>14, Zenon

\* or_insert_with puts the caller's own, unused semaphore into the map, or hands
\* out the one that is there, whose leader is not through.
LEMMA InvGetSemaphore ==
  ASSUME Inv, NEW c \in Callers, GetSemaphore(c)
  PROVE  Inv'
<1> USE DEF Inv
<1>1. /\ pc[c] = "entry" /\ pc' \in [Callers -> Labels] /\ pc'[c] = "try"
      /\ \A d \in Callers \ {c} : pc'[d] = pc[d]
      /\ UNCHANGED <<holder, waiters, cache, ok, source, overlap, cleared>>
  BY Goes, Zenon DEF GetSemaphore, Labels
<1>2. /\ inFlight' \in Callers
      /\ inFlight' = c \/ (inFlight' = inFlight /\ inFlight \in Callers /\ inFlight # None)
  BY DiscoveryAssumption, Zenon DEF GetSemaphore, TypeOK
<1>3. /\ sem' \in [Callers -> Callers \cup {None}] /\ sem'[c] = inFlight'
      /\ \A d \in Callers \ {c} : sem'[d] = sem[d]
  <2>1. sem \in [Callers -> Callers \cup {None}]  BY Zenon DEF TypeOK
  <2>. QED  BY <1>2, <2>1, Zenon DEF GetSemaphore
<1>4. TypeOK'
  BY <1>1, <1>2, <1>3, Zenon DEF TypeOK
<1>5. \A s \in Callers : holder[s] # c
  BY <1>1, DiscoveryAssumption DEF Permits, Holding, Leading
<1>6. holder[c] = None
  BY <1>1, Typed, Zenon DEF Permits
<1>7. inFlight' # c => \A d \in Callers : pc[d] \in {"idle", "entry"} => inFlight' # d
  BY <1>2, MappedHasUser, Zenon DEF Permits
<1>8. Permits'
  <2>1. \A d \in Callers :
          /\ pc'[d] \in Holding \cup {"try"} => sem'[d] \in Callers
          /\ pc'[d] \in Leading \cup {"drop"} => holder'[sem'[d]] = d
    BY <1>1, <1>2, <1>3, Zenon DEF Permits, Holding, Leading
  <2>2. \A d \in Callers : pc'[d] \in {"idle", "entry"} => \A e \in Callers : sem'[e] # d
    BY <1>1, <1>3, <1>7 DEF Permits
  <2>3. \A s \in Callers :
          holder'[s] # None => sem'[holder'[s]] = s /\ pc'[holder'[s]] \in Holding
    BY <1>1, <1>3, <1>5, Typed DEF Permits
  <2>. QED  BY <2>1, <2>2, <2>3, Zenon DEF Permits
<1>9. Queues'
  BY <1>1, <1>3, NotQueued, QueuesStay, Zenon
<1>10. Mapped'
  BY <1>1, <1>2, <1>3, <1>5, <1>6, Zenon DEF Mapped
<1>11. Current'
  <2>. SUFFICES ASSUME holder[inFlight'] \in Callers, pc'[holder[inFlight']] = "remove"
                PROVE  \/ cache = NoEntry /\ holder[inFlight'] \in cleared
                       \/ cache # NoEntry /\ pc'[cache.by] = "remove"
    BY <1>1, Zenon DEF Current
  <2>1. inFlight' = inFlight /\ inFlight \in Callers /\ inFlight # None
    BY <1>2, <1>6, DiscoveryAssumption, Zenon
  <2>2. pc[holder[inFlight]] = "remove"
    BY <1>1, <1>5, <2>1, Zenon
  <2>3. \/ cache = NoEntry /\ holder[inFlight] \in cleared
        \/ cache # NoEntry /\ pc[cache.by] = "remove"
    BY <2>1, <2>2, Zenon DEF Current
  <2>4. cache # NoEntry /\ pc[cache.by] = "remove" => pc'[cache.by] = "remove"
    BY <1>1, EntryBy, Zenon
  <2>. QED  BY <2>1, <2>3, <2>4, Zenon
<1>12. Overlaps'
  BY <1>1, OverlapsStay, Zenon DEF Running, Returned
<1>13. Lookups'
  BY <1>1, EntryBy, Zenon DEF Lookups, Returned
<1>14. Served'
  <2>1. holder[inFlight'] = None \/ pc[holder[inFlight']] \in {"lookup", "insert"} \/ Serves(c)
    <3>1. CASE inFlight' = c
      BY <1>6, <3>1, Zenon
    <3>2. CASE inFlight' = inFlight /\ inFlight # None /\ pc[holder[inFlight]] = "remove"
                 /\ holder[inFlight] \in Callers
      BY <1>1, <3>2, EntryBy, Zenon DEF Current, Serves, ClearedUnder, Overlaps, Running, Returned
    <3>. QED  BY <1>2, <3>1, <3>2, Zenon DEF Mapped
  <2>2. \A d \in Callers : Serves(d)' <=> Serves(d)
    BY <1>1, Zenon DEF Serves, ClearedUnder
  <2>3. \A s \in Callers : holder[s] # None => pc'[holder[s]] = pc[holder[s]]
    BY <1>1, <1>5, Typed, Zenon
  <2>. QED  BY <1>1, <1>2, <1>3, <2>1, <2>2, <2>3 DEF Served, Permits, Holding
<1>15. Failed' /\ Told' /\ WaiterAnsweredByOverlap'
  BY <1>1, Zenon DEF Failed, ClearedUnder, Told, WaiterAnsweredByOverlap, Returned
<1>. QED  BY <1>4, <1>8, <1>9, <1>10, <1>11, <1>12, <1>13, <1>14, <1>15, Zenon

\* try_acquire succeeds: the call leads.
LEMMA InvLead ==
  ASSUME Inv, NEW c \in Callers, TryAcquire(c), holder[sem[c]] = None
  PROVE  Inv'
<1> USE DEF Inv
<1>0. PICK s \in Callers : sem[c] = s
  BY Zenon DEF TryAcquire, Permits
<1>1. /\ pc[c] = "try" /\ pc' \in [Callers -> Labels] /\ pc'[c] = "lookup"
      /\ \A d \in Callers \ {c} : pc'[d] = pc[d]
      /\ UNCHANGED <<sem, inFlight, waiters, cache, ok, source, overlap, cleared>>
  BY Goes, Zenon DEF TryAcquire, Labels
<1>2. /\ holder' \in [Callers -> Callers \cup {None}] /\ holder[s] = None /\ holder'[s] = c
      /\ \A t \in Callers \ {s} : holder'[t] = holder[t]
  <2>1. holder \in [Callers -> Callers \cup {None}]  BY Zenon DEF TypeOK
  <2>. QED  BY <1>0, <2>1, Zenon DEF TryAcquire
<1>3. TypeOK'
  BY <1>1, <1>2, Zenon DEF TypeOK
<1>4. \A t \in Callers : holder[t] # c
  BY <1>1, DiscoveryAssumption DEF Permits, Holding, Leading
<1>5. Permits'
  <2>1. \A d \in Callers :
          /\ pc'[d] \in Holding \cup {"try"} => sem'[d] \in Callers
          /\ pc'[d] \in Leading \cup {"drop"} => holder'[sem'[d]] = d
    BY <1>0, <1>1, <1>2, DiscoveryAssumption DEF Permits, Holding, Leading
  <2>2. \A d \in Callers : pc'[d] \in {"idle", "entry"} => \A e \in Callers : sem'[e] # d
    BY <1>1, Zenon DEF Permits
  <2>3. \A t \in Callers :
          holder'[t] # None => sem'[holder'[t]] = t /\ pc'[holder'[t]] \in Holding
    BY <1>0, <1>1, <1>2, <1>4, Typed DEF Permits, Holding, Leading
  <2>. QED  BY <2>1, <2>2, <2>3, Zenon DEF Permits
<1>6. Queues'
  BY <1>1, <1>2, NotQueued, QueuesStay
<1>7. Mapped'
  <2>1. CASE inFlight = s
    BY <1>1, <1>2, <2>1, Zenon DEF Mapped
  <2>2. CASE inFlight \in Callers \ {s}
    BY <1>0, <1>1, <1>2, <1>4, <2>2 DEF Mapped
  <2>. QED  BY <1>1, <2>1, <2>2, Zenon DEF Mapped, TypeOK
<1>8. Current'
  <2>1. CASE inFlight = s
    BY <1>1, <1>2, <2>1, Zenon DEF Current
  <2>2. CASE inFlight \in Callers \ {s}
    BY <1>1, <1>2, <1>4, <2>2, EntryBy, Zenon DEF Current
  <2>. QED  BY <1>1, <2>1, <2>2, Zenon DEF Current, TypeOK
<1>9. Overlaps'
  BY <1>1, OverlapsStay, Zenon DEF Running, Returned
<1>10. Lookups'
  BY <1>1, EntryBy, Zenon DEF Lookups, Returned
<1>11. Served'
  <2>1. \A d \in Callers : Serves(d)' <=> Serves(d)
    BY <1>1, Zenon DEF Serves, ClearedUnder
  <2>2. \A t \in Callers \ {s} :
          holder'[t] = holder[t] /\ (holder[t] # None => pc'[holder[t]] = pc[holder[t]])
    BY <1>1, <1>2, <1>4, Typed, Zenon
  <2>. QED  BY <1>0, <1>1, <1>2, <2>1, <2>2 DEF Served, Permits, Holding
<1>12. Failed' /\ Told' /\ WaiterAnsweredByOverlap'
  BY <1>1, Zenon DEF Failed, ClearedUnder, Told, WaiterAnsweredByOverlap, Returned
<1>. QED  BY <1>3, <1>5, <1>6, <1>7, <1>8, <1>9, <1>10, <1>11, <1>12, Zenon

\* What joins the end of a queue stands there alone, behind all the others.
LEMMA Appended ==
  ASSUME NEW S, NEW q \in Seq(S), NEW c \in S
  PROVE  /\ \A k \in 1..Len(Append(q, c)) : k \in 1..Len(q) \/ k = Len(q) + 1
         /\ \A k \in 1..Len(q) : Append(q, c)[k] = q[k]
         /\ Append(q, c)[Len(q) + 1] = c
  OBVIOUS

\* try_acquire is refused: the call queues up behind the holder.
LEMMA InvQueue ==
  ASSUME Inv, NEW c \in Callers, TryAcquire(c), holder[sem[c]] # None
  PROVE  Inv'
<1> USE DEF Inv
<1>0. PICK s \in Callers : sem[c] = s
  BY Zenon DEF TryAcquire, Permits
<1>1. /\ pc[c] = "try" /\ pc' \in [Callers -> Labels] /\ pc'[c] = "wait"
      /\ \A d \in Callers \ {c} : pc'[d] = pc[d]
      /\ UNCHANGED <<sem, inFlight, holder, cache, ok, source, overlap, cleared>>
  BY Goes, Zenon DEF TryAcquire, Labels
<1>2. /\ waiters' \in [Callers -> Seq(Callers)] /\ waiters'[s] = Append(waiters[s], c)
      /\ \A t \in Callers \ {s} : waiters'[t] = waiters[t]
  <2>1. waiters \in [Callers -> Seq(Callers)] /\ Append(waiters[s], c) \in Seq(Callers)
    BY DEF TypeOK
  <2>2. waiters' = [waiters EXCEPT ![s] = Append(waiters[s], c)]
    BY <1>0, Zenon DEF TryAcquire
  <2>. QED  BY <2>1, <2>2, PutAt, Zenon
<1>3. TypeOK'
  BY <1>1, <1>2, Zenon DEF TypeOK
<1>4. \A t \in Callers : holder[t] # c
  BY <1>1, DiscoveryAssumption, Zenon DEF Permits, Holding, Leading
<1>5. \A t \in Callers : holder[t] # None => pc'[holder[t]] = pc[holder[t]]
  BY <1>1, <1>4, Typed, Zenon
<1>6. Permits'
  BY <1>1, <1>5 DEF Permits, Holding, Leading
<1>7. Queues'
  <2> SUFFICES ASSUME NEW t \in Callers, NEW i \in 1..Len(waiters'[t])
               PROVE  /\ pc'[waiters'[t][i]] = "wait" /\ sem[waiters'[t][i]] = t
                      /\ holder[t] # waiters'[t][i]
                      /\ \A j \in 1..Len(waiters'[t]) : waiters'[t][j] = waiters'[t][i] => j = i
    BY <1>1 DEF Queues
  <2>1. \A k \in 1..Len(waiters[t]) : waiters[t][k] \in Callers \ {c}
    BY <1>1, NotQueued, Typed, Zenon
  <2>2. CASE t # s
    <3>1. waiters'[t] = waiters[t] /\ i \in 1..Len(waiters[t]) /\ waiters[t][i] \in Callers \ {c}
      BY <1>2, <2>1, <2>2, Zenon
    <3>2. /\ pc[waiters[t][i]] = "wait" /\ sem[waiters[t][i]] = t /\ holder[t] # waiters[t][i]
          /\ \A j \in 1..Len(waiters[t]) : waiters[t][j] = waiters[t][i] => j = i
      BY <3>1, Zenon DEF Queues
    <3>. QED  BY <1>1, <3>1, <3>2, Zenon
  <2>3. CASE t = s
    <3>1. waiters[s] \in Seq(Callers) /\ waiters'[s] = Append(waiters[s], c)
      BY <1>2, Typed, Zenon
    <3>3. \A k \in 1..Len(waiters[s]) :
            /\ pc[waiters[s][k]] = "wait" /\ sem[waiters[s][k]] = s /\ holder[s] # waiters[s][k]
            /\ \A j \in 1..Len(waiters[s]) : waiters[s][j] = waiters[s][k] => j = k
      BY Zenon DEF Queues
    <3>2. /\ \A k \in 1..Len(Append(waiters[s], c)) : k \in 1..Len(waiters[s]) \/ k = Len(waiters[s]) + 1
          /\ \A k \in 1..Len(waiters[s]) : Append(waiters[s], c)[k] = waiters[s][k]
          /\ Append(waiters[s], c)[Len(waiters[s]) + 1] = c
      BY ONLY <3>1, c \in Callers, Appended, ZenonT(40)
    <3>4. \A k \in 1..Len(waiters'[s]) : k \in 1..Len(waiters[s]) \/ k = Len(waiters[s]) + 1
      BY <3>1, <3>2, Zenon
    <3>5. /\ \A k \in 1..Len(waiters[s]) : waiters'[s][k] = waiters[s][k]
          /\ waiters'[s][Len(waiters[s]) + 1] = c
      BY <3>1, <3>2, Zenon
    <3>6. CASE i \in 1..Len(waiters[s])
      <4>1. /\ waiters'[s][i] = waiters[s][i] /\ waiters[s][i] \in Callers \ {c}
            /\ pc[waiters[s][i]] = "wait" /\ sem[waiters[s][i]] = s /\ holder[s] # waiters[s][i]
        BY <2>1, <2>3, <3>3, <3>5, <3>6, Zenon
      <4>2. \A j \in 1..Len(waiters'[s]) : waiters'[s][j] = waiters'[s][i] => j = i
        BY <2>1, <2>3, <3>3, <3>4, <3>5, <3>6, <4>1, Zenon
      <4>. QED  BY <1>1, <2>3, <4>1, <4>2, Zenon
    <3>7. CASE i = Len(waiters[s]) + 1
      <4>1. \A j \in 1..Len(waiters'[s]) : waiters'[s][j] = c => j = i
        BY <2>1, <2>3, <3>4, <3>5, <3>7, Zenon
      <4>. QED  BY <1>0, <1>1, <1>4, <2>3, <3>5, <3>7, <4>1, Zenon
    <3>. QED  BY <2>3, <3>4, <3>6, <3>7, Zenon
  <2>. QED  BY <2>2, <2>3, Zenon
<1>8. Mapped'
  BY <1>0, <1>1, <1>4, Zenon DEF Mapped, TryAcquire
<1>9. Current'
  BY <1>1, <1>4, EntryBy, Zenon DEF Current
<1>10. Overlaps'
  BY <1>1, OverlapsStay, Zenon DEF Running, Returned
<1>11. Lookups'
  BY <1>1, EntryBy, Zenon DEF Lookups, Returned
<1>12. Served'
  <2>1. \A d \in Callers : Serves(d)' <=> Serves(d)
    BY <1>1, Zenon DEF Serves, ClearedUnder
  <2>. QED  BY <1>1, <1>5, <2>1 DEF Served, Permits, Holding
<1>13. Failed' /\ Told' /\ WaiterAnsweredByOverlap'
  BY <1>1, Zenon DEF Failed, ClearedUnder, Told, WaiterAnsweredByOverlap, Returned
<1>. QED  BY <1>3, <1>6, <1>7, <1>8, <1>9, <1>10, <1>11, <1>12, <1>13, Zenon

\* A leader's steps up to the return of its permit: what they share.
LEMMA LeaderSteps ==
  ASSUME TypeOK, Permits, Queues, Overlaps, NEW c \in Callers, NEW l,
         pc[c] \in {"lookup", "insert", "remove"}, l \in {"insert", "remove", "release"},
         Goto(c, l), UNCHANGED <<sem, holder, waiters, overlap>>
  PROVE  /\ pc' \in [Callers -> Labels] /\ pc'[c] = l
         /\ \A d \in Callers \ {c} : pc'[d] = pc[d]
         /\ Permits' /\ Queues' /\ Overlaps'
<1>1. /\ pc' \in [Callers -> Labels] /\ pc'[c] = l
      /\ \A d \in Callers \ {c} : pc'[d] = pc[d]
  BY Goes, Zenon DEF Labels
<1>2. Permits'
  BY <1>1, Typed DEF Permits, Holding, Leading
<1>3. Queues'
  BY <1>1, NotQueued, QueuesStay, Zenon
<1>4. Overlaps'
  BY <1>1, OverlapsStay, Zenon DEF Running, Returned
<1>. QED  BY <1>1, <1>2, <1>3, <1>4, Zenon

\* The lookup's outcome is the leader's own, which nobody is answered with yet.
LEMMA InvLookupReturns ==
  ASSUME Inv, NEW c \in Callers, LookupReturns(c)
  PROVE  Inv'
<1> USE DEF Inv
<1>1. /\ pc[c] = "lookup" /\ pc' \in [Callers -> Labels] /\ pc'[c] = "insert"
      /\ \A d \in Callers \ {c} : pc'[d] = pc[d]
      /\ UNCHANGED <<sem, inFlight, holder, waiters, cache, source, overlap, cleared>>
      /\ Permits' /\ Queues' /\ Overlaps'
  BY LeaderSteps, Zenon DEF LookupReturns
<1>2. ok' \in [Callers -> BOOLEAN] /\ \A d \in Callers \ {c} : ok'[d] = ok[d]
  <2>1. ok \in [Callers -> BOOLEAN]  BY Zenon DEF TypeOK
  <2>. QED  BY <2>1, Zenon DEF LookupReturns
<1>3. TypeOK'
  BY <1>1, <1>2, Zenon DEF TypeOK
<1>4. source[c] # c
  BY <1>1, Zenon DEF Lookups, Returned
<1>5. Mapped' /\ Current'
  BY <1>1, Typed, EntryBy, Zenon DEF Mapped, Current
<1>6. Lookups'
  BY <1>1, <1>2, <1>4, EntryBy, Zenon DEF Lookups, Returned
<1>7. Served'
  <2>1. \A d \in Callers : Serves(d)' <=> Serves(d)
    BY <1>1, Zenon DEF Serves, ClearedUnder
  <2>. QED  BY <1>1, <2>1, Typed DEF Served, Permits, Holding
<1>8. Failed' /\ Told'
  BY <1>1, <1>2, <1>4, Typed, Zenon DEF Failed, ClearedUnder, Told
<1>9. WaiterAnsweredByOverlap'
  BY <1>1, Zenon DEF WaiterAnsweredByOverlap, ClearedUnder, Returned
<1>. QED  BY <1>1, <1>3, <1>5, <1>6, <1>7, <1>8, <1>9, Zenon

\* The leader's result replaces whatever is cached: it serves all that run.
LEMMA InvInsertResult ==
  ASSUME Inv, NEW c \in Callers, InsertResult(c)
  PROVE  Inv'
<1> USE DEF Inv
<1>1. /\ pc[c] = "insert" /\ pc' \in [Callers -> Labels] /\ pc'[c] = "remove"
      /\ \A d \in Callers \ {c} : pc'[d] = pc[d]
      /\ UNCHANGED <<sem, inFlight, holder, waiters, ok, overlap, cleared>>
      /\ Permits' /\ Queues' /\ Overlaps'
  BY LeaderSteps, Zenon DEF InsertResult
<1>2. /\ cache' \in Entries \cup {NoEntry} /\ cache' # NoEntry
      /\ cache'.by = c /\ cache'.ok = ok[c]
  BY Typed, DiscoveryAssumption, Zenon DEF InsertResult, Entries, NoEntry
<1>3. /\ source' \in [Callers -> Callers \cup {None}] /\ source'[c] = c
      /\ \A d \in Callers \ {c} : source'[d] = source[d]
  <2>1. source \in [Callers -> Callers \cup {None}]  BY Zenon DEF TypeOK
  <2>. QED  BY <2>1, Zenon DEF InsertResult
<1>4. TypeOK'
  BY <1>1, <1>2, <1>3, Zenon DEF TypeOK
<1>5. source[c] # c
  BY <1>1, Zenon DEF Lookups, Returned
<1>6. Mapped'
  BY <1>1, Typed, Zenon DEF Mapped
<1>7. Current'
  BY <1>1, <1>2, Zenon DEF Current
<1>8. Lookups'
  BY <1>1, <1>2, <1>3, Zenon DEF Lookups, Returned
<1>9. Served'
  <2>1. \A d \in Callers : pc'[d] \in {"try", "wait"} => c \in overlap'[d]
    BY <1>1, Zenon DEF Overlaps, Running, Returned
  <2>. QED  BY <1>2, <2>1, Zenon DEF Served, Serves, ClearedUnder
<1>10. Failed' /\ Told'
  BY <1>1, <1>3, <1>5, Typed, Zenon DEF Failed, ClearedUnder, Told
<1>11. WaiterAnsweredByOverlap'
  BY <1>1, <1>3, Zenon DEF WaiterAnsweredByOverlap, ClearedUnder, Returned
<1>. QED  BY <1>1, <1>4, <1>6, <1>7, <1>8, <1>9, <1>10, <1>11, Zenon

\* The map is empty afterwards, whoever's semaphore was in it.
LEMMA InvRemoveInFlight ==
  ASSUME Inv, NEW c \in Callers, RemoveInFlight(c)
  PROVE  Inv'
<1> USE DEF Inv
<1>1. /\ pc[c] = "remove" /\ pc' \in [Callers -> Labels] /\ pc'[c] = "release"
      /\ \A d \in Callers \ {c} : pc'[d] = pc[d]
      /\ UNCHANGED <<sem, holder, waiters, cache, ok, source, overlap, cleared>>
      /\ inFlight' = None
      /\ Permits' /\ Queues' /\ Overlaps'
  BY LeaderSteps DEF RemoveInFlight
<1>2. TypeOK'
  BY <1>1, Zenon DEF TypeOK
<1>3. Mapped' /\ Current'
  BY <1>1, Zenon DEF Mapped, Current
<1>4. Lookups'
  BY <1>1, EntryBy, Zenon DEF Lookups, Returned
<1>5. Served'
  <2>1. \A d \in Callers : Serves(d)' <=> Serves(d)
    BY <1>1, Zenon DEF Serves, ClearedUnder
  <2>. QED  BY <1>1, <2>1, Typed DEF Served, Permits, Holding
<1>6. Failed' /\ Told' /\ WaiterAnsweredByOverlap'
  BY <1>1, Zenon DEF Failed, ClearedUnder, Told, WaiterAnsweredByOverlap, Returned
<1>. QED  BY <1>1, <1>2, <1>3, <1>4, <1>5, <1>6, Zenon

\* A permit that is given back goes to the first in the queue, or to nobody.
LEMMA GivesBack ==
  ASSUME TypeOK, Queues, NEW s \in Callers, GiveBack(s)
  PROVE  /\ holder' \in [Callers -> Callers \cup {None}]
         /\ waiters' \in [Callers -> Seq(Callers)]
         /\ \A t \in Callers \ {s} : holder'[t] = holder[t] /\ waiters'[t] = waiters[t]
         /\ holder'[s] # None => /\ pc[holder'[s]] = "wait" /\ sem[holder'[s]] = s
                                 /\ holder'[s] # holder[s]
         /\ \A i \in 1..Len(waiters'[s]) :
              /\ pc[waiters'[s][i]] = "wait" /\ sem[waiters'[s][i]] = s
              /\ waiters'[s][i] # holder'[s] /\ waiters'[s][i] # holder[s]
              /\ \A j \in 1..Len(waiters'[s]) : waiters'[s][j] = waiters'[s][i] => j = i
<1>1. holder \in [Callers -> Callers \cup {None}] /\ waiters \in [Callers -> Seq(Callers)]
  BY Zenon DEF TypeOK
<1>2. CASE waiters[s] = <<>>
  <2>1. holder' = [holder EXCEPT ![s] = None] /\ waiters' = waiters
    BY <1>2, Zenon DEF GiveBack
  <2>2. /\ holder' \in [Callers -> Callers \cup {None}] /\ holder'[s] = None
        /\ \A t \in Callers \ {s} : holder'[t] = holder[t]
    BY <1>1, <2>1, Zenon
  <2>3. \A i \in 1..Len(waiters'[s]) : FALSE
    BY <1>2, <2>1
  <2>. QED  BY <1>1, <2>1, <2>2, <2>3, Zenon
<1>3. CASE waiters[s] # <<>>
  <2>1. \A i \in 1..Len(waiters[s]) :
          /\ pc[waiters[s][i]] = "wait" /\ sem[waiters[s][i]] = s /\ holder[s] # waiters[s][i]
          /\ \A j \in 1..Len(waiters[s]) : waiters[s][j] = waiters[s][i] => j = i
    BY Zenon DEF Queues
  <2>2. waiters[s] \in Seq(Callers) /\ \A i, j \in 1..Len(waiters[s]) : waiters[s][i] = waiters[s][j] => i = j
    BY <1>1, <2>1, Zenon
  <2>3. /\ Tail(waiters[s]) \in Seq(Callers) /\ Head(waiters[s]) \in Callers
        /\ \E k \in 1..Len(waiters[s]) : Head(waiters[s]) = waiters[s][k]
        /\ \A i \in 1..Len(Tail(waiters[s])) :
             /\ \E k \in 1..Len(waiters[s]) : Tail(waiters[s])[i] = waiters[s][k]
             /\ Tail(waiters[s])[i] # Head(waiters[s])
             /\ \A j \in 1..Len(Tail(waiters[s])) : Tail(waiters[s])[j] = Tail(waiters[s])[i] => j = i
    BY <1>3, <2>2, TailOfQueue, Zenon
  <2>4. /\ holder' = [holder EXCEPT ![s] = Head(waiters[s])]
        /\ waiters' = [waiters EXCEPT ![s] = Tail(waiters[s])]
    BY <1>3, Zenon DEF GiveBack
  <2>5. /\ holder' \in [Callers -> Callers \cup {None}] /\ holder'[s] = Head(waiters[s])
        /\ waiters' \in [Callers -> Seq(Callers)] /\ waiters'[s] = Tail(waiters[s])
        /\ \A t \in Callers \ {s} : holder'[t] = holder[t] /\ waiters'[t] = waiters[t]
    BY <1>1, <2>3, <2>4, Zenon
  <2>6. pc[holder'[s]] = "wait" /\ sem[holder'[s]] = s /\ holder'[s] # holder[s]
    <3>1. PICK k \in 1..Len(waiters[s]) : Head(waiters[s]) = waiters[s][k]
      BY <2>3, Zenon
    <3>2. pc[waiters[s][k]] = "wait" /\ sem[waiters[s][k]] = s /\ holder[s] # waiters[s][k]
      BY <2>1, Zenon
    <3>. QED  BY <2>5, <3>1, <3>2, Zenon
  <2>7. \A i \in 1..Len(waiters'[s]) :
          /\ pc[waiters'[s][i]] = "wait" /\ sem[waiters'[s][i]] = s
          /\ waiters'[s][i] # holder'[s] /\ waiters'[s][i] # holder[s]
          /\ \A j \in 1..Len(waiters'[s]) : waiters'[s][j] = waiters'[s][i] => j = i
    <3> SUFFICES ASSUME NEW i \in 1..Len(Tail(waiters[s]))
                 PROVE  /\ pc[Tail(waiters[s])[i]] = "wait" /\ sem[Tail(waiters[s])[i]] = s
                        /\ Tail(waiters[s])[i] # Head(waiters[s]) /\ Tail(waiters[s])[i] # holder[s]
                        /\ \A j \in 1..Len(Tail(waiters[s])) :
                             Tail(waiters[s])[j] = Tail(waiters[s])[i] => j = i
      BY <2>5, Zenon
    <3>1. PICK k \in 1..Len(waiters[s]) : Tail(waiters[s])[i] = waiters[s][k]
      BY <2>3, Zenon
    <3>2. pc[waiters[s][k]] = "wait" /\ sem[waiters[s][k]] = s /\ holder[s] # waiters[s][k]
      BY <2>1, Zenon
    <3>. QED  BY <2>3, <3>1, <3>2, Zenon
  <2>. QED  BY <2>5, <2>6, <2>7, Zenon
<1>. QED  BY <1>2, <1>3, Zenon

\* A call gives its permit back and returns, as a leader or after having waited.
LEMMA InvReturns ==
  ASSUME Inv, NEW c \in Callers, LeaderReturns(c) \/ WaiterReturns(c)
  PROVE  Inv'
<1> USE DEF Inv
<1>0. PICK s \in Callers : sem[c] = s
  BY Zenon DEF LeaderReturns, WaiterReturns, Permits, Holding, Leading
<1>1. /\ pc[c] \in {"release", "drop"} /\ GiveBack(s)
      /\ Goto(c, IF ok[c] THEN "done" ELSE "failed")
      /\ UNCHANGED <<sem, inFlight, cache, ok, source, overlap, cleared>>
  BY <1>0, Zenon DEF LeaderReturns, WaiterReturns
<1>2. /\ pc' \in [Callers -> Labels] /\ pc'[c] = (IF ok[c] THEN "done" ELSE "failed")
      /\ \A d \in Callers \ {c} : pc'[d] = pc[d]
  <2>1. (IF ok[c] THEN "done" ELSE "failed") \in Labels  BY Zenon DEF Labels
  <2>. QED  BY <1>1, <2>1, Goes, Zenon
<1>3. holder[s] = c /\ \A t \in Callers \ {s} : holder[t] # c
  BY <1>0, <1>1, DiscoveryAssumption DEF Permits, Holding, Leading
<1>4. /\ holder' \in [Callers -> Callers \cup {None}]
      /\ waiters' \in [Callers -> Seq(Callers)]
      /\ \A t \in Callers \ {s} : holder'[t] = holder[t] /\ waiters'[t] = waiters[t]
      /\ holder'[s] # None => /\ pc[holder'[s]] = "wait" /\ sem[holder'[s]] = s
                              /\ holder'[s] # c
  BY <1>1, <1>3, GivesBack, Zenon
<1>5. TypeOK'
  BY <1>1, <1>2, <1>4, Zenon DEF TypeOK
<1>6. \A t \in Callers \ {s} : holder[t] # None => pc'[holder[t]] = pc[holder[t]]
  BY <1>2, <1>3, Typed, Zenon
<1>7. Permits'
  <2>1. \A d \in Callers :
          /\ pc'[d] \in Holding \cup {"try"} => sem'[d] \in Callers
          /\ pc'[d] \in Leading \cup {"drop"} => holder'[sem'[d]] = d
    <3>1. \A d \in Callers \ {c} :
            pc[d] \in Leading \cup {"drop"} => /\ sem[d] \in Callers /\ holder[sem[d]] = d
                                              /\ sem[d] # s
      BY <1>3, Zenon DEF Permits, Holding
    <3>2. pc'[c] \notin Holding \cup {"try"}
      BY <1>2, Zenon DEF Holding, Leading
    <3>3. ASSUME NEW d \in Callers \ {c}
          PROVE  /\ pc'[d] \in Holding \cup {"try"} => sem'[d] \in Callers
                 /\ pc'[d] \in Leading \cup {"drop"} => holder'[sem'[d]] = d
      <4>1. pc'[d] = pc[d] /\ sem'[d] = sem[d]
        BY <1>1, <1>2, Zenon
      <4>2. pc[d] \in Holding \cup {"try"} => sem[d] \in Callers
        BY Zenon DEF Permits
      <4>. QED  BY <1>4, <3>1, <4>1, <4>2, ZenonT(40)
    <3>4. pc'[c] \notin Leading \cup {"drop"}
      BY <3>2, Zenon DEF Holding
    <3>. QED  BY <3>2, <3>3, <3>4, Zenon
  <2>2. \A d \in Callers : pc'[d] \in {"idle", "entry"} => \A e \in Callers : sem'[e] # d
    BY <1>1, <1>2, Zenon DEF Permits
  <2>3. ASSUME NEW t \in Callers, holder'[t] # None
        PROVE  sem'[holder'[t]] = t /\ pc'[holder'[t]] \in Holding
    <3>0. holder'[t] \in Callers
      BY <1>4, <2>3, Zenon
    <3>1. CASE t = s
      BY <1>1, <1>2, <1>4, <2>3, <3>0, <3>1, Zenon DEF Holding
    <3>2. CASE t # s
      <4>1. holder'[t] = holder[t] /\ pc'[holder[t]] = pc[holder[t]]
        BY <1>4, <1>6, <2>3, <3>2, Zenon
      <4>2. sem[holder[t]] = t /\ pc[holder[t]] \in Holding
        BY <2>3, <4>1, Zenon DEF Permits
      <4>. QED  BY <1>1, <4>1, <4>2, Zenon
    <3>. QED  BY <3>1, <3>2, Zenon
  <2>. QED  BY <2>1, <2>2, <2>3, Zenon DEF Permits
<1>8. Queues'
  <2> SUFFICES ASSUME NEW t \in Callers, NEW i \in 1..Len(waiters'[t])
               PROVE  /\ pc'[waiters'[t][i]] = "wait" /\ sem[waiters'[t][i]] = t
                      /\ holder'[t] # waiters'[t][i]
                      /\ \A j \in 1..Len(waiters'[t]) : waiters'[t][j] = waiters'[t][i] => j = i
    BY <1>1 DEF Queues
  <2>1. waiters'[t][i] \in Callers
    BY <1>4
  <2>2. CASE t = s
    <3>1. /\ pc[waiters'[s][i]] = "wait" /\ sem[waiters'[s][i]] = s
          /\ waiters'[s][i] # holder'[s] /\ waiters'[s][i] # holder[s]
          /\ \A j \in 1..Len(waiters'[s]) : waiters'[s][j] = waiters'[s][i] => j = i
      <4>1. \A k \in 1..Len(waiters'[s]) :
              /\ pc[waiters'[s][k]] = "wait" /\ sem[waiters'[s][k]] = s
              /\ waiters'[s][k] # holder'[s] /\ waiters'[s][k] # holder[s]
              /\ \A j \in 1..Len(waiters'[s]) : waiters'[s][j] = waiters'[s][k] => j = k
        BY <1>1, GivesBack, Zenon
      <4>. QED  BY <2>2, <4>1, Zenon
    <3>. QED  BY <1>2, <1>3, <2>1, <2>2, <3>1, Zenon
  <2>3. CASE t # s
    <3>1. waiters'[t] = waiters[t] /\ holder'[t] = holder[t] /\ pc[waiters[t][i]] = "wait"
      BY <1>4, <2>3, Zenon DEF Queues
    <3>. QED  BY <1>1, <1>2, <2>1, <2>3, <3>1 DEF Queues
  <2>. QED  BY <2>2, <2>3, Zenon
<1>9. inFlight # s
  BY <1>1, <1>3, DiscoveryAssumption, Zenon DEF Mapped
<1>10. Mapped'
  BY <1>1, <1>2, <1>4, <1>6, <1>9, DiscoveryAssumption, Zenon DEF Mapped, TypeOK
<1>11. Current'
  <2> SUFFICES ASSUME inFlight # None, holder'[inFlight] \in Callers,
                      pc'[holder'[inFlight]] = "remove"
               PROVE  \/ cache = NoEntry /\ holder'[inFlight] \in cleared
                      \/ cache # NoEntry /\ pc'[cache.by] = "remove"
    BY <1>1, Zenon DEF Current
  <2>1. inFlight \in Callers \ {s}
    BY <1>9, Zenon DEF TypeOK
  <2>2. /\ holder'[inFlight] = holder[inFlight]
        /\ holder[inFlight] \in Callers /\ pc[holder[inFlight]] = "remove"
    BY <1>4, <1>6, <2>1, DiscoveryAssumption, Zenon
  <2>3. \/ cache = NoEntry /\ holder[inFlight] \in cleared
        \/ cache # NoEntry /\ pc[cache.by] = "remove"
    BY <2>1, <2>2, DiscoveryAssumption, Zenon DEF Current
  <2>4. cache # NoEntry /\ pc[cache.by] = "remove" => cache.by \in Callers \ {c}
    BY <1>1, EntryBy, Zenon
  <2>. QED  BY <1>2, <2>2, <2>3, <2>4, Zenon
<1>12. Overlaps'
  BY <1>1, <1>2, OverlapsStay, Zenon DEF Running, Returned
<1>13. Lookups'
  BY <1>1, <1>2, EntryBy, Zenon DEF Lookups, Returned
<1>14. Served'
  <2>1. \A d \in Callers : Serves(d)' <=> Serves(d)
    BY <1>1, Zenon DEF Serves, ClearedUnder
  <2>2. \A d \in Callers : pc[d] \in {"try", "wait"} /\ sem[d] = s => Serves(d)
    BY <1>1, <1>3, DiscoveryAssumption, Zenon DEF Served
  <2>3. ASSUME NEW d \in Callers, pc'[d] \in {"try", "wait"}
        PROVE  holder'[sem[d]] = None \/ pc'[holder'[sem[d]]] \in {"lookup", "insert"} \/ Serves(d)
    <3>1. pc[d] = pc'[d] /\ sem[d] \in Callers
      BY <1>2, <2>3, Zenon DEF Permits, Holding
    <3>2. CASE sem[d] = s
      BY <2>2, <2>3, <3>1, <3>2, Zenon
    <3>3. CASE sem[d] # s
      <4>1. holder'[sem[d]] = holder[sem[d]]
        BY <1>4, <3>1, <3>3, Zenon
      <4>2. holder[sem[d]] # None => pc'[holder[sem[d]]] = pc[holder[sem[d]]]
        BY <1>6, <3>1, <3>3, Zenon
      <4>3. holder[sem[d]] = None \/ pc[holder[sem[d]]] \in {"lookup", "insert"} \/ Serves(d)
        BY <2>3, <3>1, Zenon DEF Served
      <4>. QED  BY <4>1, <4>2, <4>3, Zenon
    <3>. QED  BY <3>2, <3>3, Zenon
  <2>. QED  BY <1>1, <2>1, <2>3, Zenon DEF Served
<1>15. Failed' /\ Told'
  BY <1>1, <1>2, Zenon DEF Failed, ClearedUnder, Told, Lookups, Overlaps, Running, Returned
<1>16. WaiterAnsweredByOverlap'
  BY <1>1, <1>2 DEF WaiterAnsweredByOverlap, ClearedUnder, Lookups, Overlaps, Running, Returned
<1>. QED  BY <1>5, <1>7, <1>8, <1>10, <1>11, <1>12, <1>13, <1>14, <1>15, <1>16, Zenon

\* A waiter has its turn: what is cached by then comes from a call it overlapped.
LEMMA InvWaiterReads ==
  ASSUME Inv, NEW c \in Callers, WaiterReads(c)
  PROVE  Inv'
<1> USE DEF Inv
<1>1. /\ pc[c] = "wait" /\ pc' \in [Callers -> Labels] /\ pc'[c] = "drop"
      /\ \A d \in Callers \ {c} : pc'[d] = pc[d]
      /\ holder[sem[c]] = c /\ sem[c] \in Callers
      /\ UNCHANGED <<sem, inFlight, holder, waiters, cache, overlap, cleared>>
  BY Goes, Zenon DEF WaiterReads, Labels, Permits, Holding
<1>2. /\ source' \in [Callers -> Callers \cup {None}] /\ source'[c] = cache.by
      /\ \A d \in Callers \ {c} : source'[d] = source[d]
  <2>1. source \in [Callers -> Callers \cup {None}]  BY Zenon DEF TypeOK
  <2>. QED  BY <2>1, EntryBy, Zenon DEF WaiterReads
<1>3. /\ ok' \in [Callers -> BOOLEAN] /\ ok'[c] = cache.ok
      /\ \A d \in Callers \ {c} : ok'[d] = ok[d]
  <2>1. ok \in [Callers -> BOOLEAN]  BY Zenon DEF TypeOK
  <2>. QED  BY <2>1, EntryBy, Zenon DEF WaiterReads
<1>4. TypeOK'
  BY <1>1, <1>2, <1>3, Zenon DEF TypeOK
<1>5. source[c] # c /\ cache.by # c
  BY <1>1, EntryBy, DiscoveryAssumption, Zenon DEF Lookups, Returned
<1>6. Serves(c)
  BY <1>1, DiscoveryAssumption, Zenon DEF Served
<1>7. Permits'
  BY <1>1, Typed DEF Permits, Holding, Leading
<1>8. Queues'
  BY <1>1, NotQueued, QueuesStay, Zenon
<1>9. Mapped'
  BY <1>1, Typed, Zenon DEF Mapped
<1>10. Current'
  BY <1>1, EntryBy, Zenon DEF Current
<1>11. Overlaps'
  BY <1>1, OverlapsStay, Zenon DEF Running, Returned
<1>12. Lookups'
  BY <1>1, <1>2, <1>3, <1>5, EntryBy, Zenon DEF Lookups, Returned
<1>13. Served'
  <2>1. \A d \in Callers : Serves(d)' <=> Serves(d)
    BY <1>1, Zenon DEF Serves, ClearedUnder
  <2>. QED  BY <1>1, <2>1, Typed DEF Served, Permits, Holding
<1>14. Failed'
  <2>1. ASSUME NEW d \in Callers \ {c}, pc'[d] \in {"drop", "failed"}, ~ok'[d]
        PROVE  ClearedUnder(d)' \/ \E e \in overlap'[d] : source'[e] = e /\ ~ok'[e]
    <3>1. ClearedUnder(d) \/ \E e \in overlap[d] : source[e] = e /\ ~ok[e]
      BY <1>1, <1>3, <2>1, Zenon DEF Failed, ClearedUnder
    <3>. QED  BY <1>1, <1>2, <1>3, <1>5, <3>1, Typed, Zenon DEF ClearedUnder
  <2>2. ~ok'[c] => ClearedUnder(c)' \/ \E e \in overlap'[c] : source'[e] = e /\ ~ok'[e]
    BY <1>1, <1>2, <1>3, <1>5, <1>6, EntryBy, Zenon DEF Serves, ClearedUnder, Lookups
  <2>. QED  BY <2>1, <2>2, Zenon DEF Failed, ClearedUnder
<1>15. Told'
  BY <1>1, <1>3, Zenon DEF Told
<1>16. WaiterAnsweredByOverlap'
  BY <1>1, <1>2, <1>6, EntryBy, Zenon DEF WaiterAnsweredByOverlap, ClearedUnder, Serves, Returned
<1>. QED  BY <1>4, <1>7, <1>8, <1>9, <1>10, <1>11, <1>12, <1>13, <1>14, <1>15, <1>16, Zenon

\* The TTL runs out or clear_cache is called, at any moment.
LEMMA InvCache ==
  ASSUME Inv, Expire \/ ClearCache
  PROVE  Inv'
<1> USE DEF Inv
<1>1. /\ UNCHANGED <<pc, sem, inFlight, holder, waiters, ok, source, overlap>>
      /\ cleared' \subseteq Callers /\ cleared \subseteq cleared'
  BY Zenon DEF Expire, ClearCache, TypeOK, Running
<1>2. /\ cache' \in Entries \cup {NoEntry}
      /\ \/ cache' = NoEntry /\ Running \subseteq cleared'
         \/ /\ cache # NoEntry /\ cache' # NoEntry /\ cleared' = cleared
            /\ cache'.by = cache.by /\ cache'.ok = cache.ok
  <2>1. CASE Expire
    <3>1. cache # NoEntry /\ cache \in Entries
      BY <2>1, EntryBy, Zenon DEF Expire, TypeOK
    <3>2. cache' = [cache EXCEPT !.fresh = FALSE] /\ cleared' = cleared
      BY <2>1, Zenon DEF Expire
    <3>3. cache' \in Entries /\ cache'.by = cache.by /\ cache'.ok = cache.ok
      BY <3>1, <3>2, Zenon DEF Entries
    <3>4. cache'.by \in Callers /\ NoEntry.by = None
      BY <3>1, <3>3, EntryBy, Zenon DEF NoEntry
    <3>. QED  BY <3>1, <3>2, <3>3, <3>4, DiscoveryAssumption, Zenon
  <2>2. CASE ClearCache
    BY <2>2, Zenon DEF ClearCache
  <2>. QED  BY <2>1, <2>2, Zenon
<1>3. TypeOK'
  BY <1>1, <1>2, Zenon DEF TypeOK
<1>4. Permits' /\ Queues' /\ Mapped'
  <2>1. Permits' /\ Mapped'  BY <1>1, Zenon DEF Permits, Mapped
  <2>2. Queues'  BY <1>1 DEF Queues
  <2>. QED  BY <2>1, <2>2, Zenon
<1>5. Current'
  <2>1. inFlight # None /\ holder[inFlight] \in Callers /\ pc[holder[inFlight]] = "remove" =>
          holder[inFlight] \in Running
    BY Zenon DEF Running, Returned
  <2>. QED  BY <1>1, <1>2, <2>1, Zenon DEF Current
<1>6. Overlaps' /\ Told'
  BY <1>1, Zenon DEF Overlaps, Running, Told
<1>7. Lookups'
  BY <1>1, <1>2, Zenon DEF Lookups
<1>8. \A d \in Callers : ClearedUnder(d) => ClearedUnder(d)'
  BY <1>1, Zenon DEF ClearedUnder
<1>9. Served'
  <2>1. \A d \in Callers : pc[d] \in {"try", "wait"} => d \in Running /\ d \in overlap[d]
    BY Zenon DEF Overlaps, Running, Returned
  <2>2. \A d \in Callers : pc[d] \in {"try", "wait"} /\ Running \subseteq cleared' => ClearedUnder(d)'
    BY <1>1, <2>1, Zenon DEF ClearedUnder
  <2>3. \A d \in Callers : pc[d] \in {"try", "wait"} /\ Serves(d) => Serves(d)'
    BY <1>1, <1>2, <1>8, <2>2, Zenon DEF Serves
  <2>. QED  BY <1>1, <2>3, Zenon DEF Served
<1>10. Failed' /\ WaiterAnsweredByOverlap'
  BY <1>1, <1>8, Zenon DEF Failed, WaiterAnsweredByOverlap
<1>. QED  BY <1>3, <1>4, <1>5, <1>6, <1>7, <1>9, <1>10, Zenon

\* Every step keeps the invariant.
LEMMA InvNext == Inv /\ [Next]_vars => Inv'
<1> SUFFICES ASSUME Inv, [Next]_vars PROVE Inv'
  BY Zenon
<1>1. ASSUME NEW c \in Callers, Step(c) PROVE Inv'
  BY <1>1, InvCheckCache, InvGetSemaphore, InvLead, InvQueue, InvLookupReturns,
     InvInsertResult, InvRemoveInFlight, InvReturns, InvWaiterReads, Zenon DEF Step
<1>2. CASE UNCHANGED vars
  <2>1. UNCHANGED <<pc, sem, inFlight, holder, waiters, cache, ok, source, overlap, cleared>>
    BY <1>2, Zenon DEF vars
  <2>2. TypeOK' /\ Permits' /\ Mapped'
    BY <2>1, Zenon DEF Inv, TypeOK, Permits, Mapped
  <2>3. Queues'
    BY <2>1, ZenonT(40) DEF Inv, Queues
  <2>4. Current' /\ Overlaps' /\ Lookups'
    BY <2>1, Zenon DEF Inv, Current, Overlaps, Lookups, Running
  <2>5. Served' /\ Failed' /\ Told' /\ WaiterAnsweredByOverlap'
    BY <2>1, Zenon DEF Inv, Served, Serves, ClearedUnder, Failed, Told, WaiterAnsweredByOverlap
  <2>. QED  BY <2>2, <2>3, <2>4, <2>5, Zenon DEF Inv
<1>. QED  BY <1>1, <1>2, InvCache, Zenon DEF Next

LEMMA Invariance == Spec => []Inv
BY InvInit, InvNext, PTL DEF Spec

-----------------------------------------------------------------------------
\* A call that waited for somebody else's lookup in ServiceDiscovery::resolve is
\* answered with the result of a call that overlapped its own, or with nothing
\* when clear_cache was called during such a call: it never gets what an older call had left in the cache,
\* although it reads the cache without looking at the entry's age.
THEOREM WaitersGetCurrentAnswers == Spec => []WaiterAnsweredByOverlap
BY Invariance, PTL DEF Inv

\* resolve reports a failure only to calls that overlapped a call whose lookup
\* did fail, or during which clear_cache emptied the cache: negative entries of
\* the past are never served.
THEOREM FailuresAreCurrent == Spec => []FailureIsCurrent
<1>1. Inv => FailureIsCurrent
  BY Zenon DEF Inv, Failed, ClearedUnder, Told, FailureIsCurrent
<1>. QED  BY <1>1, Invariance, PTL

\* A semaphore in in_flight has a call that will remove it: its leader, or one
\* that is about to become its leader.  None outlives the calls that use it.
THEOREM MappedSemaphoresAreLive == Spec => []MappedSemaphoreIsLive
<1>1. Inv => MappedSemaphoreIsLive
  BY MappedHasUser, DiscoveryAssumption, Zenon DEF Inv, TypeOK, MappedSemaphoreIsLive
<1>. QED  BY <1>1, Invariance, PTL

\* Every variable of resolve keeps its type.
THEOREM TypesAreKept == Spec => []TypeOK
<1>1. Inv => TypeOK
  BY Zenon DEF Inv
<1>. QED  BY <1>1, Invariance, PTL

=============================================================================
