------------------------------ MODULE ResultCache ------------------------------
(***************************************************************************)
(* The process-memory cache of lookup results (infra/result_cache.py): an  *)
(* LRU with a budget of bytes, and the coalescing of identical loads.      *)
(*                                                                         *)
(* Requests and loads are asyncio tasks: what a request or a load does     *)
(* between two awaits is one action.  A load that has ended runs its done  *)
(* callbacks in the order they were added: first the cache's own           *)
(* (Finished), then the wake-ups of the requests that await it (Resume).   *)
(*                                                                         *)
(* Time is abstract: an entry may expire at any moment.  The budget is     *)
(* positive: with a budget of zero the client does not call the cache.     *)
(***************************************************************************)
EXTENDS Integers, FiniteSets, FiniteSetsExt, SequencesExt

CONSTANTS
    Requests,     \* requests of the process
    Keys,         \* cache keys: the query and the release it is answered under
    Weights,      \* sizes of an entry
    MaxBytes,     \* cache_memory_max_bytes
    MaxInFlight,  \* _MAX_IN_FLIGHT
    Loads,        \* identities of load tasks, reused when nobody knows them
    NoLoad,
    MaxClears     \* bound: calls of clear and aclose

ASSUME CacheAssumption ==
    /\ IsFiniteSet(Requests)
    /\ Weights \subseteq Nat \ {0}
    /\ MaxBytes \in Nat \ {0}
    /\ MaxInFlight \in Nat \ {0}
    /\ NoLoad \notin Loads
    /\ MaxClears \in Nat

VARIABLES
    entries,     \* _entries, least recently used first
    size,        \* _size_bytes
    generation,  \* _generation
    flights,     \* _flights: <<generation, key>> -> load
    tasks,       \* _tasks
    load,        \* the load tasks and the waiters of their flights
    call         \* what each request is doing in get_or_load

vars == <<entries, size, generation, flights, tasks, load, call>>

--------------------------------------------------------------------------------
Unused == [st |-> "unused", gen |-> 0, key |-> NoLoad, waiters |-> 0]

Idle      == [st |-> "none",   on |-> NoLoad]
Direct    == [st |-> "direct", on |-> NoLoad]
Awaits(t) == [st |-> "joined", on |-> t]

Running(t) == load[t].st \in {"running", "stopping"}

Weigh(es) == MapThenSumSet(LAMBDA i : es[i].weight, DOMAIN es)

\* _entries.get(key), and what _entries.pop(key, None) leaves.
Has(k)      == \E i \in DOMAIN entries : entries[i].key = k
Place(k)    == CHOOSE i \in DOMAIN entries : entries[i].key = k
EntryOf(k)  == entries[Place(k)]
Except(k)   == IF Has(k) THEN RemoveAt(entries, Place(k)) ELSE entries
WeightOf(k) == IF Has(k) THEN EntryOf(k).weight ELSE 0

AnyFlight(k)   == <<0, k>>   \* Faulty: the flight is known by its key alone
Flight(k)      == <<generation, k>>
Unregister(f)  == [x \in DOMAIN flights \ {f} |-> flights[x]]

\* Faulty: whatever flight is there now.
LandedAny(f, t) == Unregister(f)

\* _flights without f if f is still the flight of t.
Landed(f, t) ==
    IF f \in DOMAIN flights /\ flights[f] = t THEN Unregister(f) ELSE flights

FlightOf(t) == <<load[t].gen, load[t].key>>

\* Nobody refers to the task any more.
Forget(l, ts) ==
    [t \in Loads |-> IF t \notin ts /\ l[t].waiters = 0 THEN Unused ELSE l[t]]

Init ==
    /\ entries = <<>>
    /\ size = 0
    /\ generation = 0
    /\ flights = <<>>
    /\ tasks = {}
    /\ load = [t \in Loads |-> Unused]
    /\ call = [r \in Requests |-> Idle]

--------------------------------------------------------------------------------
Hit(r, k) ==
    /\ call[r] = Idle
    /\ Has(k) /\ EntryOf(k).fresh
    /\ entries' = Append(Except(k), EntryOf(k))
    /\ UNCHANGED <<size, generation, flights, tasks, load, call>>

\* Faulty: the weight is taken off and the entry stays.
MissedKeeps(k) ==
    /\ Has(k) => ~EntryOf(k).fresh
    /\ size' = size - WeightOf(k)
    /\ UNCHANGED entries

\* An entry that has expired is dropped on the way to every kind of miss.
Missed(k) ==
    /\ Has(k) => ~EntryOf(k).fresh
    /\ entries' = Except(k)
    /\ size' = size - WeightOf(k)

Join(r, k) ==
    /\ call[r] = Idle
    /\ Missed(k)
    /\ Flight(k) \in DOMAIN flights
    /\ LET t == flights[Flight(k)] IN
         IF Running(t)
         THEN /\ load' = [load EXCEPT ![t].waiters = @ + 1]
              /\ call' = [call EXCEPT ![r] = Awaits(t)]
         ELSE UNCHANGED <<load, call>>   \* the result is there, and taken at once
    /\ UNCHANGED <<generation, flights, tasks>>

Start(r, k) ==
    /\ call[r] = Idle
    /\ Missed(k)
    /\ Flight(k) \notin DOMAIN flights
    /\ Cardinality(tasks) < MaxInFlight
    /\ \E t \in Loads :
         /\ load[t] = Unused
         /\ load' = [load EXCEPT ![t] =
                [st |-> "running", gen |-> generation, key |-> k, waiters |-> 1]]
         /\ flights' = [f \in DOMAIN flights \cup {Flight(k)} |->
                            IF f = Flight(k) THEN t ELSE flights[f]]
         /\ tasks' = tasks \cup {t}
         /\ call' = [call EXCEPT ![r] = Awaits(t)]
    /\ UNCHANGED generation

\* Too many loads: this one is neither shared nor stored.
Bypass(r, k) ==
    /\ call[r] = Idle
    /\ Missed(k)
    /\ Flight(k) \notin DOMAIN flights
    /\ Cardinality(tasks) >= MaxInFlight
    /\ call' = [call EXCEPT ![r] = Direct]
    /\ UNCHANGED <<generation, flights, tasks, load>>

DirectEnds(r) ==
    /\ call[r] = Direct
    /\ call' = [call EXCEPT ![r] = Idle]
    /\ UNCHANGED <<entries, size, generation, flights, tasks, load>>

--------------------------------------------------------------------------------
\* Faulty: at most one entry is evicted.
EvictedOne(es, left, w) == IF es # <<>> /\ left + w > MaxBytes THEN 1 ELSE 0

\* How many entries, the oldest first, an insertion of weight w evicts from es when
\* the counter is at `left`: it goes on while there are entries and the sum is too big.
Evicted(es, left, w) ==
    LET Full(n) == left - Weigh(SubSeq(es, 1, n)) + w > MaxBytes
    IN  CHOOSE n \in 0..Len(es) : /\ n < Len(es) => ~Full(n)
                                  /\ \A m \in 0..(n - 1) : Full(m)

\* Faulty: a load of before the clear may still store.
FitsIn(t, w) == w <= MaxBytes

Storable(t, w) == load[t].gen = generation /\ w <= MaxBytes

Insert(t, w) ==
    LET k    == load[t].key
        rest == Except(k)
        left == size - WeightOf(k)
        n    == Evicted(rest, left, w)
    IN  /\ entries' = SubSeq(rest, n + 1, Len(rest))
                \o <<[key |-> k, weight |-> w, fresh |-> TRUE, gen |-> load[t].gen]>>
        /\ size' = left - Weigh(SubSeq(rest, 1, n)) + w

\* A result that may be kept.
LoadOk(t, w) ==
    /\ load[t].st = "running"
    /\ IF Storable(t, w) THEN Insert(t, w) ELSE UNCHANGED <<entries, size>>
    /\ load' = [load EXCEPT ![t].st = "ended"]
    /\ UNCHANGED <<generation, flights, tasks, call>>

\* A result that is not cacheable, an error, or the end of a cancelled load.
LoadEnds(t) ==
    /\ Running(t)
    /\ load' = [load EXCEPT ![t].st = "ended"]
    /\ UNCHANGED <<entries, size, generation, flights, tasks, call>>

\* The done callback of get_or_load.
Finished(t) ==
    /\ t \in tasks /\ ~Running(t)
    /\ tasks' = tasks \ {t}
    /\ flights' = Landed(FlightOf(t), t)
    /\ load' = Forget(load, tasks')
    /\ UNCHANGED <<entries, size, generation, call>>

\* Faulty: the first request that leaves stops the load.
StopsAlways(r, t) ==
    LET drop == Running(t) IN
    /\ flights' = IF drop THEN Landed(FlightOf(t), t) ELSE flights
    /\ load' = Forget([load EXCEPT ![t].waiters = @ - 1,
                                   ![t].st = IF drop THEN "stopping" ELSE @], tasks)
    /\ call' = [call EXCEPT ![r] = Idle]
    /\ UNCHANGED <<entries, size, generation, tasks>>

\* Faulty: nobody stops the load.
StopsNever(r, t) ==
    /\ load' = Forget([load EXCEPT ![t].waiters = @ - 1], tasks)
    /\ call' = [call EXCEPT ![r] = Idle]
    /\ UNCHANGED <<entries, size, generation, tasks, flights>>

\* The finally of a request that stops waiting for t.
StopWaiting(r, t) ==
    LET left == load[t].waiters - 1
        drop == left = 0 /\ Running(t)
    IN  /\ flights' = IF drop THEN Landed(FlightOf(t), t) ELSE flights
        /\ load' = Forget([load EXCEPT ![t].waiters = left,
                                       ![t].st = IF drop THEN "stopping" ELSE @], tasks)
        /\ call' = [call EXCEPT ![r] = Idle]
        /\ UNCHANGED <<entries, size, generation, tasks>>

\* The result, the error or the cancellation of the load reaches the request.
Resume(r) ==
    /\ call[r].st = "joined"
    /\ call[r].on \notin tasks
    /\ StopWaiting(r, call[r].on)

\* The request is cancelled while it waits: its client has disconnected.
CancelledJoined(r) ==
    /\ call[r].st = "joined"
    /\ StopWaiting(r, call[r].on)

CancelledDirect(r) ==
    /\ call[r] = Direct
    /\ call' = [call EXCEPT ![r] = Idle]
    /\ UNCHANGED <<entries, size, generation, flights, tasks, load>>

--------------------------------------------------------------------------------
Expire(k) ==
    /\ \E i \in DOMAIN entries : entries[i].key = k /\ entries[i].fresh
    /\ entries' = [i \in DOMAIN entries |->
            IF entries[i].key = k THEN [entries[i] EXCEPT !.fresh = FALSE] ELSE entries[i]]
    /\ UNCHANGED <<size, generation, flights, tasks, load, call>>

Emptied ==
    /\ generation < MaxClears
    /\ generation' = generation + 1
    /\ entries' = <<>>
    /\ size' = 0
    /\ UNCHANGED <<flights, tasks, call>>

Clear == Emptied /\ UNCHANGED load

\* aclose: it cancels every load and returns when they have ended.
Close ==
    /\ Emptied
    /\ load' = [t \in Loads |->
            IF t \in tasks /\ Running(t) THEN [load[t] EXCEPT !.st = "stopping"] ELSE load[t]]

LookUp(r, k) == Hit(r, k) \/ Join(r, k) \/ Start(r, k) \/ Bypass(r, k)

Next ==
    \/ \E r \in Requests :
         \/ \E k \in Keys : LookUp(r, k)
         \/ DirectEnds(r) \/ Resume(r) \/ CancelledJoined(r) \/ CancelledDirect(r)
    \/ \E t \in Loads : (\E w \in Weights : LoadOk(t, w)) \/ LoadEnds(t) \/ Finished(t)
    \/ \E k \in Keys : Expire(k)
    \/ Clear \/ Close

Spec == Init /\ [][Next]_vars

--------------------------------------------------------------------------------
Load == [st : {"unused", "running", "stopping", "ended"}, gen : 0..MaxClears,
         key : Keys \cup {NoLoad}, waiters : Nat]

Entry == [key : Keys, weight : Weights, fresh : BOOLEAN, gen : 0..MaxClears]

TypeOK ==
    /\ entries \in Seq(Entry)
    /\ size \in Nat
    /\ generation \in 0..MaxClears
    /\ DOMAIN flights \subseteq (0..MaxClears) \X Keys
    /\ \A f \in DOMAIN flights : flights[f] \in Loads
    /\ tasks \subseteq Loads
    /\ load \in [Loads -> Load]
    /\ call \in [Requests -> [st : {"none", "direct", "joined"}, on : Loads \cup {NoLoad}]]

\* However entries are stored, replaced, expired, evicted and cleared, the byte
\* counter is the weight of what is cached, no key is cached twice, and the
\* budget is kept.
BudgetKept ==
    /\ size = Weigh(entries)
    /\ size <= MaxBytes
    /\ \A i, j \in DOMAIN entries : entries[i].key = entries[j].key => i = j

\* A load that was under way when the cache was cleared does not bring its
\* answer back into it.
ClearedStaysOut == \A i \in DOMAIN entries : entries[i].gen = generation

\* A request that starts to wait gets a load begun since the last clear: it does
\* not join one whose answer the clear was meant to drop.
JoinsCurrentLoads ==
    [][\A r \in Requests : call[r] = Idle /\ call'[r].st = "joined"
            => load'[call'[r].on].gen = generation]_vars

\* Two requests for the same key never make the database do the work twice, apart
\* from the overflow of MaxInFlight: identical loads that nobody has stopped are one.
OneLoadPerKey ==
    \A t, u \in Loads :
        load[t].st = "running" /\ load[u].st = "running" /\ FlightOf(t) = FlightOf(u)
            => t = u

\* The disconnect of one client never stops the load another one waits for: a
\* load with a waiter is stopped only by aclose, which moves the generation on.
SharedLoadsSurvive ==
    \A r \in Requests :
        call[r].st = "joined" /\ load[call[r].on].st = "stopping"
            => load[call[r].on].gen < generation
================================================================================
