---------------------------- MODULE LookupPathProofs ---------------------------
(***************************************************************************)
(* What the result cache and the admission control guarantee, for any      *)
(* number of requests, keys, loads in flight and slots, any sizes of the   *)
(* entries and any budget.                                                 *)
(*                                                                         *)
(* First the sharing of loads, in which the entries play no part; then the *)
(* entries and their weights; then the semaphores of admission, on their   *)
(* own and with the requests; and last what a lookup makes of both.        *)
(***************************************************************************)
EXTENDS LookupPath, FiniteSetTheorems, SequenceTheorems, TLAPS

Waiting(t) == {r \in Requests : call[r] = Awaits(t)}

CallOK ==
    call \in [Requests -> {Idle, Direct} \cup {Awaits(t) : t \in Loads}]

SharingTypeOK ==
    /\ generation \in Nat
    /\ flights = [f \in DOMAIN flights |-> flights[f]]
    /\ tasks \subseteq Loads
    /\ load \in [Loads -> [st : {"unused", "running", "stopping", "ended"}, gen : Nat,
                           key : Keys \cup {NoLoad}, waiters : Nat]]
    /\ CallOK

\* The counter of a flight counts the requests that wait for it.
CountInv == \A t \in Loads : load[t].waiters = Cardinality(Waiting(t))

\* _tasks holds the loads that have not ended, and some that have.
TaskInv ==
    \A t \in Loads :
        /\ t \in tasks => load[t].st # "unused"
        /\ Running(t) => t \in tasks
        /\ load[t].gen <= generation

\* A registered load is the one of its key, and one that was stopped is registered
\* for an earlier generation only; a load that goes on is registered.
FlightInv ==
    /\ \A f \in DOMAIN flights :
          /\ flights[f] \in tasks
          /\ FlightOf(flights[f]) = f
          /\ load[flights[f]].st = "stopping" => load[flights[f]].gen < generation
    /\ \A t \in Loads : load[t].st = "running" =>
          FlightOf(t) \in DOMAIN flights /\ flights[FlightOf(t)] = t

IInv == SharingTypeOK /\ CountInv /\ TaskInv /\ FlightInv /\ SharedLoadsSurvive

--------------------------------------------------------------------------------
\* Initially nothing is registered and nobody waits.
LEMMA SharingInit == Init => IInv
<1> SUFFICES ASSUME Init PROVE IInv
  OBVIOUS
<1>1. Waiting(NoLoad) = {} /\ \A t \in Loads : Waiting(t) = {}
  BY DEF Init, Waiting, Idle, Awaits
<1>2. CountInv
  BY <1>1, FS_EmptySet DEF Init, CountInv, Unused
<1>3. SharingTypeOK
  BY DEF Init, SharingTypeOK, CallOK, Unused, Idle
<1>4. TaskInv /\ FlightInv /\ SharedLoadsSurvive
  BY DEF Init, TaskInv, FlightInv, SharedLoadsSurvive, Unused, Idle, Running, FlightOf
<1> QED
  BY <1>2, <1>3, <1>4 DEF IInv

\* A request more, or a request less, changes the count by one.
LEMMA CountOne ==
    ASSUME NEW S, IsFiniteSet(S), NEW r
    PROVE  /\ r \notin S => Cardinality(S \cup {r}) = Cardinality(S) + 1
           /\ r \in S => Cardinality(S \ {r}) = Cardinality(S) - 1
           /\ Cardinality(S) \in Nat
           /\ Cardinality(S) = 0 <=> S = {}
  BY FS_AddElement, FS_RemoveElement, FS_CardinalityType, FS_EmptySet

\* The waiters of a load are requests, and finitely many.
LEMMA WaitingFinite == \A t : IsFiniteSet(Waiting(t))
  BY CacheAssumption, FS_Subset DEF Waiting

--------------------------------------------------------------------------------
\* The finally of a waiter: the count goes down, and the load is stopped only when
\* nobody is left.
LEMMA StopWaitingKeeps ==
    ASSUME IInv, NEW r \in Requests, NEW t \in Loads, call[r] = Awaits(t),
           StopWaiting(r, t)
    PROVE  IInv'
<1> DEFINE left == load[t].waiters - 1
           drop == left = 0 /\ Running(t)
           mid  == [load EXCEPT ![t].waiters = left,
                                ![t].st = IF drop THEN "stopping" ELSE @]
<1> USE DEF IInv
<1>1. /\ Waiting(t)' = Waiting(t) \ {r}
      /\ r \in Waiting(t)
      /\ \A u \in Loads : u # t => Waiting(u)' = Waiting(u)
  BY DEF StopWaiting, Waiting, SharingTypeOK, CallOK, Awaits, Idle
<1>2. /\ left \in Nat
      /\ left = Cardinality(Waiting(t)')
      /\ left = 0 => Waiting(t)' = {}
  <2>1. IsFiniteSet(Waiting(t)) /\ IsFiniteSet(Waiting(t) \ {r})
    BY WaitingFinite, FS_RemoveElement
  <2>2. /\ Cardinality(Waiting(t) \ {r}) = load[t].waiters - 1
        /\ Cardinality(Waiting(t) \ {r}) \in Nat
        /\ Cardinality(Waiting(t) \ {r}) = 0 => Waiting(t) \ {r} = {}
    BY <2>1, <1>1, CountOne DEF CountInv
  <2> QED
    BY <2>2, <1>1
<1>3. /\ mid \in [Loads -> [st : {"unused", "running", "stopping", "ended"}, gen : Nat,
                            key : Keys \cup {NoLoad}, waiters : Nat]]
      /\ mid[t].waiters = left
      /\ mid[t].gen = load[t].gen /\ mid[t].key = load[t].key
      /\ mid[t].st = IF drop THEN "stopping" ELSE load[t].st
      /\ \A u \in Loads : u # t => mid[u] = load[u]
  BY <1>2 DEF SharingTypeOK
<1>4. /\ load' = [u \in Loads |->
                     IF u \notin tasks /\ mid[u].waiters = 0 THEN Unused ELSE mid[u]]
      /\ flights' = IF drop THEN Landed(FlightOf(t), t) ELSE flights
      /\ call' = [call EXCEPT ![r] = Idle]
      /\ UNCHANGED <<generation, tasks>>
  BY DEF StopWaiting, Forget
<1>5. /\ DOMAIN flights' \subseteq DOMAIN flights
      /\ \A f \in DOMAIN flights' : flights'[f] = flights[f]
      /\ \A f \in DOMAIN flights : f \notin DOMAIN flights' =>
            drop /\ f = FlightOf(t) /\ flights[f] = t
      /\ drop => \A f \in DOMAIN flights' : flights'[f] # t
      /\ flights' = [f \in DOMAIN flights' |-> flights'[f]]
  BY <1>4 DEF Landed, Unregister, FlightInv, SharingTypeOK
<1>6. SharingTypeOK'
  BY <1>3, <1>4, <1>5 DEF SharingTypeOK, CallOK, Unused, Idle
<1>7. CountInv'
  <2> SUFFICES ASSUME NEW u \in Loads PROVE load'[u].waiters = Cardinality(Waiting(u)')
    BY DEF CountInv
  <2>1. mid[u].waiters = Cardinality(Waiting(u)')
    BY <1>1, <1>2, <1>3 DEF CountInv
  <2> QED
    BY <2>1, <1>4 DEF Unused
<1>8. TaskInv'
  BY <1>3, <1>4 DEF TaskInv, Running, Unused, SharingTypeOK
<1>9. \A u \in Loads : u \in tasks => load'[u] = mid[u]
  BY <1>4
<1>10. FlightInv'
  <2>1. ASSUME NEW f \in DOMAIN flights'
        PROVE  /\ flights'[f] \in tasks'
               /\ <<load'[flights'[f]].gen, load'[flights'[f]].key>> = f
               /\ load'[flights'[f]].st = "stopping" =>
                     load'[flights'[f]].gen < generation'
    <3>1. /\ f \in DOMAIN flights /\ flights'[f] = flights[f] /\ flights[f] \in tasks
          /\ flights[f] \in Loads /\ load'[flights[f]] = mid[flights[f]]
      BY <1>5, <1>9 DEF FlightInv, SharingTypeOK
    <3>2. /\ <<load[flights[f]].gen, load[flights[f]].key>> = f
          /\ load[flights[f]].st = "stopping" => load[flights[f]].gen < generation
      BY <3>1 DEF FlightInv, FlightOf
    <3>3. /\ mid[flights[f]].gen = load[flights[f]].gen
          /\ mid[flights[f]].key = load[flights[f]].key
          /\ flights[f] # t => mid[flights[f]].st = load[flights[f]].st
          /\ flights[f] = t => mid[flights[f]].st = load[flights[f]].st
      BY <3>1, <1>3, <1>5
    <3> HIDE DEF mid, left, drop
    <3> QED
      BY <3>1, <3>2, <3>3, <1>4
  <2>2. ASSUME NEW u \in Loads, load'[u].st = "running"
        PROVE  FlightOf(u)' \in DOMAIN flights' /\ flights'[FlightOf(u)'] = u
    <3>1. load'[u] = mid[u] /\ mid[u].st = load[u].st /\ ~(u = t /\ drop)
      BY <2>2, <1>3, <1>4 DEF Unused
    <3>2. FlightOf(u)' = FlightOf(u) /\ FlightOf(u) \in DOMAIN flights
            /\ flights[FlightOf(u)] = u
      BY <3>1, <2>2, <1>3 DEF FlightInv, FlightOf
    <3> QED
      BY <3>1, <3>2, <1>5
  <2> HIDE DEF mid, left, drop
  <2> QED
    BY <2>1, <2>2 DEF FlightInv, FlightOf
<1>11. SharedLoadsSurvive'
  <2> SUFFICES ASSUME NEW q \in Requests, call'[q].st = "joined",
                      load'[call'[q].on].st = "stopping"
               PROVE  load'[call'[q].on].gen < generation'
    BY DEF SharedLoadsSurvive
  <2>1. q # r /\ call'[q] = call[q] /\ \E u \in Loads : call[q] = Awaits(u)
    BY <1>4 DEF SharingTypeOK, CallOK, Idle, Direct, Awaits
  <2>2. PICK u \in Loads : call[q] = Awaits(u)
    BY <2>1
  <2>3. u = t => ~drop
    BY <2>1, <2>2, <1>2, <1>4 DEF Waiting
  <2>4. load'[u] = mid[u] /\ mid[u].st = load[u].st /\ mid[u].gen = load[u].gen
    BY <2>1, <2>2, <2>3, <1>3, <1>4 DEF Awaits, Unused
  <2>5. call[q].on = u /\ call'[q].on = u /\ call[q].st = "joined"
    BY <2>1, <2>2 DEF Awaits
  <2>6. load[u].st = "stopping" => load[u].gen < generation
    BY <2>5 DEF SharedLoadsSurvive
  <2> HIDE DEF mid, left, drop
  <2> QED
    BY <2>4, <2>5, <2>6, <1>4
<1> QED
  BY <1>6, <1>7, <1>8, <1>10, <1>11

--------------------------------------------------------------------------------
\* A request joins a registered load, or starts one.
LEMMA JoinKeeps ==
    ASSUME IInv, NEW r \in Requests, NEW k \in Keys, Join(r, k)
    PROVE  IInv'
<1> USE DEF IInv
<1>1. PICK t \in Loads : t = flights[Flight(k)] /\ t \in tasks /\ FlightOf(t) = Flight(k)
  BY DEF Join, FlightInv, SharingTypeOK
<1>2. CASE ~Running(t)
  <2>1. UNCHANGED <<generation, flights, tasks, load, call>>
    BY <1>2, <1>1 DEF Join
  <2> QED
    BY <2>1 DEF SharingTypeOK, CallOK, CountInv, Waiting, TaskInv, FlightInv, FlightOf,
                SharedLoadsSurvive, Running
<1>3. CASE Running(t)
  <2>1. load[t].gen = generation /\ load[t].st = "running"
    <3>1. load[t].gen = generation
      BY <1>1 DEF FlightOf, Flight
    <3>2. load[t].st = "stopping" => load[t].gen < generation
      BY <1>1 DEF Join, FlightInv
    <3> QED
      BY <3>1, <3>2, <1>3 DEF Running, SharingTypeOK
  <2>2. /\ call[r] = Idle
        /\ load' = [load EXCEPT ![t].waiters = @ + 1]
        /\ call' = [call EXCEPT ![r] = Awaits(t)]
        /\ UNCHANGED <<generation, flights, tasks>>
    BY <1>3, <1>1 DEF Join
  <2>3. \A u \in Loads : Awaits(u) # Idle /\ (u # t => Awaits(u) # Awaits(t))
    BY DEF Awaits, Idle
  <2>4. /\ Waiting(t)' = Waiting(t) \cup {r}
        /\ r \notin Waiting(t)
        /\ \A u \in Loads : u # t => Waiting(u)' = Waiting(u)
    BY <2>2, <2>3 DEF Waiting, SharingTypeOK, CallOK
  <2>5. /\ load'[t] = [load[t] EXCEPT !.waiters = @ + 1]
        /\ load[t].waiters \in Nat
        /\ \A u \in Loads : u # t => load'[u] = load[u]
        /\ \A u \in Loads : /\ load'[u].st = load[u].st
                            /\ load'[u].gen = load[u].gen
                            /\ load'[u].key = load[u].key
    BY <2>1, <2>2 DEF SharingTypeOK
  <2>6. SharingTypeOK'
    BY <2>1, <2>2, <2>5 DEF SharingTypeOK, CallOK
  <2>7. CountInv'
    <3>1. load'[t].waiters = Cardinality(Waiting(t)')
      <4>1. Cardinality(Waiting(t) \cup {r}) = Cardinality(Waiting(t)) + 1
        BY <2>4, WaitingFinite, CountOne
      <4>2. Cardinality(Waiting(t)) = load[t].waiters
        BY <2>1 DEF CountInv
      <4> QED
        BY <4>1, <4>2, <2>4, <2>5
    <3> QED
      BY <3>1, <2>4, <2>5 DEF CountInv
  <2>8. TaskInv'
    BY <2>2, <2>5 DEF TaskInv, Running
  <2>9. FlightInv'
    BY <2>2, <2>5 DEF FlightInv, FlightOf, SharingTypeOK
  <2>10. SharedLoadsSurvive'
    <3> SUFFICES ASSUME NEW q \in Requests, call'[q].st = "joined",
                        load'[call'[q].on].st = "stopping"
                 PROVE  load'[call'[q].on].gen < generation'
      BY DEF SharedLoadsSurvive
    <3>1. PICK u \in Loads : call'[q] = Awaits(u)
      BY <2>6 DEF SharingTypeOK, CallOK, Idle, Direct, Awaits
    <3>2. call'[q].on = u /\ load[u].st = "stopping"
      BY <3>1, <2>5 DEF Awaits
    <3>3. q # r /\ call[q] = Awaits(u)
      BY <3>1, <3>2, <2>1, <2>2 DEF SharingTypeOK, CallOK, Awaits
    <3> QED
      BY <3>2, <3>3, <2>2, <2>5 DEF SharedLoadsSurvive, Awaits
  <2> QED
    BY <2>6, <2>7, <2>8, <2>9, <2>10
<1> QED
  BY <1>2, <1>3

\* A request starts the load of its key.
LEMMA StartKeeps ==
    ASSUME IInv, NEW r \in Requests, NEW k \in Keys, Start(r, k)
    PROVE  IInv'
<1> USE DEF IInv
<1>1. PICK t \in Loads :
        /\ load[t] = Unused
        /\ load' = [load EXCEPT ![t] =
               [st |-> "running", gen |-> generation, key |-> k, waiters |-> 1]]
        /\ flights' = [f \in DOMAIN flights \cup {Flight(k)} |->
                           IF f = Flight(k) THEN t ELSE flights[f]]
        /\ tasks' = tasks \cup {t}
        /\ call' = [call EXCEPT ![r] = Awaits(t)]
  BY DEF Start
<1>2. call[r] = Idle /\ Flight(k) \notin DOMAIN flights /\ generation' = generation
  BY DEF Start
<1>3. t \notin tasks /\ \A f \in DOMAIN flights : flights[f] # t
  BY <1>1 DEF TaskInv, FlightInv, Unused
<1>4. Waiting(t) = {}
  BY <1>1, WaitingFinite, FS_EmptySet DEF CountInv, Unused
<1>5. /\ Waiting(t)' = {r}
      /\ \A u \in Loads : u # t => Waiting(u)' = Waiting(u)
  BY <1>1, <1>2, <1>4 DEF Waiting, SharingTypeOK, CallOK, Awaits, Idle
<1>6. /\ load'[t] = [st |-> "running", gen |-> generation, key |-> k, waiters |-> 1]
      /\ \A u \in Loads : u # t => load'[u] = load[u]
  BY <1>1 DEF SharingTypeOK
<1>7. SharingTypeOK'
  BY <1>1, <1>2 DEF SharingTypeOK, CallOK
<1>8. CountInv'
  BY <1>5, <1>6, FS_Singleton DEF CountInv
<1>9. TaskInv'
  BY <1>1, <1>2, <1>6 DEF TaskInv, Running, SharingTypeOK
<1>10. FlightInv'
  <2>1. ASSUME NEW f \in DOMAIN flights'
        PROVE  /\ flights'[f] \in tasks'
               /\ <<load'[flights'[f]].gen, load'[flights'[f]].key>> = f
               /\ load'[flights'[f]].st = "stopping" =>
                     load'[flights'[f]].gen < generation'
    <3>1. CASE f = Flight(k)
      BY <3>1, <1>1, <1>2, <1>6 DEF Flight
    <3>2. CASE f # Flight(k)
      <4>1. f \in DOMAIN flights /\ flights'[f] = flights[f] /\ flights[f] # t
        BY <3>2, <1>1, <1>3
      <4> QED
        BY <4>1, <1>1, <1>2, <1>6 DEF FlightInv, FlightOf, SharingTypeOK
    <3> QED
      BY <3>1, <3>2
  <2>2. ASSUME NEW u \in Loads, load'[u].st = "running"
        PROVE  <<load'[u].gen, load'[u].key>> \in DOMAIN flights'
               /\ flights'[<<load'[u].gen, load'[u].key>>] = u
    <3>1. CASE u = t
      BY <3>1, <1>1, <1>6 DEF Flight
    <3>2. CASE u # t
      BY <3>2, <2>2, <1>1, <1>2, <1>6 DEF FlightInv, FlightOf
    <3> QED
      BY <3>1, <3>2
  <2> QED
    BY <2>1, <2>2 DEF FlightInv, FlightOf
<1>11. SharedLoadsSurvive'
  <2> SUFFICES ASSUME NEW q \in Requests, call'[q].st = "joined",
                      load'[call'[q].on].st = "stopping"
               PROVE  load'[call'[q].on].gen < generation'
    BY DEF SharedLoadsSurvive
  <2>1. PICK u \in Loads : call'[q] = Awaits(u)
    BY <1>7 DEF SharingTypeOK, CallOK, Idle, Direct, Awaits
  <2>2. call'[q].on = u /\ u # t
    BY <2>1, <1>6 DEF Awaits
  <2>3. call[q] = Awaits(u)
    BY <2>1, <2>2, <1>1 DEF SharingTypeOK, CallOK, Awaits
  <2> QED
    BY <2>2, <2>3, <1>2, <1>6 DEF SharedLoadsSurvive, Awaits
<1> QED
  BY <1>7, <1>8, <1>9, <1>10, <1>11

--------------------------------------------------------------------------------
\* A request that loads for itself does not touch what is shared.
LEMMA DirectKeeps ==
    ASSUME IInv, NEW r \in Requests, call[r] \in {Idle, Direct},
           NEW c \in {Idle, Direct}, call' = [call EXCEPT ![r] = c],
           UNCHANGED <<generation, flights, tasks, load>>
    PROVE  IInv'
<1> USE DEF IInv
<1>1. \A u \in Loads : Awaits(u) # Idle /\ Awaits(u) # Direct
  BY DEF Awaits, Idle, Direct
<1>2. \A u \in Loads : Waiting(u)' = Waiting(u)
  BY <1>1 DEF Waiting, SharingTypeOK, CallOK
<1>3. SharingTypeOK'
  BY DEF SharingTypeOK, CallOK
<1>4. CountInv' /\ TaskInv' /\ FlightInv'
  BY <1>2 DEF CountInv, TaskInv, FlightInv, FlightOf, Running
<1>5. SharedLoadsSurvive'
  <2> SUFFICES ASSUME NEW q \in Requests, call'[q].st = "joined"
               PROVE  call'[q] = call[q]
    BY DEF SharedLoadsSurvive
  <2> QED
    BY DEF Idle, Direct, SharingTypeOK, CallOK
<1> QED
  BY <1>3, <1>4, <1>5

\* Nothing that is shared changes.
LEMMA UnsharedKeeps ==
    ASSUME IInv, UNCHANGED <<generation, flights, tasks, load, call>>
    PROVE  IInv'
  BY DEF IInv, SharingTypeOK, CallOK, CountInv, Waiting, TaskInv, FlightInv, FlightOf,
         SharedLoadsSurvive, Running

\* A load ends: it stays in _tasks until its callback runs.
LEMMA EndKeeps ==
    ASSUME IInv, NEW t \in Loads, Running(t), load' = [load EXCEPT ![t].st = "ended"],
           UNCHANGED <<generation, flights, tasks, call>>
    PROVE  IInv'
<1> USE DEF IInv
<1>1. /\ load' \in [Loads -> [st : {"unused", "running", "stopping", "ended"}, gen : Nat,
                              key : Keys \cup {NoLoad}, waiters : Nat]]
      /\ load'[t].st = "ended"
      /\ \A u \in Loads : /\ u # t => load'[u].st = load[u].st
                          /\ load'[u].gen = load[u].gen
                          /\ load'[u].key = load[u].key
                          /\ load'[u].waiters = load[u].waiters
  BY DEF SharingTypeOK
<1>2. SharingTypeOK' /\ CountInv'
  BY <1>1 DEF SharingTypeOK, CallOK, CountInv, Waiting
<1>3. TaskInv'
  BY <1>1 DEF TaskInv, Running
<1>4. FlightInv'
  BY <1>1 DEF FlightInv, FlightOf, SharingTypeOK
<1>5. SharedLoadsSurvive'
  <2> SUFFICES ASSUME NEW q \in Requests, call[q].st = "joined",
                      load'[call[q].on].st = "stopping"
               PROVE  load'[call[q].on].gen < generation
    BY DEF SharedLoadsSurvive
  <2>1. PICK u \in Loads : call[q] = Awaits(u)
    BY DEF SharingTypeOK, CallOK, Idle, Direct, Awaits
  <2> QED
    BY <2>1, <1>1 DEF SharedLoadsSurvive, Awaits
<1> QED
  BY <1>2, <1>3, <1>4, <1>5

\* The done callback takes the load out of _tasks and its own registration away.
LEMMA FinishedKeeps ==
    ASSUME IInv, NEW t \in Loads, Finished(t)
    PROVE  IInv'
<1> USE DEF IInv
<1>1. /\ t \in tasks /\ ~Running(t)
      /\ tasks' = tasks \ {t}
      /\ flights' = Landed(FlightOf(t), t)
      /\ load' = [u \in Loads |->
                     IF u \notin tasks' /\ load[u].waiters = 0 THEN Unused ELSE load[u]]
      /\ UNCHANGED <<generation, call>>
  BY DEF Finished, Forget
<1>2. /\ \A f \in DOMAIN flights' : f \in DOMAIN flights /\ flights'[f] = flights[f]
                                     /\ flights[f] # t
      /\ \A f \in DOMAIN flights : flights[f] # t => f \in DOMAIN flights'
      /\ flights' = [f \in DOMAIN flights' |-> flights'[f]]
  BY <1>1 DEF Landed, Unregister, FlightInv, SharingTypeOK
<1>3. /\ \A u \in tasks' : load'[u] = load[u]
      /\ \A u \in Loads : load'[u] = load[u] \/ load'[u] = Unused
      /\ \A u \in Loads : load'[u].waiters = load[u].waiters
  BY <1>1 DEF Unused, SharingTypeOK
<1>4. SharingTypeOK'
  BY <1>1, <1>2 DEF SharingTypeOK, CallOK, Unused
<1>5. CountInv'
  BY <1>1, <1>3 DEF CountInv, Waiting
<1>6. TaskInv'
  BY <1>1, <1>3 DEF TaskInv, Running, Unused, SharingTypeOK
<1>7. FlightInv'
  <2>1. ASSUME NEW f \in DOMAIN flights'
        PROVE  /\ flights'[f] \in tasks'
               /\ <<load'[flights'[f]].gen, load'[flights'[f]].key>> = f
               /\ load'[flights'[f]].st = "stopping" =>
                     load'[flights'[f]].gen < generation'
    BY <1>1, <1>2, <1>3 DEF FlightInv, FlightOf
  <2>2. ASSUME NEW u \in Loads, load'[u].st = "running"
        PROVE  <<load'[u].gen, load'[u].key>> \in DOMAIN flights'
               /\ flights'[<<load'[u].gen, load'[u].key>>] = u
    <3>1. load'[u] = load[u] /\ u # t
      BY <2>2, <1>1, <1>3 DEF Unused, Running
    <3> QED
      BY <2>2, <3>1, <1>2 DEF FlightInv, FlightOf
  <2> QED
    BY <2>1, <2>2 DEF FlightInv, FlightOf
<1>8. SharedLoadsSurvive'
  <2> SUFFICES ASSUME NEW q \in Requests, call[q].st = "joined",
                      load'[call[q].on].st = "stopping"
               PROVE  load'[call[q].on].gen < generation
    BY <1>1 DEF SharedLoadsSurvive
  <2>1. PICK u \in Loads : call[q] = Awaits(u)
    BY DEF SharingTypeOK, CallOK, Idle, Direct, Awaits
  <2>2. call[q].on = u /\ load'[u] = load[u]
    BY <2>1, <1>3 DEF Awaits, Unused
  <2> QED
    BY <2>2 DEF SharedLoadsSurvive
<1> QED
  BY <1>4, <1>5, <1>6, <1>7, <1>8

\* clear and aclose: the loads under way belong to an older generation.
LEMMA EmptiedKeeps ==
    ASSUME IInv, Clear \/ Close
    PROVE  IInv'
<1> USE DEF IInv
<1>1. generation' = generation + 1 /\ generation \in Nat
      /\ UNCHANGED <<flights, tasks, call>>
  BY DEF Clear, Close, Emptied, SharingTypeOK
<1>2. /\ load' \in [Loads -> [st : {"unused", "running", "stopping", "ended"}, gen : Nat,
                              key : Keys \cup {NoLoad}, waiters : Nat]]
      /\ \A u \in Loads : /\ load'[u].gen = load[u].gen
                          /\ load'[u].key = load[u].key
                          /\ load'[u].waiters = load[u].waiters
                          /\ load'[u].st # load[u].st =>
                                 u \in tasks /\ Running(u) /\ load'[u].st = "stopping"
  BY DEF Clear, Close, SharingTypeOK, Running
<1>3. SharingTypeOK' /\ CountInv'
  BY <1>1, <1>2 DEF SharingTypeOK, CallOK, CountInv, Waiting
<1>4. \A u \in Loads : load'[u].gen < generation'
  BY <1>1, <1>2 DEF TaskInv, SharingTypeOK
<1>5. TaskInv'
  BY <1>1, <1>2, <1>4 DEF TaskInv, Running, SharingTypeOK
<1>6. FlightInv'
  BY <1>1, <1>2, <1>4 DEF FlightInv, FlightOf, SharingTypeOK
<1>7. SharedLoadsSurvive'
  <2> SUFFICES ASSUME NEW q \in Requests, call[q].st = "joined"
               PROVE  load'[call[q].on].gen < generation'
    BY <1>1 DEF SharedLoadsSurvive
  <2>1. PICK u \in Loads : call[q] = Awaits(u)
    BY DEF SharingTypeOK, CallOK, Idle, Direct, Awaits
  <2> QED
    BY <2>1, <1>4 DEF Awaits
<1> QED
  BY <1>3, <1>5, <1>6, <1>7

--------------------------------------------------------------------------------
\* Every step of the cache keeps the invariant.
LEMMA SharingStep == IInv /\ [Next]_vars => IInv'
<1> SUFFICES ASSUME IInv, [Next]_vars PROVE IInv'
  OBVIOUS
<1>1. ASSUME NEW r \in Requests, NEW k \in Keys, LookUp(r, k)
      PROVE  IInv'
  <2>1. CASE Hit(r, k)
    BY <2>1, UnsharedKeeps DEF Hit
  <2>2. CASE Join(r, k)
    BY <2>2, JoinKeeps
  <2>3. CASE Start(r, k)
    BY <2>3, StartKeeps
  <2>4. CASE Bypass(r, k)
    BY <2>4, DirectKeeps DEF Bypass
  <2> QED
    BY <1>1, <2>1, <2>2, <2>3, <2>4 DEF LookUp
<1>2. ASSUME NEW r \in Requests, DirectEnds(r) \/ CancelledDirect(r)
      PROVE  IInv'
  BY <1>2, DirectKeeps DEF DirectEnds, CancelledDirect
<1>3. ASSUME NEW r \in Requests, Resume(r) \/ CancelledJoined(r)
      PROVE  IInv'
  <2>1. PICK t \in Loads : call[r] = Awaits(t)
    BY <1>3 DEF Resume, CancelledJoined, IInv, SharingTypeOK, CallOK, Idle, Direct
  <2>2. StopWaiting(r, t)
    BY <1>3, <2>1 DEF Resume, CancelledJoined, Awaits
  <2> QED
    BY <2>1, <2>2, StopWaitingKeeps
<1>4. ASSUME NEW t \in Loads, (\E w \in Weights : LoadOk(t, w)) \/ LoadEnds(t)
      PROVE  IInv'
  BY <1>4, EndKeeps DEF LoadOk, LoadEnds, Running
<1>5. ASSUME NEW t \in Loads, Finished(t)
      PROVE  IInv'
  BY <1>5, FinishedKeeps
<1>6. ASSUME NEW k \in Keys, Expire(k)
      PROVE  IInv'
  BY <1>6, UnsharedKeeps DEF Expire
<1>7. CASE Clear \/ Close
  BY <1>7, EmptiedKeeps
<1>8. CASE UNCHANGED vars
  BY <1>8, UnsharedKeeps DEF vars
<1> QED
  BY <1>1, <1>2, <1>3, <1>4, <1>5, <1>6, <1>7, <1>8 DEF Next

\* The inductive invariant of the shared loads: the counters count, _tasks holds
\* what is under way, and what is registered is the one load of its key.
THEOREM SharingInductive == Spec => []IInv
  BY SharingInit, SharingStep, PTL DEF Spec

--------------------------------------------------------------------------------
\* Identical loads that nobody has stopped are one, whatever the order in which
\* loads end, callbacks run and requests come and go (get_or_load, finished).
THEOREM OneLoadPerKeyHolds == Spec => []OneLoadPerKey
<1>1. IInv => OneLoadPerKey
  BY DEF IInv, FlightInv, OneLoadPerKey
<1> QED
  BY <1>1, SharingInductive, PTL

\* The disconnect of one client never stops the load of another (the finally of
\* get_or_load); only aclose does.
THEOREM SharedLoadsSurviveHolds == Spec => []SharedLoadsSurvive
<1>1. IInv => SharedLoadsSurvive
  BY DEF IInv
<1> QED
  BY <1>1, SharingInductive, PTL

\* A request that starts to wait waits for a load of the current generation: a
\* clear separates the answers of before from the requests of after.
THEOREM JoinsCurrentLoadsHolds == Spec => JoinsCurrentLoads
<1>1. ASSUME IInv, [Next]_vars, NEW r \in Requests,
             call[r] = Idle, call'[r].st = "joined"
      PROVE  load'[call'[r].on].gen = generation
  <2>1. ASSUME NEW q \in Requests, NEW k \in Keys, Join(q, k)
        PROVE  load'[call'[r].on].gen = generation
    <3>1. PICK t \in Loads : /\ t = flights[Flight(k)] /\ t \in tasks
                             /\ load[t].gen = generation
      BY <2>1, <1>1 DEF Join, IInv, FlightInv, SharingTypeOK, FlightOf, Flight
    <3>2. Running(t) /\ q = r
      BY <2>1, <3>1, <1>1 DEF Join, Idle, IInv, SharingTypeOK, CallOK
    <3>3. load' = [load EXCEPT ![t].waiters = @ + 1] /\ call'[r] = Awaits(t)
      BY <2>1, <3>1, <3>2, <1>1 DEF Join, IInv, SharingTypeOK, CallOK
    <3>4. load'[t].gen = load[t].gen /\ call'[r].on = t
      BY <3>3, <1>1 DEF Awaits, IInv, SharingTypeOK
    <3> QED
      BY <2>1, <3>1, <3>4 DEF Join
  <2>2. ASSUME NEW q \in Requests, NEW k \in Keys, Start(q, k)
        PROVE  load'[call'[r].on].gen = generation
    <3>1. q = r
      BY <2>2, <1>1 DEF Start, Idle, IInv, SharingTypeOK, CallOK
    <3>2. PICK t \in Loads :
            /\ load' = [load EXCEPT ![t] =
                   [st |-> "running", gen |-> generation, key |-> k, waiters |-> 1]]
            /\ call' = [call EXCEPT ![r] = Awaits(t)]
      BY <2>2, <3>1 DEF Start
    <3>3. load'[t].gen = generation /\ call'[r].on = t
      BY <3>2, <1>1 DEF Awaits, IInv, SharingTypeOK, CallOK
    <3> QED
      BY <2>2, <3>3 DEF Start
  <2>3. ASSUME NEW q \in Requests, NEW c \in {Idle, Direct}, call' = [call EXCEPT ![q] = c]
        PROVE  FALSE
    BY <2>3, <1>1 DEF Idle, Direct, IInv, SharingTypeOK, CallOK
  <2>4. call' # call
    BY <1>1 DEF Idle
  <2>5. Next
    BY <1>1, <2>4 DEF vars
  <2>6. ASSUME NEW q \in Requests, NEW k \in Keys, LookUp(q, k)
        PROVE  load'[call'[r].on].gen = generation
    BY <2>6, <2>1, <2>2, <2>3, <2>4 DEF LookUp, Hit, Bypass
  <2>7. ASSUME NEW q \in Requests,
               DirectEnds(q) \/ Resume(q) \/ CancelledJoined(q) \/ CancelledDirect(q)
        PROVE  FALSE
    BY <2>7, <2>3 DEF DirectEnds, Resume, CancelledJoined, CancelledDirect, StopWaiting
  <2>8. ASSUME NEW t \in Loads,
               (\E w \in Weights : LoadOk(t, w)) \/ LoadEnds(t) \/ Finished(t)
        PROVE  FALSE
    BY <2>8, <2>4 DEF LoadOk, LoadEnds, Finished
  <2>9. ASSUME (\E k \in Keys : Expire(k)) \/ Clear \/ Close
        PROVE  FALSE
    BY <2>9, <2>4 DEF Expire, Clear, Close, Emptied
  <2> QED
    BY <2>5, <2>6, <2>7, <2>8, <2>9 DEF Next
<1>2. IInv /\ [Next]_vars =>
        [\A r \in Requests : call[r] = Idle /\ call'[r].st = "joined"
             => load'[call'[r].on].gen = generation]_vars
  BY <1>1
<1> QED
  BY <1>2, SharingInductive, PTL DEF Spec, JoinsCurrentLoads

--------------------------------------------------------------------------------
(* The weight of the entries is a sum over a sequence, and a sum is a count:   *)
(* entry i of weight w stands for the bytes <<i, 1>> .. <<i, w>>.              *)
Bytes(es, D) == {p \in D \X Nat : 1 <= p[2] /\ p[2] <= es[p[1]].weight}

Weighty(es) == /\ IsFiniteSet(DOMAIN es)
               /\ \A i \in DOMAIN es : es[i].weight \in Nat

\* One entry has as many bytes as its weight.
LEMMA BytesOne ==
    ASSUME NEW es, NEW x, es[x].weight \in Nat
    PROVE  /\ IsFiniteSet(Bytes(es, {x}))
           /\ Cardinality(Bytes(es, {x})) = es[x].weight
<1>1. PICK w \in Nat : w = es[x].weight
  OBVIOUS
<1>2. IsFiniteSet(1..w) /\ Cardinality(1..w) = w
  <2>1. 1 \in Int /\ w \in Int
    BY <1>1
  <2>2. IsFiniteSet(1..w) /\ Cardinality(1..w) = IF 1 > w THEN 0 ELSE w - 1 + 1
    BY ONLY <2>1, FS_Interval, Zenon
  <2> QED
    BY <1>1, <2>2
<1>3. Bytes(es, {x}) = {x} \X (1..w)
  BY <1>1 DEF Bytes
<1>4. IsFiniteSet({x}) /\ Cardinality({x}) = 1
  BY FS_Singleton
<1>5. /\ IsFiniteSet({x} \X (1..w))
      /\ Cardinality({x} \X (1..w)) = 1 * w
  BY <1>2, <1>4, FS_Product
<1>6. 1 * w = w
  BY <1>1
<1> QED
  BY <1>1, <1>3, <1>5, <1>6

\* The bytes of two sets of places that do not meet add up.
LEMMA BytesSplit ==
    ASSUME NEW es, NEW S, NEW T, S \cap T = {},
           IsFiniteSet(Bytes(es, S)), IsFiniteSet(Bytes(es, T))
    PROVE  /\ IsFiniteSet(Bytes(es, S \cup T))
           /\ Cardinality(Bytes(es, S \cup T)) =
                  Cardinality(Bytes(es, S)) + Cardinality(Bytes(es, T))
<1>1. Bytes(es, S \cup T) = Bytes(es, S) \cup Bytes(es, T)
  BY DEF Bytes
<1>2. Bytes(es, S) \cap Bytes(es, T) = {}
  BY DEF Bytes
<1>3. Cardinality({}) = 0
  BY FS_EmptySet
<1>4. Cardinality(Bytes(es, S)) \in Nat /\ Cardinality(Bytes(es, T)) \in Nat
  BY FS_CardinalityType
<1>5. /\ IsFiniteSet(Bytes(es, S) \cup Bytes(es, T))
      /\ Cardinality(Bytes(es, S) \cup Bytes(es, T)) =
            Cardinality(Bytes(es, S)) + Cardinality(Bytes(es, T))
              - Cardinality(Bytes(es, S) \cap Bytes(es, T))
  BY FS_Union, Zenon
<1>6. Cardinality(Bytes(es, S) \cap Bytes(es, T)) = 0
  BY <1>2, <1>3, Zenon
<1>7. PICK a \in Nat, b \in Nat : a = Cardinality(Bytes(es, S)) /\ b = Cardinality(Bytes(es, T))
  BY <1>4
<1>8. a + b - 0 = a + b
  BY <1>7
<1>9. Cardinality(Bytes(es, S) \cup Bytes(es, T)) = a + b
  BY <1>5, <1>6, <1>7, <1>8
<1> QED
  BY <1>1, <1>5, <1>7, <1>9

\* The bytes of some of the entries can be counted.
LEMMA BytesFinite ==
    ASSUME NEW es, Weighty(es), NEW D, D \subseteq DOMAIN es
    PROVE  IsFiniteSet(Bytes(es, D)) /\ Cardinality(Bytes(es, D)) \in Nat
<1> DEFINE one == [x \in D |-> Bytes(es, {x})]
           all == {one[x] : x \in D}
<1>1. IsFiniteSet(D)
  BY FS_Subset DEF Weighty
<1>2. one \in Surjection(D, all)
  BY DEF Surjection
<1>3. IsFiniteSet(all)
  <2> HIDE DEF one, all
  <2> QED BY <1>1, <1>2, FS_Surjection
<1>4. \A x \in D : es[x].weight \in Nat
  BY DEF Weighty
<1>5. \A B \in all : IsFiniteSet(B)
  <2> SUFFICES ASSUME NEW x \in D PROVE IsFiniteSet(Bytes(es, {x}))
    OBVIOUS
  <2> QED
    BY <1>4, BytesOne
<1>6. Bytes(es, D) = UNION all
  BY DEF Bytes
<1>7. IsFiniteSet(UNION all)
  BY <1>3, <1>5, FS_UNION
<1> QED
  BY <1>6, <1>7, FS_CardinalityType

\* Weigh, the fold over the places, counts the bytes of all of them.
LEMMA WeighIsBytes ==
    ASSUME NEW es, NEW D, D = DOMAIN es, Weighty(es)
    PROVE  Weigh(es) = Cardinality(Bytes(es, D))
<1> DEFINE Eqn(g) == g = [s \in SUBSET D |->
               IF s = {} THEN 0
               ELSE LET x == CHOOSE y \in s : TRUE IN es[x].weight + g[s \ {x}]]
           card == [s \in SUBSET D |-> Cardinality(Bytes(es, s))]
<1>1. ASSUME NEW s \in SUBSET D
      PROVE  IsFiniteSet(s) /\ IsFiniteSet(Bytes(es, s)) /\ Cardinality(Bytes(es, s)) \in Nat
  BY BytesFinite, FS_Subset DEF Weighty
<1>2. ASSUME NEW s \in SUBSET D, NEW x \in s
      PROVE  Cardinality(Bytes(es, s)) = es[x].weight + Cardinality(Bytes(es, s \ {x}))
  <2>1. es[x].weight \in Nat
    BY DEF Weighty
  <2>2. /\ IsFiniteSet(Bytes(es, {x}))
        /\ Cardinality(Bytes(es, {x})) = es[x].weight
    BY <2>1, BytesOne
  <2>3. s \ {x} \in SUBSET D
    OBVIOUS
  <2>4. IsFiniteSet(Bytes(es, s \ {x})) /\ Cardinality(Bytes(es, s \ {x})) \in Nat
    BY <2>3, <1>1
  <2>5. {x} \cap (s \ {x}) = {} /\ s = {x} \cup (s \ {x})
    OBVIOUS
  <2> QED
    BY <2>1, <2>2, <2>4, <2>5, BytesSplit
<1>3. Bytes(es, {}) = {} /\ Cardinality(Bytes(es, {})) = 0
  BY FS_EmptySet DEF Bytes
<1>4. Eqn(card)
  <2>1. ASSUME NEW s \in SUBSET D, s # {}, NEW x, x = CHOOSE y \in s : TRUE
        PROVE  card[s] = es[x].weight + card[s \ {x}]
    <3>1. x \in s
      BY <2>1
    <3> QED
      BY <3>1, <1>2
  <2> QED
    BY <1>3, <2>1
<1>5. ASSUME NEW g, Eqn(g)
      PROVE  g[D] = card[D]
  <2> DEFINE Bad == {s \in SUBSET D : g[s] # card[s]}
             R   == StrictSubsetOrdering(D)
  <2>1. IsWellFoundedOn(R, FiniteSubsetsOf(D))
    BY FS_StrictSubsetOrderingWellFounded
  <2>2. FiniteSubsetsOf(D) = SUBSET D
    BY <1>1 DEF FiniteSubsetsOf
  <2>3. CASE Bad # {}
    <3>1. Bad \subseteq SUBSET D
      OBVIOUS
    <3>2. PICK s \in Bad : \A u \in Bad : <<u, s>> \notin R
      <4> HIDE DEF Bad, R
      <4> QED BY <2>1, <2>2, <2>3, <3>1, WFMin
    <3>3. s # {}
      BY <1>3, <1>5
    <3>4. PICK x \in s : x = CHOOSE y \in s : TRUE
      BY <3>3
    <3>5. s \in SUBSET D /\ s \ {x} \in SUBSET D
      OBVIOUS
    <3>6. <<s \ {x}, s>> \in R
      BY <3>5 DEF StrictSubsetOrdering
    <3>7. g[s \ {x}] = card[s \ {x}]
      BY <3>2, <3>5, <3>6
    <3>8. g[s] = es[x].weight + g[s \ {x}]
      BY <1>5, <3>3, <3>4, <3>5
    <3>9. card[s] = es[x].weight + card[s \ {x}]
      BY <1>2, <3>5
    <3> QED
      BY <3>7, <3>8, <3>9
  <2>4. CASE Bad = {}
    BY <2>4
  <2> QED
    BY <2>3, <2>4
<1>6. Weigh(es) = (CHOOSE g : Eqn(g))[D]
  BY DEF Weigh, MapThenSumSet, MapThenFoldSet
<1>7. Eqn(CHOOSE g : Eqn(g))
  <2> HIDE DEF Eqn, card
  <2> QED BY <1>4
<1>8. (CHOOSE g : Eqn(g))[D] = card[D]
  <2> HIDE DEF Eqn, card
  <2> QED BY <1>5, <1>7
<1> QED
  BY <1>6, <1>8

--------------------------------------------------------------------------------
\* The entries of the cache have weights.
LEMMA EntriesWeighty ==
    ASSUME NEW es \in Seq(Entry)
    PROVE  /\ Weighty(es)
           /\ DOMAIN es = 1..Len(es)
           /\ Len(es) \in Nat
           /\ \A i \in 1..Len(es) : es[i] \in Entry /\ es[i].weight \in Nat
<1>1. /\ DOMAIN es = 1..Len(es)
      /\ Len(es) \in Nat
      /\ \A i \in 1..Len(es) : es[i] \in Entry
  BY LenProperties
<1>2. IsFiniteSet(1..Len(es))
  <2>1. 1 \in Int /\ Len(es) \in Int
    BY <1>1
  <2> QED
    BY ONLY <2>1, FS_Interval, Zenon
<1>3. \A i \in 1..Len(es) : es[i].weight \in Nat
  BY <1>1, CacheAssumption DEF Entry
<1> QED
  BY <1>1, <1>2, <1>3 DEF Weighty

\* The weight of the entries is a natural number.
LEMMA WeighNat ==
    ASSUME NEW es \in Seq(Entry)
    PROVE  Weigh(es) \in Nat
  BY EntriesWeighty, WeighIsBytes, BytesFinite

\* Nothing weighs nothing.
LEMMA WeighNone == Weigh(<<>>) = 0
<1>1. Weighty(<<>>)
  BY FS_EmptySet DEF Weighty
<1>2. DOMAIN <<>> = {} /\ Bytes(<<>>, {}) = {}
  BY DEF Bytes
<1>3. Weigh(<<>>) = Cardinality(Bytes(<<>>, {}))
  BY <1>1, <1>2, WeighIsBytes
<1> QED
  BY <1>2, <1>3, FS_EmptySet

\* One entry weighs its weight.
LEMMA WeighOne ==
    ASSUME NEW e \in Entry
    PROVE  Weigh(<<e>>) = e.weight
<1>1. <<e>> \in Seq(Entry) /\ DOMAIN <<e>> = {1} /\ <<e>>[1] = e
  OBVIOUS
<1>2. Weighty(<<e>>)
  BY <1>1, EntriesWeighty
<1>3. Weigh(<<e>>) = Cardinality(Bytes(<<e>>, {1}))
  BY <1>1, <1>2, WeighIsBytes
<1>4. <<e>>[1].weight \in Nat
  BY <1>1, <1>2 DEF Weighty
<1> QED
  BY <1>1, <1>3, <1>4, BytesOne

\* The same weights in the same places weigh the same.
LEMMA WeighSame ==
    ASSUME NEW s \in Seq(Entry), NEW t \in Seq(Entry), Len(s) = Len(t),
           \A i \in 1..Len(s) : s[i].weight = t[i].weight
    PROVE  Weigh(s) = Weigh(t)
<1>1. Bytes(s, 1..Len(s)) = Bytes(t, 1..Len(t))
  BY DEF Bytes
<1>2. Weigh(s) = Cardinality(Bytes(s, 1..Len(s)))
  BY EntriesWeighty, WeighIsBytes
<1>3. Weigh(t) = Cardinality(Bytes(t, 1..Len(t)))
  BY EntriesWeighty, WeighIsBytes
<1> QED
  BY <1>1, <1>2, <1>3

\* The weight of a concatenation is the sum: the bytes of the second part are moved
\* behind those of the first.
LEMMA WeighConcat ==
    ASSUME NEW s \in Seq(Entry), NEW t \in Seq(Entry)
    PROVE  Weigh(s \o t) = Weigh(s) + Weigh(t)
<1>1. PICK a \in Nat, b \in Nat : a = Len(s) /\ b = Len(t)
  BY EntriesWeighty
<1>2. PICK u \in Seq(Entry) : /\ u = s \o t /\ Len(u) = a + b
                              /\ \A i \in 1..(a + b) : u[i] = IF i <= a THEN s[i] ELSE t[i - a]
  <2>1. /\ s \o t \in Seq(Entry) /\ Len(s \o t) = Len(s) + Len(t)
        /\ \A i \in 1..(Len(s) + Len(t)) :
              (s \o t)[i] = IF i <= Len(s) THEN s[i] ELSE t[i - Len(s)]
    BY ConcatProperties, Zenon
  <2> QED
    BY <2>1, <1>1
<1>3. Weigh(u) = Cardinality(Bytes(u, 1..(a + b)))
  BY <1>2, EntriesWeighty, WeighIsBytes
<1>4. Weigh(s) = Cardinality(Bytes(s, 1..a)) /\ Weigh(t) = Cardinality(Bytes(t, 1..b))
  BY <1>1, EntriesWeighty, WeighIsBytes
<1>5. IsFiniteSet(Bytes(s, 1..a)) /\ IsFiniteSet(Bytes(t, 1..b))
  BY <1>1, EntriesWeighty, BytesFinite
<1>6. Bytes(u, 1..a) = Bytes(s, 1..a)
  BY <1>2 DEF Bytes
<1>7. /\ IsFiniteSet(Bytes(u, (a + 1)..(a + b)))
      /\ Cardinality(Bytes(u, (a + 1)..(a + b))) = Cardinality(Bytes(t, 1..b))
  <2> DEFINE A == Bytes(t, 1..b)
             B == Bytes(u, (a + 1)..(a + b))
             move == [p \in A |-> <<p[1] + a, p[2]>>]
  <2>1. \A i \in 1..b : i + a \in (a + 1)..(a + b) /\ u[i + a] = t[i]
    BY <1>2
  <2>2. ASSUME NEW p \in A PROVE move[p] \in B
    <3>1. p[1] \in 1..b /\ p[2] \in Nat /\ 1 <= p[2] /\ p[2] <= t[p[1]].weight
      BY DEF Bytes
    <3> QED
      BY <3>1, <2>1 DEF Bytes
  <2>3. ASSUME NEW p \in A, NEW q \in A, move[p] = move[q] PROVE p = q
    <3>1. /\ p \in (1..b) \X Nat /\ q \in (1..b) \X Nat
          /\ p[1] + a = q[1] + a /\ p[2] = q[2]
      BY <2>3 DEF Bytes
    <3> QED
      BY <3>1
  <2>4. ASSUME NEW q \in B PROVE \E p \in A : move[p] = q
    <3>1. /\ q \in ((a + 1)..(a + b)) \X Nat
          /\ 1 <= q[2] /\ q[2] <= u[q[1]].weight
      BY DEF Bytes
    <3>2. q[1] - a \in 1..b /\ u[q[1]] = t[q[1] - a] /\ q[2] \in Nat
      BY <3>1, <1>2
    <3>3. <<q[1] - a, q[2]>> \in A
      BY <3>1, <3>2 DEF Bytes
    <3>4. move[<<q[1] - a, q[2]>>] = <<(q[1] - a) + a, q[2]>>
      BY <3>3
    <3>5. <<(q[1] - a) + a, q[2]>> = q
      BY <3>1
    <3> HIDE DEF A, move
    <3> QED
      BY <3>3, <3>4, <3>5, Zenon
  <2>5. move \in Bijection(A, B)
    <3>1. move \in [A -> B]
      BY <2>2
    <3> HIDE DEF A, B, move
    <3> QED
      BY <2>3, <2>4, <3>1 DEF Bijection, Injection, Surjection, IsInjective
  <2>6. ExistsBijection(A, B)
    BY <2>5 DEF ExistsBijection
  <2> HIDE DEF A, B, move
  <2>7. IsFiniteSet(B) /\ Cardinality(B) = Cardinality(A)
    BY <2>6, <1>5, FS_Bijection DEF A
  <2> QED
    BY <2>7 DEF A, B
<1>8. 1..(a + b) = (1..a) \cup ((a + 1)..(a + b)) /\ (1..a) \cap ((a + 1)..(a + b)) = {}
  OBVIOUS
<1>9. Cardinality(Bytes(u, (1..a) \cup ((a + 1)..(a + b)))) =
          Cardinality(Bytes(u, 1..a)) + Cardinality(Bytes(u, (a + 1)..(a + b)))
  BY <1>5, <1>6, <1>7, <1>8, BytesSplit
<1> QED
  BY <1>2, <1>3, <1>4, <1>6, <1>7, <1>8, <1>9

\* One entry more weighs its weight more.
LEMMA WeighAppend ==
    ASSUME NEW es \in Seq(Entry), NEW e \in Entry
    PROVE  Weigh(Append(es, e)) = Weigh(es) + e.weight
<1>1. <<e>> \in Seq(Entry) /\ Append(es, e) = es \o <<e>>
  BY AppendIsConcat
<1> QED
  BY <1>1, WeighConcat, WeighOne

\* The evicted and the kept weigh what all of them did.
LEMMA WeighParts ==
    ASSUME NEW es \in Seq(Entry), NEW n \in 0..Len(es)
    PROVE  /\ SubSeq(es, 1, n) \in Seq(Entry)
           /\ SubSeq(es, n + 1, Len(es)) \in Seq(Entry)
           /\ Weigh(es) = Weigh(SubSeq(es, 1, n)) + Weigh(SubSeq(es, n + 1, Len(es)))
<1>1. Len(es) \in Nat /\ \A i \in 1..Len(es) : es[i] \in Entry
  BY EntriesWeighty
<1>2. SubSeq(es, 1, n) \in Seq(Entry) /\ SubSeq(es, n + 1, Len(es)) \in Seq(Entry)
  BY <1>1, SubSeqProperties
<1>3. es = SubSeq(es, 1, n) \o SubSeq(es, n + 1, Len(es))
  <2>1. 1 \in 1..(Len(es) + 1) /\ n \in (1 - 1)..Len(es) /\ Len(es) \in n..Len(es)
    BY <1>1
  <2>2. SubSeq(es, 1, n) \o SubSeq(es, n + 1, Len(es)) = SubSeq(es, 1, Len(es))
    BY <2>1, ConcatAdjacentSubSeq
  <2> QED
    BY <2>2, SubSeqFull
<1> QED
  BY <1>2, <1>3, WeighConcat

--------------------------------------------------------------------------------
\* A set of natural numbers has a least element.
LEMMA Least ==
    ASSUME NEW T, T \subseteq Nat, T # {}
    PROVE  \E m \in T : \A k \in T : m <= k
<1> DEFINE R == OpToRel(<, Nat)
<1>1. IsWellFoundedOn(R, Nat)
  BY NatLessThanWellFounded
<1>2. PICK m \in T : \A k \in T : <<k, m>> \notin R
  <2> HIDE DEF R
  <2> QED
    BY <1>1, WFMin
<1>3. \A k \in T : ~(k < m)
  BY <1>2 DEF OpToRel
<1> QED
  BY <1>3

\* The elements of a slice.
LEMMA Slice ==
    ASSUME NEW S, NEW es, NEW a \in Int, NEW b \in Int, a <= b + 1,
           \A i \in a..b : es[i] \in S
    PROVE  /\ SubSeq(es, a, b) \in Seq(S)
           /\ Len(SubSeq(es, a, b)) = b - a + 1
           /\ \A i \in 1..(b - a + 1) : SubSeq(es, a, b)[i] = es[a + i - 1]
<1>1. /\ SubSeq(es, a, b) \in Seq(S)
      /\ Len(SubSeq(es, a, b)) = IF a <= b THEN b - a + 1 ELSE 0
      /\ \A i \in 1..b - a + 1 : SubSeq(es, a, b)[i] = es[a + i - 1]
  <2>1. SubSeq(es, a, b) \in Seq(S)
    BY SubSeqProperties
  <2>2. Len(SubSeq(es, a, b)) = IF a <= b THEN b - a + 1 ELSE 0
    BY SubSeqProperties
  <2>3. \A i \in 1..b - a + 1 : SubSeq(es, a, b)[i] = es[a + i - 1]
    BY SubSeqProperties
  <2> QED
    BY <2>1, <2>2, <2>3
<1> QED
  BY <1>1

\* What is left of a sequence without its element at p.
LEMMA RemoveAtKeeps ==
    ASSUME NEW S, NEW es \in Seq(S), NEW p \in 1..Len(es)
    PROVE  /\ RemoveAt(es, p) \in Seq(S)
           /\ Len(RemoveAt(es, p)) = Len(es) - 1
           /\ \A i \in 1..(Len(es) - 1) :
                  RemoveAt(es, p)[i] = IF i < p THEN es[i] ELSE es[i + 1]
<1>1. PICK n \in Nat : n = Len(es)
  BY LenProperties
<1>2. \A i \in 1..n : es[i] \in S
  BY <1>1, ElementOfSeq
<1>3. PICK front \in Seq(S) : /\ front = SubSeq(es, 1, p - 1)
                              /\ Len(front) = p - 1
                              /\ \A i \in 1..(p - 1) : front[i] = es[i]
  <2>1. PICK b \in Int : b = p - 1
    OBVIOUS
  <2>2. 1 <= b + 1 /\ \A i \in 1..b : es[i] \in S
    BY <1>1, <1>2, <2>1
  <2>3. /\ SubSeq(es, 1, b) \in Seq(S) /\ Len(SubSeq(es, 1, b)) = b - 1 + 1
        /\ \A i \in 1..(b - 1 + 1) : SubSeq(es, 1, b)[i] = es[1 + i - 1]
    BY <2>2, Slice
  <2>4. Len(SubSeq(es, 1, b)) = p - 1
    BY <2>1, <2>3
  <2>5. ASSUME NEW i \in 1..(p - 1) PROVE SubSeq(es, 1, b)[i] = es[i]
    <3>1. i \in 1..(b - 1 + 1) /\ 1 + i - 1 = i
      BY <2>1
    <3> QED
      BY <2>3, <3>1
  <2> QED
    BY <2>1, <2>3, <2>4, <2>5
<1>4. PICK back \in Seq(S) : /\ back = SubSeq(es, p + 1, n)
                             /\ Len(back) = n - p
                             /\ \A i \in 1..(n - p) : back[i] = es[p + i]
  <2>1. PICK a \in Int : a = p + 1
    OBVIOUS
  <2>2. n \in Int /\ a <= n + 1 /\ \A i \in a..n : es[i] \in S
    BY <1>1, <1>2, <2>1
  <2>3. /\ SubSeq(es, a, n) \in Seq(S) /\ Len(SubSeq(es, a, n)) = n - a + 1
        /\ \A i \in 1..(n - a + 1) : SubSeq(es, a, n)[i] = es[a + i - 1]
    BY <2>2, Slice
  <2>4. Len(SubSeq(es, a, n)) = n - p
    BY <2>1, <2>3
  <2>5. ASSUME NEW i \in 1..(n - p) PROVE SubSeq(es, a, n)[i] = es[p + i]
    <3>1. i \in 1..(n - a + 1) /\ a + i - 1 = p + i
      BY <2>1
    <3> QED
      BY <2>3, <3>1
  <2> QED
    BY <2>1, <2>3, <2>4, <2>5
<1>5. RemoveAt(es, p) = front \o back
  BY <1>1, <1>3, <1>4 DEF RemoveAt
<1>6. Len(front) = p - 1 /\ Len(back) = n - p
  BY <1>3, <1>4
<1>7. p \in Int /\ p <= n /\ 1 <= p /\ (p - 1) + (n - p) = n - 1
  BY <1>1
<1>8. /\ front \o back \in Seq(S)
      /\ Len(front \o back) = (p - 1) + (n - p)
      /\ \A i \in 1..((p - 1) + (n - p)) :
            (front \o back)[i] = IF i <= p - 1 THEN front[i] ELSE back[i - (p - 1)]
  <2>1. /\ front \o back \in Seq(S)
        /\ Len(front \o back) = Len(front) + Len(back)
        /\ \A i \in 1..(Len(front) + Len(back)) :
              (front \o back)[i] = IF i <= Len(front) THEN front[i] ELSE back[i - Len(front)]
    BY ConcatProperties, Zenon
  <2> QED
    BY ONLY <2>1, <1>6, Zenon
<1>9. ASSUME NEW i \in 1..(n - 1)
      PROVE  (front \o back)[i] = IF i < p THEN es[i] ELSE es[i + 1]
  <2>1. (front \o back)[i] = IF i <= p - 1 THEN front[i] ELSE back[i - (p - 1)]
    BY <1>7, <1>8
  <2>2. CASE i < p
    <3>1. i <= p - 1 /\ i \in 1..(p - 1)
      BY <2>2, <1>7
    <3> QED
      BY <2>1, <2>2, <3>1, <1>3
  <2>3. CASE ~(i < p)
    <3>1. ~(i <= p - 1) /\ i - (p - 1) \in 1..(n - p) /\ p + (i - (p - 1)) = i + 1
      BY <2>3, <1>7
    <3> QED
      BY <2>1, <2>3, <3>1, <1>4
  <2> QED
    BY <2>2, <2>3
<1> QED
  BY <1>1, <1>5, <1>7, <1>8, <1>9

\* One entry less weighs its weight less.
LEMMA WeighRemoved ==
    ASSUME NEW es \in Seq(Entry), NEW p \in 1..Len(es)
    PROVE  Weigh(es) = Weigh(RemoveAt(es, p)) + es[p].weight
<1>1. /\ Len(es) \in Nat /\ \A i \in 1..Len(es) : es[i] \in Entry /\ es[i].weight \in Nat
  BY EntriesWeighty
<1>2. /\ p \in 0..Len(es) /\ p - 1 \in 0..Len(es) /\ p - 1 + 1 = p
      /\ es[p] \in Entry /\ p \in 1..Len(es)
  BY <1>1
<1>3. /\ SubSeq(es, 1, p) \in Seq(Entry)
      /\ SubSeq(es, p + 1, Len(es)) \in Seq(Entry)
      /\ Weigh(es) = Weigh(SubSeq(es, 1, p)) + Weigh(SubSeq(es, p + 1, Len(es)))
  BY <1>2, WeighParts
<1>4. SubSeq(es, 1, p - 1) \in Seq(Entry)
  BY <1>2, WeighParts
<1>5. SubSeq(es, 1, p) = Append(SubSeq(es, 1, p - 1), es[p])
  <2>1. 1 \in 1..Len(es) /\ p \in 1..Len(es)
    BY <1>1
  <2>2. SubSeq(es, 1, p) = SubSeq(es, 1, p - 1) \o <<es[p]>>
    BY <2>1, SubSeqRecursiveSecond
  <2> QED
    BY <2>2, <1>2, <1>4, AppendIsConcat
<1>6. Weigh(SubSeq(es, 1, p)) = Weigh(SubSeq(es, 1, p - 1)) + es[p].weight
  BY <1>2, <1>4, <1>5, WeighAppend
<1>7. Weigh(RemoveAt(es, p)) = Weigh(SubSeq(es, 1, p - 1)) + Weigh(SubSeq(es, p + 1, Len(es)))
  BY <1>3, <1>4, WeighConcat DEF RemoveAt
<1>8. /\ Weigh(SubSeq(es, 1, p - 1)) \in Nat /\ Weigh(SubSeq(es, p + 1, Len(es))) \in Nat
      /\ es[p].weight \in Nat
  BY <1>1, <1>3, <1>4, WeighNat
<1> QED
  BY <1>3, <1>6, <1>7, <1>8

--------------------------------------------------------------------------------
UniqueKeys(es) == \A i, j \in DOMAIN es : es[i].key = es[j].key => i = j

Current(es) == \A i \in DOMAIN es : es[i].gen = generation

\* An entry leaves: the others stay, with the weight that is left.
LEMMA ExceptKeeps ==
    ASSUME entries \in Seq(Entry), UniqueKeys(entries), NEW k
    PROVE  /\ Except(k) \in Seq(Entry)
           /\ UniqueKeys(Except(k))
           /\ Current(entries) => Current(Except(k))
           /\ \A i \in DOMAIN Except(k) : Except(k)[i].key # k
           /\ WeightOf(k) \in Nat
           /\ Weigh(Except(k)) = Weigh(entries) - WeightOf(k)
<1>1. /\ Len(entries) \in Nat /\ DOMAIN entries = 1..Len(entries)
      /\ \A i \in 1..Len(entries) : entries[i] \in Entry /\ entries[i].weight \in Nat
  BY EntriesWeighty
<1>2. Weigh(entries) \in Nat
  BY WeighNat
<1>3. CASE ~Has(k)
  <2>1. Except(k) = entries /\ WeightOf(k) = 0
    BY <1>3 DEF Except, WeightOf
  <2> QED
    BY <2>1, <1>2, <1>3 DEF Has
<1>4. CASE Has(k)
  <2>1. Place(k) \in DOMAIN entries /\ entries[Place(k)].key = k
    BY <1>4 DEF Has, Place
  <2>2. PICK p \in 1..Len(entries) : p = Place(k)
    BY <2>1, <1>1
  <2>3. Except(k) = RemoveAt(entries, p) /\ WeightOf(k) = entries[p].weight
    BY <1>4, <2>2 DEF Except, WeightOf, EntryOf
  <2>4. /\ RemoveAt(entries, p) \in Seq(Entry)
        /\ Len(RemoveAt(entries, p)) = Len(entries) - 1
        /\ \A i \in 1..(Len(entries) - 1) :
               RemoveAt(entries, p)[i] = IF i < p THEN entries[i] ELSE entries[i + 1]
    BY RemoveAtKeeps
  <2>5. DOMAIN Except(k) = 1..(Len(entries) - 1)
    BY <2>3, <2>4, LenProperties
  <2>6. PICK at : at = [i \in 1..(Len(entries) - 1) |-> IF i < p THEN i ELSE i + 1]
    OBVIOUS
  <2>7. \A i \in 1..(Len(entries) - 1) : /\ at[i] \in 1..Len(entries) /\ at[i] # p
                                         /\ Except(k)[i] = entries[at[i]]
    BY <2>3, <2>4, <2>6, <1>1
  <2>8. \A i, j \in 1..(Len(entries) - 1) : at[i] = at[j] => i = j
    BY <2>6, <1>1
  <2>9. UniqueKeys(Except(k))
    BY <2>5, <2>7, <2>8, <1>1 DEF UniqueKeys
  <2>10. Current(entries) => Current(Except(k))
    BY <2>5, <2>7, <1>1 DEF Current
  <2>11. \A i \in DOMAIN Except(k) : Except(k)[i].key # k
    BY <2>1, <2>2, <2>5, <2>7, <1>1 DEF UniqueKeys
  <2>12. Weigh(entries) = Weigh(Except(k)) + WeightOf(k)
    BY <2>3, WeighRemoved
  <2>13. Weigh(Except(k)) \in Nat /\ WeightOf(k) \in Nat
    BY <2>3, <2>4, <1>1, WeighNat
  <2> QED
    BY <2>3, <2>4, <2>9, <2>10, <2>11, <2>12, <2>13
<1> QED
  BY <1>3, <1>4

\* An insertion evicts the oldest entries until the rest and the new one fit, or
\* nothing is left.
LEMMA EvictedFits ==
    ASSUME NEW es \in Seq(Entry), NEW left \in Int, NEW w \in Nat
    PROVE  /\ Evicted(es, left, w) \in 0..Len(es)
           /\ Evicted(es, left, w) < Len(es) =>
                 left - Weigh(SubSeq(es, 1, Evicted(es, left, w))) + w <= MaxBytes
<1> DEFINE Full(n) == left - Weigh(SubSeq(es, 1, n)) + w > MaxBytes
           Stops(n) == /\ n < Len(es) => ~Full(n)
                       /\ \A m \in 0..(n - 1) : Full(m)
           T == {n \in 0..Len(es) : n < Len(es) => ~Full(n)}
<1>1. Len(es) \in Nat
  BY EntriesWeighty
<1>2. T \subseteq Nat /\ Len(es) \in T
  BY <1>1
<1>3. PICK n \in T : \A m \in T : n <= m
  <2> HIDE DEF T
  <2> QED
    BY <1>2, Least
<1>4. \A m \in 0..(n - 1) : m \in 0..Len(es) /\ m < Len(es) /\ m \notin T
  BY <1>1, <1>3
<1>5. n \in 0..Len(es) /\ Stops(n)
  BY <1>4
<1>6. Evicted(es, left, w) = CHOOSE x \in 0..Len(es) : Stops(x)
  BY DEF Evicted
<1>7. Evicted(es, left, w) \in 0..Len(es) /\ Stops(Evicted(es, left, w))
  <2> HIDE DEF Stops
  <2> QED
    BY <1>5, <1>6
<1>8. Weigh(SubSeq(es, 1, Evicted(es, left, w))) \in Nat
  BY <1>7, WeighParts, WeighNat
<1> QED
  BY <1>7, <1>8, CacheAssumption

--------------------------------------------------------------------------------
EntryInv == entries \in Seq(Entry) /\ BudgetKept /\ ClearedStaysOut

\* The invariant of the entries, part by part.
LEMMA EntryInvParts ==
    EntryInv <=> /\ entries \in Seq(Entry)
                 /\ size = Weigh(entries) /\ size <= MaxBytes
                 /\ UniqueKeys(entries) /\ Current(entries)
  BY DEF EntryInv, BudgetKept, ClearedStaysOut, UniqueKeys, Current

\* One entry more, behind the others.
LEMMA AppendKeeps ==
    ASSUME NEW es \in Seq(Entry), UniqueKeys(es), Current(es),
           NEW e \in Entry, e.gen = generation, \A i \in DOMAIN es : es[i].key # e.key
    PROVE  /\ Append(es, e) \in Seq(Entry)
           /\ UniqueKeys(Append(es, e))
           /\ Current(Append(es, e))
           /\ Weigh(Append(es, e)) = Weigh(es) + e.weight
<1>1. PICK n \in Nat : n = Len(es) /\ DOMAIN es = 1..n
  BY EntriesWeighty
<1>2. /\ Append(es, e) \in Seq(Entry)
      /\ Len(Append(es, e)) = n + 1
      /\ \A i \in 1..n : Append(es, e)[i] = es[i]
      /\ Append(es, e)[n + 1] = e
  BY <1>1, AppendProperties
<1>3. DOMAIN Append(es, e) = 1..(n + 1)
  BY <1>2, LenProperties
<1>4. \A i \in 1..(n + 1) : i = n + 1 \/ i \in 1..n
  OBVIOUS
<1>5. UniqueKeys(Append(es, e)) /\ Current(Append(es, e))
  BY <1>1, <1>2, <1>3, <1>4 DEF UniqueKeys, Current
<1> QED
  BY <1>2, <1>5, WeighAppend

\* A hit moves an entry to the end.
LEMMA HitKeepsEntries ==
    ASSUME EntryInv, NEW r \in Requests, NEW k \in Keys, Hit(r, k)
    PROVE  EntryInv'
<1>1. /\ Has(k) /\ entries' = Append(Except(k), EntryOf(k))
      /\ UNCHANGED <<size, generation>>
  BY DEF Hit
<1>2. Place(k) \in DOMAIN entries /\ EntryOf(k).key = k
  BY <1>1 DEF Has, Place, EntryOf
<1>3. EntryOf(k) \in Entry /\ EntryOf(k).gen = generation
  BY <1>2, EntryInvParts, EntriesWeighty DEF EntryOf, Current
<1>4. /\ Except(k) \in Seq(Entry) /\ UniqueKeys(Except(k)) /\ Current(Except(k))
      /\ \A i \in DOMAIN Except(k) : Except(k)[i].key # EntryOf(k).key
      /\ Weigh(Except(k)) = Weigh(entries) - WeightOf(k)
      /\ WeightOf(k) \in Nat
  BY <1>2, EntryInvParts, ExceptKeeps
<1>5. /\ entries' \in Seq(Entry) /\ UniqueKeys(entries') /\ Current(entries')
      /\ Weigh(entries') = Weigh(Except(k)) + EntryOf(k).weight
  BY <1>1, <1>3, <1>4, AppendKeeps
<1>6. EntryOf(k).weight = WeightOf(k)
  BY <1>1 DEF WeightOf
<1>7. Weigh(entries) \in Nat
  BY EntryInvParts, WeighNat
<1>8. Weigh(entries') = Weigh(entries)
  BY <1>4, <1>5, <1>6, <1>7
<1>9. size' = Weigh(entries') /\ size' <= MaxBytes
  BY <1>1, <1>8, EntryInvParts
<1> QED
  BY <1>1, <1>5, <1>9 DEF EntryInv, BudgetKept, ClearedStaysOut, UniqueKeys, Current

\* A miss drops the entry of its key, if it had expired.
LEMMA MissedKeepsEntries ==
    ASSUME EntryInv, NEW k, Missed(k), generation' = generation
    PROVE  EntryInv'
<1>1. entries' = Except(k) /\ size' = size - WeightOf(k)
  BY DEF Missed
<1>2. /\ Except(k) \in Seq(Entry) /\ UniqueKeys(Except(k)) /\ Current(Except(k))
      /\ Weigh(Except(k)) = Weigh(entries) - WeightOf(k)
      /\ WeightOf(k) \in Nat
  BY EntryInvParts, ExceptKeeps
<1>3. Weigh(entries) \in Nat /\ size = Weigh(entries) /\ size <= MaxBytes
  BY EntryInvParts, WeighNat
<1>4. size' = Weigh(entries') /\ size' <= MaxBytes
  BY <1>1, <1>2, <1>3, CacheAssumption
<1> QED
  BY <1>1, <1>2, <1>4 DEF EntryInv, BudgetKept, ClearedStaysOut, UniqueKeys, Current

\* The oldest entries leave.
LEMMA SuffixKeeps ==
    ASSUME NEW es \in Seq(Entry), NEW n \in 0..Len(es), UniqueKeys(es), Current(es)
    PROVE  /\ UniqueKeys(SubSeq(es, n + 1, Len(es)))
           /\ Current(SubSeq(es, n + 1, Len(es)))
           /\ \A i \in DOMAIN SubSeq(es, n + 1, Len(es)) :
                 \E j \in DOMAIN es : SubSeq(es, n + 1, Len(es))[i] = es[j]
<1>1. PICK m \in Nat : m = Len(es) /\ DOMAIN es = 1..m /\ n \in 0..m
  BY EntriesWeighty
<1>2. PICK a \in Int : a = n + 1
  BY <1>1
<1>3. m \in Int /\ a <= m + 1 /\ \A i \in a..m : es[i] \in Entry
  BY <1>1, <1>2, ElementOfSeq
<1>4. /\ SubSeq(es, a, m) \in Seq(Entry)
      /\ Len(SubSeq(es, a, m)) = m - a + 1
      /\ \A i \in 1..(m - a + 1) : SubSeq(es, a, m)[i] = es[a + i - 1]
  BY <1>3, Slice
<1>5. DOMAIN SubSeq(es, a, m) = 1..(m - a + 1)
  BY <1>4, LenProperties
<1>6. PICK at : at = [i \in 1..(m - a + 1) |-> a + i - 1]
  OBVIOUS
<1>7. PICK sub : sub = SubSeq(es, a, m)
  OBVIOUS
<1>8. DOMAIN sub = 1..(m - a + 1)
      /\ \A i \in 1..(m - a + 1) : at[i] \in 1..m /\ sub[i] = es[at[i]]
  <2>1. ASSUME NEW i \in 1..(m - a + 1) PROVE at[i] = a + i - 1 /\ at[i] \in 1..m
    BY <1>1, <1>2, <1>6
  <2> QED
    BY <2>1, <1>4, <1>5, <1>7
<1>9. \A i, j \in 1..(m - a + 1) : at[i] = at[j] => i = j
  BY <1>2, <1>6
<1>10. UniqueKeys(sub)
  BY <1>1, <1>8, <1>9 DEF UniqueKeys
<1>11. Current(sub) /\ \A i \in DOMAIN sub : \E j \in DOMAIN es : sub[i] = es[j]
  BY <1>1, <1>8 DEF Current
<1> QED
  BY <1>1, <1>2, <1>7, <1>10, <1>11

\* A result is stored: what stays and what comes is within the budget.
LEMMA InsertKeepsEntries ==
    ASSUME EntryInv, NEW t \in Loads, NEW w \in Weights, w <= MaxBytes,
           load[t].gen = generation, load[t].key \in Keys, generation \in 0..MaxClears,
           Insert(t, w), generation' = generation
    PROVE  EntryInv'
<1>1. PICK k : k = load[t].key
  OBVIOUS
<1>2. PICK left : left = size - WeightOf(k)
  OBVIOUS
<1>3. PICK rest : rest = Except(k)
  OBVIOUS
<1>4. PICK n : n = Evicted(rest, left, w)
  OBVIOUS
<1>5. PICK e : e = [key |-> k, weight |-> w, fresh |-> TRUE, gen |-> load[t].gen]
  OBVIOUS
<1>6. /\ entries' = SubSeq(rest, n + 1, Len(rest)) \o <<e>>
      /\ size' = left - Weigh(SubSeq(rest, 1, n)) + w
  BY <1>1, <1>2, <1>3, <1>4, <1>5 DEF Insert
<1>7. /\ rest \in Seq(Entry) /\ UniqueKeys(rest) /\ Current(rest)
      /\ \A i \in DOMAIN rest : rest[i].key # k
      /\ Weigh(rest) = left
  BY <1>2, <1>3, EntryInvParts, ExceptKeeps
<1>8. left \in Nat
  BY <1>7, WeighNat
<1>9. w \in Nat
  BY CacheAssumption
<1>10. /\ n \in 0..Len(rest)
       /\ n < Len(rest) => left - Weigh(SubSeq(rest, 1, n)) + w <= MaxBytes
  <2>1. rest \in Seq(Entry) /\ left \in Int /\ w \in Nat
    BY <1>7, <1>8, <1>9
  <2>2. /\ Evicted(rest, left, w) \in 0..Len(rest)
        /\ Evicted(rest, left, w) < Len(rest) =>
               left - Weigh(SubSeq(rest, 1, Evicted(rest, left, w))) + w <= MaxBytes
    BY ONLY <2>1, EvictedFits, Zenon
  <2> QED
    BY ONLY <2>2, <1>4, Zenon
<1>11. /\ SubSeq(rest, 1, n) \in Seq(Entry)
       /\ SubSeq(rest, n + 1, Len(rest)) \in Seq(Entry)
       /\ left = Weigh(SubSeq(rest, 1, n)) + Weigh(SubSeq(rest, n + 1, Len(rest)))
  BY <1>7, <1>10, WeighParts
<1>12. PICK kept : kept = SubSeq(rest, n + 1, Len(rest))
  OBVIOUS
<1>13. /\ UniqueKeys(kept) /\ Current(kept)
       /\ \A i \in DOMAIN kept : \E j \in DOMAIN rest : kept[i] = rest[j]
  BY <1>7, <1>10, <1>12, SuffixKeeps
<1>14. e \in Entry /\ e.key = k /\ e.gen = generation /\ e.weight = w
  BY <1>1, <1>5 DEF Entry
<1>15. kept \in Seq(Entry) /\ \A i \in DOMAIN kept : kept[i].key # e.key
  BY <1>7, <1>11, <1>12, <1>13, <1>14
<1>16. entries' = Append(kept, e)
  BY <1>6, <1>12, <1>14, <1>15, AppendIsConcat
<1>17. /\ entries' \in Seq(Entry) /\ UniqueKeys(entries') /\ Current(entries')
       /\ Weigh(entries') = Weigh(kept) + w
  BY <1>13, <1>14, <1>15, <1>16, AppendKeeps
<1>18. Weigh(SubSeq(rest, 1, n)) \in Nat /\ Weigh(kept) \in Nat
  BY <1>11, <1>15, WeighNat
<1>19. size' = Weigh(entries')
  BY <1>6, <1>8, <1>9, <1>11, <1>12, <1>17, <1>18
<1>20. size' <= MaxBytes
  <2>1. CASE n < Len(rest)
    BY <2>1, <1>6, <1>10
  <2>2. CASE ~(n < Len(rest))
    <3>1. Len(rest) \in Nat
      BY <1>7, EntriesWeighty
    <3>2. n = Len(rest) /\ n + 1 \in Int /\ Len(rest) \in Int /\ Len(rest) < n + 1
      BY <2>2, <3>1, <1>10
    <3>3. kept = <<>>
      BY <3>2, <1>12, SubSeqEmpty
    <3> QED
      BY <3>3, <1>9, <1>17, <1>19, WeighNone
  <2> QED
    BY <2>1, <2>2
<1> QED
  BY <1>17, <1>19, <1>20 DEF EntryInv, BudgetKept, ClearedStaysOut, UniqueKeys, Current

\* An entry that expires keeps its weight and its place.
LEMMA ExpireKeepsEntries ==
    ASSUME EntryInv, NEW k, Expire(k)
    PROVE  EntryInv'
<1>1. PICK n \in Nat : /\ n = Len(entries) /\ DOMAIN entries = 1..n
                       /\ \A i \in 1..n : entries[i] \in Entry
  BY EntryInvParts, EntriesWeighty
<1>2. /\ entries' = [i \in 1..n |->
             IF entries[i].key = k THEN [entries[i] EXCEPT !.fresh = FALSE] ELSE entries[i]]
      /\ UNCHANGED <<size, generation>>
  BY <1>1 DEF Expire
<1>3. \A i \in 1..n : /\ entries'[i] \in Entry
                      /\ entries'[i].key = entries[i].key
                      /\ entries'[i].weight = entries[i].weight
                      /\ entries'[i].gen = entries[i].gen
  BY <1>1, <1>2 DEF Entry
<1>4. entries' \in [1..n -> Entry]
  BY <1>2, <1>3
<1>5. entries' \in Seq(Entry) /\ Len(entries') = n /\ DOMAIN entries' = 1..n
  <2>1. entries' \in Seq(Entry)
    BY <1>4, SeqDef
  <2>2. DOMAIN entries' = 1..n /\ DOMAIN entries' = 1..Len(entries') /\ Len(entries') \in Nat
    BY <1>4, <2>1, LenProperties
  <2> QED
    BY <2>1, <2>2
<1>6. Weigh(entries') = Weigh(entries)
  BY <1>1, <1>3, <1>5, EntryInvParts, WeighSame
<1>7. UniqueKeys(entries') /\ Current(entries')
  BY <1>1, <1>3, <1>5, EntryInvParts DEF UniqueKeys, Current
<1>8. size' = Weigh(entries') /\ size' <= MaxBytes
  BY <1>2, <1>6, EntryInvParts
<1> QED
  BY <1>2, <1>5, <1>7, <1>8 DEF EntryInv, BudgetKept, ClearedStaysOut, UniqueKeys, Current

\* A clear leaves nothing to count.
LEMMA EmptiedKeepsEntries ==
    ASSUME Emptied
    PROVE  EntryInv'
<1>1. entries' = <<>> /\ size' = 0
  BY DEF Emptied
<1>2. Weigh(entries') = 0 /\ DOMAIN entries' = {} /\ entries' \in Seq(Entry)
  BY <1>1, WeighNone
<1>3. size' = Weigh(entries') /\ size' <= MaxBytes
  BY <1>1, <1>2, CacheAssumption
<1> QED
  BY <1>2, <1>3 DEF EntryInv, BudgetKept, ClearedStaysOut

--------------------------------------------------------------------------------
\* Only an insertion needs to know that the key of a load is one, and a load that
\* goes on is registered under it.
StoreInv ==
    /\ EntryInv
    /\ generation \in 0..MaxClears
    /\ DOMAIN flights \subseteq (0..MaxClears) \X Keys

\* Initially nothing is stored.
LEMMA StoreInit == Init => StoreInv
<1> SUFFICES ASSUME Init PROVE StoreInv
  OBVIOUS
<1>1. entries = <<>> /\ size = 0 /\ generation = 0 /\ DOMAIN flights = {}
  BY DEF Init
<1>2. Weigh(entries) = 0 /\ DOMAIN entries = {} /\ entries \in Seq(Entry)
  BY <1>1, WeighNone
<1>3. EntryInv
  BY <1>1, <1>2, CacheAssumption DEF EntryInv, BudgetKept, ClearedStaysOut
<1> QED
  BY <1>1, <1>3, CacheAssumption DEF StoreInv

\* What is stored does not change.
LEMMA UnstoredKeeps ==
    ASSUME EntryInv, UNCHANGED <<entries, size, generation>>
    PROVE  EntryInv'
  BY DEF EntryInv, BudgetKept, ClearedStaysOut

\* Flights are only taken away.
LEMMA FewerFlights ==
    ASSUME StoreInv, EntryInv', generation' = generation,
           DOMAIN flights' \subseteq DOMAIN flights
    PROVE  StoreInv'
  BY DEF StoreInv

\* A flight that lands is only taken away.
LEMMA LandedFewer ==
    ASSUME NEW f, NEW t
    PROVE  DOMAIN Landed(f, t) \subseteq DOMAIN flights
  BY DEF Landed, Unregister

\* A request that asks the cache: a hit, a join, a start or a bypass.
LEMMA LookUpStores ==
    ASSUME StoreInv, NEW r \in Requests, NEW k \in Keys, LookUp(r, k)
    PROVE  StoreInv'
<1>1. CASE Hit(r, k)
  BY <1>1, HitKeepsEntries, FewerFlights DEF Hit, StoreInv
<1>2. CASE Join(r, k) \/ Bypass(r, k)
  <2>1. Missed(k) /\ UNCHANGED <<generation, flights>>
    BY <1>2 DEF Join, Bypass
  <2> QED
    BY <2>1, MissedKeepsEntries, FewerFlights DEF StoreInv
<1>3. CASE Start(r, k)
  <2>1. Missed(k) /\ generation' = generation
        /\ DOMAIN flights' = DOMAIN flights \cup {Flight(k)}
    BY <1>3 DEF Start
  <2>2. EntryInv'
    BY <2>1, MissedKeepsEntries DEF StoreInv
  <2> QED
    BY <2>1, <2>2 DEF StoreInv, Flight
<1> QED
  BY <1>1, <1>2, <1>3 DEF LookUp

\* A load that ends well stores its result, or not.
LEMMA LoadOkStores ==
    ASSUME IInv, StoreInv, NEW t \in Loads, NEW w \in Weights, LoadOk(t, w)
    PROVE  StoreInv'
<1>1. load[t].st = "running" /\ UNCHANGED <<generation, flights>>
  BY DEF LoadOk
<1>2. load[t].key \in Keys
  BY <1>1 DEF IInv, FlightInv, FlightOf, StoreInv
<1>3. CASE Storable(t, w)
  <2>1. Insert(t, w) /\ load[t].gen = generation /\ w <= MaxBytes
    BY <1>3 DEF LoadOk, Storable
  <2>2. EntryInv'
    BY <2>1, <1>1, <1>2, InsertKeepsEntries DEF StoreInv
  <2> QED
    BY <1>1, <2>2, FewerFlights
<1>4. CASE ~Storable(t, w)
  BY <1>1, <1>4, UnstoredKeeps, FewerFlights DEF LoadOk, StoreInv
<1> QED
  BY <1>3, <1>4

\* A waiter that leaves stores nothing.
LEMMA StopWaitingStores ==
    ASSUME StoreInv, NEW r, NEW t, StopWaiting(r, t)
    PROVE  StoreInv'
<1>1. /\ UNCHANGED <<entries, size, generation>>
      /\ flights' = flights \/ flights' = Landed(FlightOf(t), t)
  BY DEF StopWaiting
<1> QED
  BY <1>1, UnstoredKeeps, LandedFewer, FewerFlights DEF StoreInv

\* Every step of the cache keeps what is stored within its bounds.
LEMMA StoreStep == IInv /\ StoreInv /\ [Next]_vars => StoreInv'
<1> SUFFICES ASSUME IInv, StoreInv, [Next]_vars PROVE StoreInv'
  OBVIOUS
<1>1. ASSUME NEW r \in Requests, NEW k \in Keys, LookUp(r, k)
      PROVE  StoreInv'
  BY <1>1, LookUpStores
<1>2. ASSUME NEW r \in Requests, DirectEnds(r) \/ CancelledDirect(r)
      PROVE  StoreInv'
  BY <1>2, UnstoredKeeps, FewerFlights DEF DirectEnds, CancelledDirect, StoreInv
<1>3. ASSUME NEW r \in Requests, Resume(r) \/ CancelledJoined(r)
      PROVE  StoreInv'
  BY <1>3, StopWaitingStores DEF Resume, CancelledJoined
<1>4. ASSUME NEW t \in Loads, NEW w \in Weights, LoadOk(t, w)
      PROVE  StoreInv'
  BY <1>4, LoadOkStores
<1>5. ASSUME NEW t \in Loads, LoadEnds(t)
      PROVE  StoreInv'
  BY <1>5, UnstoredKeeps, FewerFlights DEF LoadEnds, StoreInv
<1>6. ASSUME NEW t \in Loads, Finished(t)
      PROVE  StoreInv'
  BY <1>6, UnstoredKeeps, LandedFewer, FewerFlights DEF Finished, StoreInv
<1>7. ASSUME NEW k \in Keys, Expire(k)
      PROVE  StoreInv'
  BY <1>7, ExpireKeepsEntries, FewerFlights DEF Expire, StoreInv
<1>8. CASE Clear \/ Close
  <2>1. Emptied
    BY <1>8 DEF Clear, Close
  <2>2. EntryInv'
    BY <2>1, EmptiedKeepsEntries
  <2>3. generation' \in 0..MaxClears /\ flights' = flights
    BY <2>1, CacheAssumption DEF Emptied, StoreInv
  <2> QED
    BY <2>2, <2>3 DEF StoreInv
<1>9. CASE UNCHANGED vars
  BY <1>9, UnstoredKeeps, FewerFlights DEF vars, StoreInv
<1> QED
  BY <1>1, <1>2, <1>3, <1>4, <1>5, <1>6, <1>7, <1>8, <1>9 DEF Next

\* What the shared loads and the stored entries are, together.
LEMMA CacheInductive == Spec => [](IInv /\ StoreInv)
<1>1. Init => IInv /\ StoreInv
  BY SharingInit, StoreInit
<1>2. (IInv /\ StoreInv) /\ [Next]_vars => (IInv /\ StoreInv)'
  BY SharingStep, StoreStep
<1> QED
  BY <1>1, <1>2, PTL DEF Spec

\* The two invariants together give the types.
LEMMA CacheTypeOK == IInv /\ StoreInv => TypeOK
<1> SUFFICES ASSUME IInv, StoreInv PROVE TypeOK
  OBVIOUS
<1>1. entries \in Seq(Entry) /\ size = Weigh(entries)
  BY EntryInvParts DEF StoreInv
<1>2. size \in Nat
  BY <1>1, WeighNat
<1>3. \A f \in DOMAIN flights : flights[f] \in Loads
  BY DEF IInv, FlightInv, SharingTypeOK
<1>4. \A t \in Loads : load[t] \in Load
  <2> TAKE t \in Loads
  <2>1. /\ load[t] \in [st : {"unused", "running", "stopping", "ended"}, gen : Nat,
                          key : Keys \cup {NoLoad}, waiters : Nat]
        /\ load[t].gen <= generation
    BY DEF IInv, SharingTypeOK, TaskInv
  <2>2. load[t].gen \in 0..MaxClears
    BY <2>1, CacheAssumption DEF StoreInv
  <2> QED
    BY <2>1, <2>2 DEF Load
<1>5. load \in [Loads -> Load]
  BY <1>4 DEF IInv, SharingTypeOK
<1>6. call \in [Requests -> [st : {"none", "direct", "joined"}, on : Loads \cup {NoLoad}]]
  BY DEF IInv, SharingTypeOK, CallOK, Idle, Direct, Awaits
<1> QED
  BY <1>1, <1>2, <1>3, <1>5, <1>6 DEF TypeOK, StoreInv, IInv, SharingTypeOK

--------------------------------------------------------------------------------
\* The variables of the cache have the types the code gives them: among others,
\* the byte counter never goes below zero.
THEOREM CacheTypeCorrect == Spec => []TypeOK
  BY CacheInductive, CacheTypeOK, PTL

\* The byte counter of the cache is the weight of its entries, no key is cached
\* twice and the budget is kept, whatever is stored, replaced, expired, evicted and
\* cleared (_insert_locked, get_or_load, clear).
THEOREM BudgetKeptHolds == Spec => []BudgetKept
<1>1. StoreInv => BudgetKept
  BY DEF StoreInv, EntryInv
<1> QED
  BY <1>1, CacheInductive, PTL

\* What is cached was loaded since the last clear: a load that was under way then
\* does not store its answer (the generation checked in load_and_store).
THEOREM ClearedStaysOutHolds == Spec => []ClearedStaysOut
<1>1. StoreInv => ClearedStaysOut
  BY DEF StoreInv, EntryInv
<1> QED
  BY <1>1, CacheInductive, PTL

--------------------------------------------------------------------------------
(* The semaphores of admission.                                                *)

Members(m) == {m.queue[i] : i \in DOMAIN m.queue}
Tokens(m)  == m.value + Cardinality(m.granted)

Distinct(q) == \A i, j \in DOMAIN q : q[i] = q[j] => i = j

\* Admission counts as this module does.
LEMMA SameCount == \A S : Adm!Cardinality(S) = Cardinality(S)
  BY Zenon DEF Adm!Cardinality, Cardinality

\* A waiter is in the queue once, and only waiters have grants.
SemOK(m) ==
    /\ m \in [value : Nat, queue : Seq(Requests), granted : SUBSET Requests]
    /\ Distinct(m.queue)
    /\ m.granted \subseteq Members(m)

\* A request that leaves the queue leaves the others in it.
LEMMA WithoutKeeps ==
    ASSUME NEW q \in Seq(Requests), Distinct(q), NEW r, \E x \in DOMAIN q : q[x] = r
    PROVE  /\ Adm!Without(q, r) \in Seq(Requests)
           /\ Distinct(Adm!Without(q, r))
           /\ {Adm!Without(q, r)[i] : i \in DOMAIN Adm!Without(q, r)} =
                  {q[i] : i \in DOMAIN q} \ {r}
<1>1. PICK n \in Nat : n = Len(q) /\ DOMAIN q = 1..n
  BY LenProperties
<1>2. PICK p \in 1..n : p = CHOOSE i \in DOMAIN q : q[i] = r
  BY <1>1
<1>3. q[p] = r
  BY <1>1, <1>2
<1>4. PICK s : s = RemoveAt(q, p)
  OBVIOUS
<1>5. /\ s \in Seq(Requests) /\ Len(s) = n - 1
      /\ \A i \in 1..(n - 1) : s[i] = IF i < p THEN q[i] ELSE q[i + 1]
  BY <1>1, <1>2, <1>4, RemoveAtKeeps
<1>6. DOMAIN s = 1..(n - 1)
  BY <1>5, LenProperties
<1>7. PICK at : at = [i \in 1..(n - 1) |-> IF i < p THEN i ELSE i + 1]
  OBVIOUS
<1>8. \A i \in 1..(n - 1) : at[i] \in 1..n /\ at[i] # p /\ s[i] = q[at[i]]
  <2> TAKE i \in 1..(n - 1)
  <2>1. i \in 1..n /\ i + 1 \in 1..n /\ i \in Int /\ p \in Int
    BY <1>2
  <2>2. CASE i < p
    <3>1. at[i] = i /\ s[i] = q[i]
      BY <2>2, <1>5, <1>7
    <3> QED
      BY <2>1, <2>2, <3>1
  <2>3. CASE ~(i < p)
    <3>1. at[i] = i + 1 /\ s[i] = q[i + 1]
      BY <2>3, <1>5, <1>7
    <3> QED
      BY <2>1, <2>3, <3>1
  <2> QED
    BY <2>2, <2>3
<1>9. \A i, j \in 1..(n - 1) : at[i] = at[j] => i = j
  BY <1>7
<1>10. \A j \in 1..n : j # p => \E i \in 1..(n - 1) : at[i] = j
  <2> TAKE j \in 1..n
  <2> HAVE j # p
  <2>1. CASE j < p
    <3>1. j \in 1..(n - 1)
      BY <2>1, <1>2
    <3> QED
      BY <3>1, <2>1, <1>7
  <2>2. CASE ~(j < p)
    <3>1. j - 1 \in 1..(n - 1) /\ ~(j - 1 < p) /\ j - 1 + 1 = j
      BY <2>2, <1>2
    <3>2. at[j - 1] = j
      BY <3>1, <1>7
    <3> QED
      BY <3>1, <3>2
  <2> QED
    BY <2>1, <2>2
<1>11. Distinct(s)
  BY <1>1, <1>6, <1>8, <1>9 DEF Distinct
<1>12. \A j \in 1..n : q[j] = r => j = p
  BY <1>1, <1>3 DEF Distinct
<1>13. {s[i] : i \in 1..(n - 1)} = {q[i] : i \in 1..n} \ {r}
  <2>1. \A i \in 1..(n - 1) : s[i] \in {q[j] : j \in 1..n} /\ s[i] # r
    BY <1>8, <1>12
  <2>2. \A j \in 1..n : q[j] # r => q[j] \in {s[i] : i \in 1..(n - 1)}
    <3> TAKE j \in 1..n
    <3> HAVE q[j] # r
    <3>1. PICK i \in 1..(n - 1) : at[i] = j
      BY <1>3, <1>10
    <3>2. s[i] = q[j]
      BY <3>1, <1>8
    <3> QED
      BY <3>2
  <2> QED
    BY <2>1, <2>2
<1>14. Adm!Without(q, r) = s
  BY <1>2, <1>4 DEF Adm!Without, Adm!RemoveAt, RemoveAt
<1>15. {s[i] : i \in DOMAIN s} = {q[i] : i \in DOMAIN q} \ {r}
  BY <1>1, <1>6, <1>13
<1> QED
  BY ONLY <1>5, <1>11, <1>14, <1>15, Zenon

--------------------------------------------------------------------------------
Before(U, i) == {j \in U : j < i}
First(U, n)  == {i \in U : Cardinality(Before(U, i)) < n}

\* The elements of a set of places that are among the first n of it are at most n:
\* all of them but the last stand before the last.
LEMMA FirstFew ==
    ASSUME NEW U, IsFiniteSet(U), NEW b \in Nat, U \subseteq 1..b, NEW n \in Nat
    PROVE  /\ First(U, n) \subseteq U
           /\ IsFiniteSet(First(U, n))
           /\ Cardinality(First(U, n)) \in 0..n
<1>1. PICK up : up = First(U, n)
  OBVIOUS
<1>2. up \subseteq U /\ \A i \in up : Cardinality(Before(U, i)) < n
  BY <1>1, Zenon DEF First
<1>3. IsFiniteSet(up) /\ Cardinality(up) \in Nat
  BY <1>2, FS_Subset, FS_CardinalityType
<1>4. CASE up = {}
  BY <1>1, <1>2, <1>3, <1>4, FS_EmptySet
<1>5. CASE up # {}
  <2> DEFINE T == {b - i : i \in up}
  <2>1. T \subseteq Nat /\ T # {}
    <3>1. ASSUME NEW i \in up PROVE b - i \in Nat
      <4>1. i \in 1..b
        BY <1>2
      <4> QED
        BY <4>1
    <3> QED
      BY <3>1, <1>5
  <2>2. PICK m \in T : \A k \in T : m <= k
    <3> HIDE DEF T
    <3> QED
      BY <2>1, Least
  <2>3. PICK x \in up : m = b - x
    BY <2>2
  <2>4. \A i \in up : i # x => i < x
    BY <1>2, <2>2, <2>3
  <2>5. IsFiniteSet(Before(U, x)) /\ Cardinality(Before(U, x)) < n
    BY <1>2, <2>3, FS_Subset DEF Before
  <2>6. up \ {x} \subseteq Before(U, x)
    BY <1>2, <2>4 DEF Before
  <2>7. Cardinality(up \ {x}) <= Cardinality(Before(U, x)) /\ Cardinality(Before(U, x)) \in Nat
    BY <2>5, <2>6, FS_Subset, FS_CardinalityType
  <2>8. Cardinality(up \ {x}) = Cardinality(up) - 1
    BY <1>3, <2>3, CountOne
  <2> QED
    BY <1>1, <1>2, <1>3, <2>5, <2>7, <2>8
<1> QED
  BY <1>4, <1>5

\* A wake-up gives away as many slots as it takes.
LEMMA WokenKeeps ==
    ASSUME NEW m, SemOK(m), NEW n \in 0..m.value
    PROVE  /\ SemOK(Adm!Woken(m, n))
           /\ Adm!Woken(m, n).queue = m.queue
           /\ Tokens(Adm!Woken(m, n)) = Tokens(m)
<1>1. PICK b \in Nat : b = Len(m.queue) /\ DOMAIN m.queue = 1..b
  BY LenProperties DEF SemOK
<1>0. m.value \in Nat /\ n \in Nat /\ n <= m.value
  BY DEF SemOK
<1>2. PICK U : U = Adm!Ungranted(m)
  OBVIOUS
<1>3. U \subseteq 1..b /\ \A i \in U : m.queue[i] \notin m.granted /\ m.queue[i] \in Requests
  BY <1>1, <1>2 DEF Adm!Ungranted, SemOK
<1>4. IsFiniteSet(1..b)
  <2>1. 1 \in Int /\ b \in Int
    BY <1>1
  <2> QED
    BY ONLY <2>1, FS_Interval, Zenon
<1>5. IsFiniteSet(U)
  BY <1>3, <1>4, FS_Subset
<1>6. PICK up : up = First(U, n)
  OBVIOUS
<1>7. up \subseteq U /\ IsFiniteSet(up) /\ Cardinality(up) \in 0..n
  BY <1>0, <1>3, <1>5, <1>6, FirstFew
<1>8. PICK new : new = {m.queue[i] : i \in up}
  OBVIOUS
<1>9. IsFiniteSet(new) /\ Cardinality(new) = Cardinality(up)
  <2> DEFINE f == [i \in up |-> m.queue[i]]
  <2>1. f \in [up -> new]
    BY <1>8
  <2>2. \A i, j \in up : f[i] = f[j] => i = j
    BY <1>1, <1>3, <1>7 DEF SemOK, Distinct
  <2>3. \A y \in new : \E i \in up : f[i] = y
    BY <1>8
  <2>4. f \in Bijection(up, new)
    <3> HIDE DEF f
    <3> QED
      BY <2>1, <2>2, <2>3 DEF Bijection, Injection, Surjection, IsInjective
  <2>5. ExistsBijection(up, new)
    BY <2>4 DEF ExistsBijection
  <2> QED
    BY <2>5, <1>7, FS_Bijection
<1>10. new \cap m.granted = {} /\ new \subseteq Requests /\ new \subseteq Members(m)
  BY <1>1, <1>3, <1>7, <1>8 DEF Members
<1>11. IsFiniteSet(m.granted) /\ Cardinality(m.granted) \in Nat
  BY CacheAssumption, FS_Subset, FS_CardinalityType DEF SemOK
<1>12. Cardinality(m.granted \cup new) = Cardinality(m.granted) + Cardinality(up)
  <2>1. Cardinality(m.granted \cup new) =
            Cardinality(m.granted) + Cardinality(new) - Cardinality(m.granted \cap new)
    BY <1>9, <1>11, FS_Union, Zenon
  <2>2. Cardinality(m.granted \cap new) = 0
    BY <1>10, FS_EmptySet
  <2> QED
    BY <2>1, <2>2, <1>7, <1>9, <1>11
<1>13. Adm!Woken(m, n) = [m EXCEPT !.value = @ - Cardinality(up), !.granted = @ \cup new]
  <2>1. up = {i \in Adm!Ungranted(m) :
                  Adm!Cardinality({j \in Adm!Ungranted(m) : j < i}) < n}
    BY <1>2, <1>6, SameCount, Zenon DEF First, Before
  <2>2. Adm!Woken(m, n) = [m EXCEPT !.value = @ - Adm!Cardinality(up),
                                    !.granted = @ \cup {m.queue[i] : i \in up}]
    BY ONLY <2>1, Zenon DEF Adm!Woken
  <2> QED
    BY <2>2, <1>8, SameCount, Zenon
<1>14. m.value - Cardinality(up) \in Nat
  BY <1>0, <1>7
<1>15. /\ Adm!Woken(m, n) \in [value : Nat, queue : Seq(Requests), granted : SUBSET Requests]
       /\ Adm!Woken(m, n).value = m.value - Cardinality(up)
       /\ Adm!Woken(m, n).queue = m.queue
       /\ Adm!Woken(m, n).granted = m.granted \cup new
  BY <1>10, <1>13, <1>14 DEF SemOK
<1>16. Members(Adm!Woken(m, n)) = Members(m)
  BY <1>15 DEF Members
<1>17. SemOK(Adm!Woken(m, n))
  BY <1>10, <1>15, <1>16 DEF SemOK
<1>18. Tokens(Adm!Woken(m, n)) = Tokens(m)
  BY <1>0, <1>7, <1>11, <1>12, <1>15 DEF Tokens
<1> QED
  BY <1>15, <1>17, <1>18

--------------------------------------------------------------------------------
\* Nobody waits beside a free slot unless a wake-up is on its way: asyncio does not
\* lose one.
Awake(m) == m.value > 0 /\ Adm!Ungranted(m) # {} => m.granted # {}

\* A wake-up that has a slot to give finds the first waiter.
LEMMA WokenAwake ==
    ASSUME NEW m, SemOK(m), NEW n \in 0..m.value, n > 0 \/ m.value = 0
    PROVE  Awake(Adm!Woken(m, n))
<1>1. PICK up : up = {i \in Adm!Ungranted(m) :
                         Adm!Cardinality({j \in Adm!Ungranted(m) : j < i}) < n}
  OBVIOUS
<1>2. Adm!Woken(m, n) = [m EXCEPT !.value = @ - Adm!Cardinality(up),
                                  !.granted = @ \cup {m.queue[i] : i \in up}]
  BY ONLY <1>1, Zenon DEF Adm!Woken
<1>3. /\ Adm!Woken(m, n).queue = m.queue
      /\ Adm!Woken(m, n).granted = m.granted \cup {m.queue[i] : i \in up}
  BY <1>2 DEF SemOK
<1>4. Adm!Woken(m, n).value \in Nat /\ m.value \in Nat /\ n \in Nat /\ n <= m.value
  BY WokenKeeps DEF SemOK
<1>5. CASE Adm!Ungranted(m) = {}
  <2>1. Adm!Ungranted(Adm!Woken(m, n)) = {}
    BY <1>3, <1>5 DEF Adm!Ungranted
  <2> QED
    BY <2>1 DEF Awake
<1>6. CASE n = 0
  <2>1. m.value = 0 /\ Cardinality(m.granted) \in Nat
    BY <1>6, CacheAssumption, FS_Subset, FS_CardinalityType DEF SemOK
  <2>2. up = {}
    <3>1. \A i \in Adm!Ungranted(m) : i \in Nat
      BY LenProperties DEF Adm!Ungranted, SemOK
    <3>2. ASSUME NEW i \in Adm!Ungranted(m)
          PROVE  Cardinality(Before(Adm!Ungranted(m), i)) \in Nat
      <4>1. PICK b \in Nat : DOMAIN m.queue = 1..b
        BY LenProperties DEF SemOK
      <4>2. IsFiniteSet(1..b)
        <5>1. 1 \in Int /\ b \in Int
          BY <4>1
        <5> QED
          BY ONLY <5>1, FS_Interval, Zenon
      <4>3. Before(Adm!Ungranted(m), i) \subseteq 1..b
        BY <4>1 DEF Before, Adm!Ungranted
      <4> QED
        BY <4>2, <4>3, FS_Subset, FS_CardinalityType
    <3>3. up = First(Adm!Ungranted(m), n)
      BY <1>1, SameCount, Zenon DEF First, Before
    <3>4. \A i \in up : i \in Adm!Ungranted(m) /\ Cardinality(Before(Adm!Ungranted(m), i)) < n
      BY <3>3, Zenon DEF First
    <3> QED
      BY <3>2, <3>4, <1>6
  <2>3. Adm!Cardinality(up) = 0
    BY <2>2, SameCount, FS_EmptySet
  <2>4. Adm!Woken(m, n).value = m.value - Adm!Cardinality(up)
    BY <1>2 DEF SemOK
  <2> QED
    BY <2>1, <2>3, <2>4 DEF Awake
<1>7. CASE n > 0 /\ Adm!Ungranted(m) # {}
  <2>1. Adm!Ungranted(m) \subseteq Nat
    BY LenProperties DEF Adm!Ungranted, SemOK
  <2>2. PICK x \in Adm!Ungranted(m) : \A i \in Adm!Ungranted(m) : x <= i
    BY <1>7, <2>1, Least
  <2>3. Before(Adm!Ungranted(m), x) = {}
    BY <2>1, <2>2 DEF Before
  <2>4. Cardinality(Before(Adm!Ungranted(m), x)) < n
    BY <1>4, <1>7, <2>3, FS_EmptySet
  <2>5. x \in First(Adm!Ungranted(m), n)
    BY <2>2, <2>4, Zenon DEF First
  <2>6. up = First(Adm!Ungranted(m), n)
    BY <1>1, SameCount, Zenon DEF First, Before
  <2>7. m.queue[x] \in Adm!Woken(m, n).granted
    BY <1>3, <2>5, <2>6
  <2> QED
    BY <2>7 DEF Awake
<1> QED
  BY <1>4, <1>5, <1>6, <1>7

\* A slot that is given back is free, or granted.
LEMMA FreedKeeps ==
    ASSUME NEW m, SemOK(m)
    PROVE  /\ SemOK(Adm!Freed(m))
           /\ Members(Adm!Freed(m)) = Members(m)
           /\ Tokens(Adm!Freed(m)) = Tokens(m) + 1
           /\ Awake(Adm!Freed(m))
<1>1. PICK more : more = [m EXCEPT !.value = @ + 1]
  OBVIOUS
<1>2. /\ more \in [value : Nat, queue : Seq(Requests), granted : SUBSET Requests]
      /\ more.value = m.value + 1 /\ more.queue = m.queue /\ more.granted = m.granted
      /\ m.value \in Nat
  BY <1>1 DEF SemOK
<1>3. SemOK(more) /\ Members(more) = Members(m) /\ 1 \in 0..more.value
  BY <1>2 DEF SemOK, Members
<1>4. Cardinality(m.granted) \in Nat
  BY CacheAssumption, FS_Subset, FS_CardinalityType DEF SemOK
<1>5. Tokens(more) = Tokens(m) + 1
  BY <1>2, <1>4 DEF Tokens
<1>6. Adm!Freed(m) = Adm!Woken(more, 1)
  BY <1>1, Zenon DEF Adm!Freed
<1>7. /\ SemOK(Adm!Woken(more, 1)) /\ Adm!Woken(more, 1).queue = more.queue
      /\ Tokens(Adm!Woken(more, 1)) = Tokens(more)
      /\ Awake(Adm!Woken(more, 1))
  BY <1>3, WokenKeeps, WokenAwake
<1> QED
  BY <1>3, <1>5, <1>6, <1>7 DEF Members

\* A wait ends with value v: what is free, granted to others or woken is v and the
\* other grants.
LEMMA LeftKeeps ==
    ASSUME NEW m, SemOK(m), NEW r \in Members(m), NEW v \in Nat
    PROVE  /\ SemOK(Adm!Left(m, r, v))
           /\ Members(Adm!Left(m, r, v)) = Members(m) \ {r}
           /\ Tokens(Adm!Left(m, r, v)) = v + Cardinality(m.granted \ {r})
           /\ Awake(Adm!Left(m, r, v))
<1>1. PICK rest : rest = [value |-> v, queue |-> Adm!Without(m.queue, r),
                          granted |-> m.granted \ {r}]
  OBVIOUS
<1>2. /\ m.queue \in Seq(Requests) /\ Distinct(m.queue)
      /\ \E x \in DOMAIN m.queue : m.queue[x] = r
  BY DEF SemOK, Members
<1>3. /\ rest.queue \in Seq(Requests) /\ Distinct(rest.queue)
      /\ {rest.queue[i] : i \in DOMAIN rest.queue} = {m.queue[i] : i \in DOMAIN m.queue} \ {r}
  <2>1. rest.queue = Adm!Without(m.queue, r)
    BY <1>1
  <2>2. /\ Adm!Without(m.queue, r) \in Seq(Requests)
        /\ Distinct(Adm!Without(m.queue, r))
        /\ {Adm!Without(m.queue, r)[i] : i \in DOMAIN Adm!Without(m.queue, r)} =
               {m.queue[i] : i \in DOMAIN m.queue} \ {r}
    BY ONLY <1>2, WithoutKeeps, Zenon
  <2> QED
    BY ONLY <2>1, <2>2, Zenon
<1>4. Members(rest) = Members(m) \ {r}
  BY <1>3 DEF Members
<1>5. SemOK(rest) /\ rest.value = v /\ rest.granted = m.granted \ {r} /\ v \in 0..rest.value
  <2>1. rest.value = v /\ rest.granted = m.granted \ {r}
    BY <1>1
  <2>2. rest.granted \in SUBSET Requests /\ rest.granted \subseteq Members(rest)
    BY <2>1, <1>4 DEF SemOK
  <2>3. rest \in [value : Nat, queue : Seq(Requests), granted : SUBSET Requests]
    BY <2>1, <2>2, <1>1, <1>3
  <2> QED
    BY <2>1, <2>2, <2>3, <1>3 DEF SemOK
<1>6. Adm!Left(m, r, v) = Adm!Woken(rest, v)
  BY <1>1, Zenon DEF Adm!Left
<1>7. /\ SemOK(Adm!Woken(rest, v)) /\ Adm!Woken(rest, v).queue = rest.queue
      /\ Tokens(Adm!Woken(rest, v)) = Tokens(rest)
  BY <1>5, WokenKeeps
<1>8. Awake(Adm!Woken(rest, v))
  BY <1>5, WokenAwake
<1> QED
  BY <1>4, <1>5, <1>6, <1>7, <1>8 DEF Members, Tokens

\* The count of the grants without the one of r.
LEMMA GrantsFew ==
    ASSUME NEW m, SemOK(m), NEW r
    PROVE  /\ Cardinality(m.granted) \in Nat
           /\ Cardinality(m.granted \ {r}) =
                  IF r \in m.granted THEN Cardinality(m.granted) - 1 ELSE Cardinality(m.granted)
<1>1. IsFiniteSet(m.granted)
  BY CacheAssumption, FS_Subset DEF SemOK
<1>2. CASE r \in m.granted
  BY <1>1, <1>2, CountOne
<1>3. CASE r \notin m.granted
  <2>1. m.granted \ {r} = m.granted
    BY <1>3
  <2> QED
    BY <1>1, <1>3, <2>1, CountOne
<1> QED
  BY <1>2, <1>3

\* A waiter takes the slot that was granted to it.
LEMMA TakenKeeps ==
    ASSUME NEW m, SemOK(m), NEW r \in m.granted
    PROVE  /\ SemOK(Adm!Taken(m, r))
           /\ Members(Adm!Taken(m, r)) = Members(m) \ {r}
           /\ Tokens(Adm!Taken(m, r)) = Tokens(m) - 1
           /\ Awake(Adm!Taken(m, r))
<1>1. m.value \in Nat /\ r \in Members(m)
  BY DEF SemOK
<1>2. /\ SemOK(Adm!Left(m, r, m.value))
      /\ Members(Adm!Left(m, r, m.value)) = Members(m) \ {r}
      /\ Tokens(Adm!Left(m, r, m.value)) = m.value + Cardinality(m.granted \ {r})
      /\ Awake(Adm!Left(m, r, m.value))
  BY <1>1, LeftKeeps
<1>3. Adm!Taken(m, r) = Adm!Left(m, r, m.value)
  BY Zenon DEF Adm!Taken
<1>4. /\ Cardinality(m.granted \ {r}) = Cardinality(m.granted) - 1
      /\ Cardinality(m.granted) \in Nat
  BY GrantsFew
<1> QED
  BY <1>1, <1>2, <1>3, <1>4 DEF Tokens

\* A waiter leaves without a slot: a grant it had goes on, or is free.
LEMMA QuitKeeps ==
    ASSUME NEW m, SemOK(m), NEW r \in Members(m)
    PROVE  /\ SemOK(Adm!Quit(m, r))
           /\ Members(Adm!Quit(m, r)) = Members(m) \ {r}
           /\ Tokens(Adm!Quit(m, r)) = Tokens(m)
           /\ Awake(Adm!Quit(m, r))
<1>1. m.value \in Nat
  BY DEF SemOK
<1>2. PICK v : v = IF r \in m.granted THEN m.value + 1 ELSE m.value
  OBVIOUS
<1>3. v \in Nat
  BY <1>1, <1>2
<1>4. /\ SemOK(Adm!Left(m, r, v))
      /\ Members(Adm!Left(m, r, v)) = Members(m) \ {r}
      /\ Tokens(Adm!Left(m, r, v)) = v + Cardinality(m.granted \ {r})
      /\ Awake(Adm!Left(m, r, v))
  BY <1>3, LeftKeeps
<1>5. Adm!Quit(m, r) = Adm!Left(m, r, v)
  BY <1>2, Zenon DEF Adm!Quit
<1> QED
  BY <1>1, <1>2, <1>4, <1>5, GrantsFew DEF Tokens

\* A free slot is taken at once.
LEMMA ReserveKeeps ==
    ASSUME NEW m, SemOK(m), ~Adm!Locked(m), NEW less, less = [m EXCEPT !.value = @ - 1]
    PROVE  /\ SemOK(less)
           /\ Members(less) = Members(m)
           /\ Tokens(less) = Tokens(m) - 1
           /\ Awake(less)
<1>1. m.value \in Nat /\ m.value # 0
  BY DEF SemOK, Adm!Locked
<1>2. m.value - 1 \in Nat
  BY <1>1
<1>3. /\ less \in [value : Nat, queue : Seq(Requests), granted : SUBSET Requests]
      /\ less.value = m.value - 1 /\ less.queue = m.queue /\ less.granted = m.granted
  BY <1>2 DEF SemOK
<1>4. SemOK(less) /\ Members(less) = Members(m)
  BY <1>3 DEF SemOK, Members
<1>5. Cardinality(m.granted) \in Nat
  BY GrantsFew
<1>6. Awake(less)
  BY <1>3 DEF Awake, Adm!Locked, Adm!Ungranted
<1> QED
  BY <1>1, <1>3, <1>4, <1>5, <1>6 DEF Tokens

\* A request starts to wait.
LEMMA EnqueueKeeps ==
    ASSUME NEW m, SemOK(m), Awake(m), Adm!Locked(m), NEW r \in Requests, r \notin Members(m),
           NEW more, more = [m EXCEPT !.queue = Append(@, r)]
    PROVE  /\ SemOK(more)
           /\ Members(more) = Members(m) \cup {r}
           /\ Tokens(more) = Tokens(m)
           /\ Awake(more)
<1>1. PICK n \in Nat : n = Len(m.queue) /\ DOMAIN m.queue = 1..n
  BY LenProperties DEF SemOK
<1>2. PICK q : q = Append(m.queue, r)
  OBVIOUS
<1>3. /\ q \in Seq(Requests) /\ Len(q) = n + 1
      /\ \A i \in 1..n : q[i] = m.queue[i]
      /\ q[n + 1] = r
  BY <1>1, <1>2, AppendProperties DEF SemOK
<1>4. DOMAIN q = 1..(n + 1)
  BY <1>3, LenProperties
<1>5. \A i \in 1..(n + 1) : i = n + 1 \/ i \in 1..n
  OBVIOUS
<1>6. n + 1 \in 1..(n + 1) /\ \A i \in 1..n : i \in 1..(n + 1)
  OBVIOUS
<1>7. Distinct(q)
  BY <1>1, <1>3, <1>4, <1>5 DEF Distinct, SemOK, Members
<1>8. /\ more \in [value : Nat, queue : Seq(Requests), granted : SUBSET Requests]
      /\ more.value = m.value /\ more.queue = q /\ more.granted = m.granted
  BY <1>2, <1>3 DEF SemOK
<1>9. Members(more) = Members(m) \cup {r}
  <2>1. \A y \in Members(more) : y \in Members(m) \cup {r}
    BY <1>1, <1>3, <1>4, <1>5, <1>8 DEF Members
  <2>2. \A y \in Members(m) \cup {r} : y \in Members(more)
    <3>1. \A i \in 1..n : q[i] \in Members(more)
      BY <1>4, <1>6, <1>8 DEF Members
    <3>2. r \in Members(more)
      BY <1>3, <1>4, <1>6, <1>8 DEF Members
    <3>3. \A y \in Members(m) : y \in Members(more)
      BY <1>1, <1>3, <3>1 DEF Members
    <3> QED
      BY <3>2, <3>3
  <2> QED
    BY <2>1, <2>2
<1>10. SemOK(more)
  BY <1>7, <1>8, <1>9 DEF SemOK
<1>11. Awake(more)
  <2>1. CASE m.value = 0
    BY <2>1, <1>8 DEF Awake
  <2>2. CASE m.queue # <<>> /\ Adm!Ungranted(m) = {}
    <3>1. 1 \in DOMAIN m.queue
      BY <2>2, EmptySeq DEF SemOK
    <3>2. m.queue[1] \in m.granted
      BY <2>2, <3>1 DEF Adm!Ungranted
    <3> QED
      BY <3>2, <1>8 DEF Awake
  <2>3. CASE Adm!Ungranted(m) # {}
    BY <2>3, <1>8 DEF Awake
  <2> QED
    BY <2>1, <2>2, <2>3 DEF Adm!Locked
<1> QED
  BY <1>8, <1>9, <1>10, <1>11 DEF Tokens

--------------------------------------------------------------------------------
\* The scopes of an endpoint are different, and the global one comes last.
LEMMA ScopesForOK ==
    ASSUME NEW p \in Paths
    PROVE  /\ Len(Adm!ScopesFor(p)) \in 0..2
           /\ DOMAIN Adm!ScopesFor(p) = 1..Len(Adm!ScopesFor(p))
           /\ \A i \in 1..Len(Adm!ScopesFor(p)) :
                 /\ Adm!ScopesFor(p)[i] \in Adm!Scopes
                 /\ Adm!ScopesFor(p)[i] = Adm!Global => i = Len(Adm!ScopesFor(p))
           /\ \A i, j \in 1..Len(Adm!ScopesFor(p)) :
                 Adm!ScopesFor(p)[i] = Adm!ScopesFor(p)[j] => i = j
<1>1. p # Adm!Global
  BY LookupAssumption DEF Adm!AdmissionAssumption
<1>2. Adm!ScopesFor(p) = (IF p \in Adm!Scopes THEN <<p>> ELSE <<>>)
          \o (IF Adm!Global \in Adm!Scopes /\ p # "dataset" THEN <<Adm!Global>> ELSE <<>>)
  BY Zenon DEF Adm!ScopesFor
<1>3. CASE p \in Adm!Scopes /\ Adm!Global \in Adm!Scopes /\ p # "dataset"
  <2>1. Adm!ScopesFor(p) = <<p>> \o <<Adm!Global>>
    BY <1>2, <1>3, Zenon
  <2>2. PICK t \in Seq({p, Adm!Global}) : /\ t = Append(<<p>>, Adm!Global)
                                           /\ Len(t) = 2 /\ t[1] = p /\ t[2] = Adm!Global
    <3>1. <<p>> \in Seq({p, Adm!Global}) /\ Adm!Global \in {p, Adm!Global}
          /\ Len(<<p>>) = 1 /\ <<p>>[1] = p
      OBVIOUS
    <3>2. /\ Append(<<p>>, Adm!Global) \in Seq({p, Adm!Global})
          /\ Len(Append(<<p>>, Adm!Global)) = 2
          /\ Append(<<p>>, Adm!Global)[1] = <<p>>[1]
          /\ Append(<<p>>, Adm!Global)[2] = Adm!Global
      BY <3>1, AppendProperties
    <3> QED
      BY <3>1, <3>2
  <2>3. <<p>> \in Seq({p, Adm!Global}) /\ Adm!Global \in {p, Adm!Global}
    OBVIOUS
  <2>4. t = <<p>> \o <<Adm!Global>>
    BY ONLY <2>2, <2>3, AppendIsConcat, Zenon
  <2>5. Adm!ScopesFor(p) = t
    BY <2>1, <2>4
  <2>6. DOMAIN t = 1..2
    BY <2>2, LenProperties
  <2>7. \A i \in 1..2 : i = 1 \/ i = 2
    OBVIOUS
  <2>8. p \in Adm!Scopes /\ Adm!Global \in Adm!Scopes
    BY <1>3
  <2> QED
    BY <1>1, <2>2, <2>5, <2>6, <2>7, <2>8
<1>4. CASE p \in Adm!Scopes /\ ~(Adm!Global \in Adm!Scopes /\ p # "dataset")
  <2>1. Adm!ScopesFor(p) = <<p>> \o <<>>
    BY <1>2, <1>4, Zenon
  <2>2. <<p>> \o <<>> = <<p>>
    OBVIOUS
  <2>3. Adm!ScopesFor(p) = <<p>>
    BY <2>1, <2>2
  <2> QED
    BY <1>1, <1>4, <2>3
<1>5. CASE p \notin Adm!Scopes /\ Adm!Global \in Adm!Scopes /\ p # "dataset"
  <2>1. Adm!ScopesFor(p) = <<>> \o <<Adm!Global>>
    BY <1>2, <1>5, Zenon
  <2>2. <<>> \o <<Adm!Global>> = <<Adm!Global>>
    OBVIOUS
  <2>3. Adm!ScopesFor(p) = <<Adm!Global>>
    BY <2>1, <2>2
  <2> QED
    BY <1>5, <2>3
<1>6. CASE p \notin Adm!Scopes /\ ~(Adm!Global \in Adm!Scopes /\ p # "dataset")
  <2>1. Adm!ScopesFor(p) = <<>> \o <<>>
    BY <1>2, <1>6, Zenon
  <2>2. <<>> \o <<>> = <<>>
    OBVIOUS
  <2>3. Adm!ScopesFor(p) = <<>>
    BY <2>1, <2>2
  <2> QED
    BY <2>3
<1> QED
  BY <1>3, <1>4, <1>5, <1>6

--------------------------------------------------------------------------------
\* A request has the first `got` scopes of its endpoint; one that waits is in the
\* queue of the next.
ReqOK(r) ==
    /\ Stage(r) = "out" => req[r] = Adm!Out
    /\ Stage(r) # "out" => req[r].path \in Paths
    /\ Stage(r) = "waiting" => req[r].got < Len(Adm!ScopesFor(req[r].path))
    /\ Stage(r) = "serving" => req[r].got = Len(Adm!ScopesFor(req[r].path))

WaitsFor(r, s) == Stage(r) = "waiting" /\ Adm!Wanted(r) = s

Holders(s) == {r \in Requests : s \in Adm!Held(r)}
Waiters(s) == {r \in Requests : WaitsFor(r, s)}

ScopeInv(s) ==
    /\ SemOK(sem[s]) /\ Awake(sem[s])
    /\ Members(sem[s]) = Waiters(s)
    /\ inUse[s] \in Nat /\ lost[s] \in Nat
    /\ Tokens(sem[s]) + Cardinality(Holders(s)) + lost[s] = Limit[s]
    /\ inUse[s] = Cardinality(Holders(s)) + lost[s]

AdmInv ==
    /\ req \in [Requests -> [stage : {"out", "waiting", "serving"},
                             path : Paths \cup {"none"}, got : Nat]]
    /\ inUse = [s \in Adm!Scopes |-> inUse[s]]
    /\ lost = [s \in Adm!Scopes |-> lost[s]]
    /\ \A r \in Requests : ReqOK(r)
    /\ \A s \in Adm!Scopes : ScopeInv(s)

\* A request moves: what its scope counts for it changes hands with it.
LEMMA ScopeMoves ==
    ASSUME AdmInv, NEW r \in Requests, NEW s \in Adm!Scopes,
           NEW x, req' = [req EXCEPT ![r] = x],
           NEW has \in 0..1, NEW had \in 0..1, NEW waits \in 0..1,
           has = 1 <=> (s \in Adm!Held(r))', had = 1 <=> s \in Adm!Held(r),
           waits = 1 <=> WaitsFor(r, s)',
           SemOK(sem'[s]), Awake(sem'[s]),
           Members(sem'[s]) = IF waits = 1 THEN Members(sem[s]) \cup {r}
                                          ELSE Members(sem[s]) \ {r},
           lost'[s] \in Nat, inUse'[s] \in Int,
           Tokens(sem'[s]) + has + lost'[s] = Tokens(sem[s]) + had + lost[s],
           inUse'[s] - has - lost'[s] = inUse[s] - had - lost[s]
    PROVE  ScopeInv(s)'
<1>1. /\ ScopeInv(s)
      /\ req \in [Requests -> [stage : {"out", "waiting", "serving"},
                               path : Paths \cup {"none"}, got : Nat]]
  BY DEF AdmInv
<1>2. \A q \in Requests : q # r => req'[q] = req[q]
  BY <1>1
<1>3. \A q \in Requests : q # r => /\ (s \in Adm!Held(q))' <=> s \in Adm!Held(q)
                                   /\ WaitsFor(q, s)' <=> WaitsFor(q, s)
  BY <1>2 DEF Adm!Held, WaitsFor, Adm!Wanted, Stage
<1>4. /\ Holders(s)' = IF has = 1 THEN Holders(s) \cup {r} ELSE Holders(s) \ {r}
      /\ had = 1 <=> r \in Holders(s)
  BY <1>3 DEF Holders
<1>5. Waiters(s)' = IF waits = 1 THEN Waiters(s) \cup {r} ELSE Waiters(s) \ {r}
  BY <1>3 DEF Waiters
<1>6. IsFiniteSet(Holders(s))
  BY CacheAssumption, FS_Subset DEF Holders
<1>0. /\ r \notin Holders(s) => Cardinality(Holders(s) \cup {r}) = Cardinality(Holders(s)) + 1
      /\ r \in Holders(s) => Cardinality(Holders(s) \ {r}) = Cardinality(Holders(s)) - 1
      /\ Cardinality(Holders(s)) \in Nat
  BY ONLY <1>6, CountOne, Zenon
<1>7. /\ Cardinality(Holders(s)) \in Nat
      /\ Cardinality(Holders(s)') = Cardinality(Holders(s)) + has - had
  <2>1. CASE has = 1 /\ had = 1
    <3>1. Holders(s)' = Holders(s)
      BY <2>1, <1>4
    <3> QED
      BY <2>1, <3>1, <1>0
  <2>2. CASE has = 1 /\ had = 0
    <3>1. Holders(s)' = Holders(s) \cup {r} /\ r \notin Holders(s)
      BY <2>2, <1>4
    <3> QED
      BY <2>2, <3>1, <1>0
  <2>3. CASE has = 0 /\ had = 1
    <3>1. Holders(s)' = Holders(s) \ {r} /\ r \in Holders(s)
      BY <2>3, <1>4
    <3> QED
      BY <2>3, <3>1, <1>0
  <2>4. CASE has = 0 /\ had = 0
    <3>1. Holders(s)' = Holders(s)
      BY <2>4, <1>4
    <3> QED
      BY <2>4, <3>1, <1>0
  <2> QED
    BY <2>1, <2>2, <2>3, <2>4
<1>8. Members(sem'[s]) = Waiters(s)'
  BY <1>1, <1>5 DEF ScopeInv
<1>9. IsFiniteSet(Holders(s)')
  BY <1>4, <1>6, FS_AddElement, FS_RemoveElement
<1>10. Cardinality(Holders(s)') \in Nat
  BY <1>9, FS_CardinalityType
<1>12. PICK c \in Nat, d \in Nat : c = Cardinality(Holders(s)) /\ d = Cardinality(Holders(s)')
  BY <1>7, <1>10
<1>14. Tokens(sem[s]) \in Int /\ Tokens(sem'[s]) \in Int
  <2>1. SemOK(sem[s])
    BY <1>1 DEF ScopeInv
  <2>2. Cardinality(sem[s].granted) \in Nat /\ Cardinality(sem'[s].granted) \in Nat
    BY <2>1, GrantsFew
  <2>3. sem[s].value \in Nat /\ sem'[s].value \in Nat
    BY <2>1 DEF SemOK
  <2> QED
    BY <2>2, <2>3 DEF Tokens
<1>15. PICK a \in Int, b \in Int : a = Tokens(sem[s]) /\ b = Tokens(sem'[s])
  BY <1>14
<1>16. /\ a + c + lost[s] = Limit[s] /\ inUse[s] = c + lost[s]
       /\ lost[s] \in Nat /\ inUse[s] \in Nat
  BY <1>1, <1>12, <1>15 DEF ScopeInv
<1>17. d = c + has - had
  BY <1>7, <1>12
<1>18. b + has + lost'[s] = a + had + lost[s]
  BY <1>15
<1>19. b + d + lost'[s] = Limit[s] /\ inUse'[s] = d + lost'[s] /\ inUse'[s] \in Nat
  BY <1>16, <1>17, <1>18
<1>20. Limit' = Limit
  OBVIOUS
<1> QED
  BY <1>8, <1>12, <1>15, <1>19 DEF ScopeInv

\* The three ways of it: r takes a slot of s, gives it back, or neither.
LEMMA ScopeTaken ==
    ASSUME AdmInv, NEW r \in Requests, NEW s \in Adm!Scopes,
           NEW x, req' = [req EXCEPT ![r] = x],
           (s \in Adm!Held(r))', ~(s \in Adm!Held(r)), ~WaitsFor(r, s)',
           SemOK(sem'[s]), Awake(sem'[s]),
           Members(sem'[s]) = Members(sem[s]) \ {r}, lost'[s] = lost[s],
           lost[s] \in Nat, inUse[s] \in Int, Tokens(sem[s]) \in Int,
           Tokens(sem'[s]) = Tokens(sem[s]) - 1, inUse'[s] = inUse[s] + 1
    PROVE  ScopeInv(s)'
<1>1. /\ Tokens(sem'[s]) + 1 + lost'[s] = Tokens(sem[s]) + 0 + lost[s]
      /\ inUse'[s] - 1 - lost'[s] = inUse[s] - 0 - lost[s]
      /\ lost'[s] \in Nat /\ inUse'[s] \in Int
      /\ 0 \in 0..1 /\ 1 \in 0..1 /\ 0 # 1
  OBVIOUS
<1> QED
  BY <1>1, ScopeMoves

\* r gives its slot of s back, or loses it.
LEMMA ScopeReleased ==
    ASSUME AdmInv, NEW r \in Requests, NEW s \in Adm!Scopes,
           NEW x, req' = [req EXCEPT ![r] = x],
           ~(s \in Adm!Held(r))', s \in Adm!Held(r), ~WaitsFor(r, s)',
           SemOK(sem'[s]), Awake(sem'[s]),
           Members(sem'[s]) = Members(sem[s]) \ {r},
           lost'[s] \in Nat, lost[s] \in Nat, inUse[s] \in Int, inUse'[s] \in Int,
           Tokens(sem[s]) \in Int, Tokens(sem'[s]) \in Int,
           Tokens(sem'[s]) + lost'[s] = Tokens(sem[s]) + lost[s] + 1,
           inUse'[s] - lost'[s] = inUse[s] - lost[s] - 1
    PROVE  ScopeInv(s)'
<1>1. /\ Tokens(sem'[s]) + 0 + lost'[s] = Tokens(sem[s]) + 1 + lost[s]
      /\ inUse'[s] - 0 - lost'[s] = inUse[s] - 1 - lost[s]
      /\ 0 \in 0..1 /\ 1 \in 0..1 /\ 0 # 1
  OBVIOUS
<1> QED
  BY <1>1, ScopeMoves

\* r has as much of s as before, and may start or stop waiting for it.
LEMMA ScopeStays ==
    ASSUME AdmInv, NEW r \in Requests, NEW s \in Adm!Scopes,
           NEW x, req' = [req EXCEPT ![r] = x],
           (s \in Adm!Held(r))' <=> s \in Adm!Held(r),
           SemOK(sem'[s]), Awake(sem'[s]),
           \/ WaitsFor(r, s)' /\ Members(sem'[s]) = Members(sem[s]) \cup {r}
           \/ ~WaitsFor(r, s)' /\ Members(sem'[s]) = Members(sem[s]) \ {r},
           lost'[s] = lost[s], lost[s] \in Nat, inUse[s] \in Int, Tokens(sem[s]) \in Int,
           Tokens(sem'[s]) = Tokens(sem[s]), inUse'[s] = inUse[s]
    PROVE  ScopeInv(s)'
<1>1. PICK had \in 0..1 : had = IF s \in Adm!Held(r) THEN 1 ELSE 0
  OBVIOUS
<1>2. PICK waits \in 0..1 : waits = IF WaitsFor(r, s)' THEN 1 ELSE 0
  OBVIOUS
<1>3. /\ had = 1 <=> (s \in Adm!Held(r))'
      /\ had = 1 <=> s \in Adm!Held(r)
  BY <1>1
<1>4. /\ waits = 1 <=> WaitsFor(r, s)'
      /\ Members(sem'[s]) = IF waits = 1 THEN Members(sem[s]) \cup {r}
                                         ELSE Members(sem[s]) \ {r}
  <2>1. CASE WaitsFor(r, s)'
    BY <2>1, <1>2
  <2>2. CASE ~WaitsFor(r, s)'
    BY <2>2, <1>2
  <2> QED
    BY <2>1, <2>2
<1>5. /\ Tokens(sem'[s]) + had + lost'[s] = Tokens(sem[s]) + had + lost[s]
      /\ inUse'[s] - had - lost'[s] = inUse[s] - had - lost[s]
      /\ lost'[s] \in Nat /\ inUse'[s] \in Int
  OBVIOUS
<1> QED
  BY <1>3, <1>4, <1>5, ScopeMoves

--------------------------------------------------------------------------------
\* The loop over the scopes ends: at the first that is locked, or behind the last.
LEMMA ProceedStops ==
    ASSUME NEW r, NEW p \in Paths, NEW got \in 0..Len(Adm!ScopesFor(p)), NEW granted,
           Adm!Proceed(r, p, got, granted)
    PROVE  \E k \in got..Len(Adm!ScopesFor(p)) :
              /\ \A i \in (got + 1)..k : ~Adm!Locked(sem[Adm!ScopesFor(p)[i]])
              /\ k < Len(Adm!ScopesFor(p)) => Adm!Locked(sem[Adm!ScopesFor(p)[k + 1]])
              /\ req' = [req EXCEPT ![r] =
                     [stage |-> IF k < Len(Adm!ScopesFor(p)) THEN "waiting" ELSE "serving",
                      path |-> p, got |-> k]]
              /\ sem' = [s \in Adm!Scopes |->
                     CASE s \in granted -> Adm!Taken(sem[s], r)
                       [] s \in {Adm!ScopesFor(p)[i] : i \in (got + 1)..k} ->
                              [sem[s] EXCEPT !.value = @ - 1]
                       [] k < Len(Adm!ScopesFor(p)) /\ s = Adm!ScopesFor(p)[k + 1] ->
                              [sem[s] EXCEPT !.queue = Append(@, r)]
                       [] OTHER -> sem[s]]
              /\ inUse' = Adm!InUse(granted \cup {Adm!ScopesFor(p)[i] : i \in (got + 1)..k}, {})
              /\ lost' = lost
<1> DEFINE todo == Adm!ScopesFor(p)
           Stops(n) == /\ \A i \in (got + 1)..n : ~Adm!Locked(sem[todo[i]])
                       /\ n < Len(todo) => Adm!Locked(sem[todo[n + 1]])
           T == {n \in got..Len(todo) : n < Len(todo) => Adm!Locked(sem[todo[n + 1]])}
<1>1. Len(todo) \in Nat /\ got \in Nat /\ got <= Len(todo)
  BY ScopesForOK
<1>2. T \subseteq Nat /\ Len(todo) \in T
  BY <1>1
<1>3. PICK n \in T : \A m \in T : n <= m
  <2> HIDE DEF T
  <2> QED
    BY <1>2, Least
<1>4. ASSUME NEW i \in (got + 1)..n
      PROVE  ~Adm!Locked(sem[todo[i]])
  <2>1. i - 1 \in got..Len(todo) /\ i - 1 < Len(todo) /\ i - 1 < n /\ i - 1 + 1 = i
    BY <1>1, <1>3
  <2>2. i - 1 \notin T
    <3> HIDE DEF T
    <3> QED
      BY <1>2, <1>3, <2>1
  <2> QED
    BY <2>1, <2>2
<1>5. n \in got..Len(todo) /\ Stops(n)
  BY <1>3, <1>4
<1>6. PICK k : k = CHOOSE x \in got..Len(todo) : Stops(x)
  OBVIOUS
<1>7. k \in got..Len(todo) /\ Stops(k)
  <2> HIDE DEF Stops
  <2> QED
    BY <1>5, <1>6
<1>8. /\ req' = [req EXCEPT ![r] =
             [stage |-> IF k < Len(todo) THEN "waiting" ELSE "serving",
              path |-> p, got |-> k]]
      /\ sem' = [s \in Adm!Scopes |->
             CASE s \in granted -> Adm!Taken(sem[s], r)
               [] s \in {todo[i] : i \in (got + 1)..k} ->
                      [sem[s] EXCEPT !.value = @ - 1]
               [] k < Len(todo) /\ s = todo[k + 1] ->
                      [sem[s] EXCEPT !.queue = Append(@, r)]
               [] OTHER -> sem[s]]
      /\ inUse' = Adm!InUse(granted \cup {todo[i] : i \in (got + 1)..k}, {})
      /\ lost' = lost
  <2>1. req' = [req EXCEPT ![r] =
             [stage |-> IF k < Len(todo) THEN "waiting" ELSE "serving",
              path |-> p, got |-> k]]
    BY <1>6, Zenon DEF Adm!Proceed
  <2>3. inUse' = Adm!InUse(granted \cup {todo[i] : i \in (got + 1)..k}, {})
    BY <1>6, Zenon DEF Adm!Proceed
  <2>4. lost' = lost
    BY <1>6, Zenon DEF Adm!Proceed
  <2>2. sem' = [s \in Adm!Scopes |->
             CASE s \in granted -> Adm!Taken(sem[s], r)
               [] s \in {todo[i] : i \in (got + 1)..k} ->
                      [sem[s] EXCEPT !.value = @ - 1]
               [] k < Len(todo) /\ s = todo[k + 1] ->
                      [sem[s] EXCEPT !.queue = Append(@, r)]
               [] OTHER -> sem[s]]
    BY <1>6, SMTT(60) DEF Adm!Proceed
  <2> QED
    BY <2>1, <2>2, <2>3, <2>4
<1> QED
  BY <1>7, <1>8

\* A request takes the free scopes and queues for the next, from nothing (Arrive) or
\* with a grant for the last scope it wanted (Resume).
LEMMA ProceedKeeps ==
    ASSUME AdmInv, NEW r \in Requests, NEW p \in Paths,
           NEW got \in 0..Len(Adm!ScopesFor(p)), NEW granted,
           Adm!Held(r) \cup granted = {Adm!ScopesFor(p)[i] : i \in 1..got},
           Adm!Held(r) \cap granted = {},
           \A s \in Adm!Scopes : r \in Members(sem[s]) <=> s \in granted,
           \A s \in granted : r \in sem[s].granted,
           Adm!Proceed(r, p, got, granted)
    PROVE  AdmInv'
<1> DEFINE todo == Adm!ScopesFor(p)
           n == Len(todo)
<1>1. todo = Adm!ScopesFor(p) /\ n = Len(Adm!ScopesFor(p))
  OBVIOUS
<1>2. /\ n \in Nat /\ n = Len(todo) /\ got \in 0..n
      /\ \A i \in 1..n : todo[i] \in Adm!Scopes
      /\ \A i, j \in 1..n : todo[i] = todo[j] => i = j
  BY <1>1, ScopesForOK
<1>3. PICK k \in got..n :
        /\ \A i \in (got + 1)..k : ~Adm!Locked(sem[todo[i]])
        /\ k < n => Adm!Locked(sem[todo[k + 1]])
        /\ req' = [req EXCEPT ![r] =
               [stage |-> IF k < n THEN "waiting" ELSE "serving", path |-> p, got |-> k]]
        /\ sem' = [s \in Adm!Scopes |->
               CASE s \in granted -> Adm!Taken(sem[s], r)
                 [] s \in {todo[i] : i \in (got + 1)..k} -> [sem[s] EXCEPT !.value = @ - 1]
                 [] k < n /\ s = todo[k + 1] -> [sem[s] EXCEPT !.queue = Append(@, r)]
                 [] OTHER -> sem[s]]
        /\ inUse' = Adm!InUse(granted \cup {todo[i] : i \in (got + 1)..k}, {})
        /\ lost' = lost
  BY ONLY ProceedStops, Adm!Proceed(r, p, got, granted), p \in Paths,
          got \in 0..Len(Adm!ScopesFor(p)), Zenon
<1> HIDE DEF todo, n
<1>4. PICK free : free = {todo[i] : i \in (got + 1)..k}
  OBVIOUS
<1>5. /\ k \in Nat /\ k <= n /\ got \in Nat /\ got <= k
      /\ \A i \in 1..got : i \in 1..n /\ i \in 1..k
      /\ \A i \in (got + 1)..k : i \in 1..n /\ i \in 1..k /\ i \notin 1..got
      /\ \A i \in 1..k : i \in 1..got \/ i \in (got + 1)..k
      /\ k < n => k + 1 \in 1..n /\ k + 1 \notin 1..k
  BY <1>2, <1>3
<1>6. PICK x : x = [stage |-> IF k < n THEN "waiting" ELSE "serving", path |-> p, got |-> k]
  OBVIOUS
<1>7. /\ req' = [req EXCEPT ![r] = x]
      /\ req \in [Requests -> [stage : {"out", "waiting", "serving"},
                               path : Paths \cup {"none"}, got : Nat]]
  BY <1>3, <1>6 DEF AdmInv
<1>8. x \in [stage : {"out", "waiting", "serving"}, path : Paths \cup {"none"}, got : Nat]
  BY <1>5, <1>6
<1>9. req' \in [Requests -> [stage : {"out", "waiting", "serving"},
                             path : Paths \cup {"none"}, got : Nat]]
  BY <1>7, <1>8
<1>10. req'[r] = x /\ \A q \in Requests : q # r => req'[q] = req[q]
  BY <1>7
<1>11. \A q \in Requests : ReqOK(q)'
  <2>1. ReqOK(r)'
    BY <1>1, <1>2, <1>5, <1>6, <1>10 DEF ReqOK, Stage
  <2>2. \A q \in Requests : q # r => ReqOK(q)'
    BY <1>10 DEF AdmInv, ReqOK, Stage
  <2> QED
    BY <2>1, <2>2
<1>12. Adm!Held(r)' = {todo[i] : i \in 1..k}
  BY <1>1, <1>6, <1>10 DEF Adm!Held
<1>13. {todo[i] : i \in 1..k} = (Adm!Held(r) \cup granted) \cup free
  <2>1. Adm!Held(r) \cup granted = {todo[i] : i \in 1..got}
    BY <1>1
  <2> QED
    BY <2>1, <1>4, <1>5
<1>14. \A s : WaitsFor(r, s)' <=> k < n /\ s = todo[k + 1]
  BY <1>1, <1>6, <1>10 DEF WaitsFor, Adm!Wanted, Stage
<1>15. free \cap (Adm!Held(r) \cup granted) = {}
  <2>1. Adm!Held(r) \cup granted = {todo[i] : i \in 1..got}
    BY <1>1
  <2> QED
    BY <2>1, <1>2, <1>4, <1>5
<1>16. k < n => todo[k + 1] \notin (Adm!Held(r) \cup granted) \cup free
  BY <1>2, <1>5, <1>13
<1>17. ASSUME NEW s \in Adm!Scopes
       PROVE  ScopeInv(s)'
  <2>1. SemOK(sem[s]) /\ Awake(sem[s]) /\ inUse[s] \in Int /\ lost[s] \in Nat
    BY DEF AdmInv, ScopeInv
  <2>3. lost'[s] = lost[s]
    BY <1>3
  <2>4. inUse'[s] = IF s \in granted \cup free THEN inUse[s] + 1 ELSE inUse[s]
    BY <2>1, <1>3, <1>4 DEF Adm!InUse
  <2>6. Tokens(sem[s]) \in Int
    <3>1. Cardinality(sem[s].granted) \in Nat
      BY <2>1, GrantsFew
    <3> QED
      BY <2>1, <3>1 DEF Tokens, SemOK
  <2>7. sem'[s] = CASE s \in granted -> Adm!Taken(sem[s], r)
                    [] s \in free -> [sem[s] EXCEPT !.value = @ - 1]
                    [] k < n /\ s = todo[k + 1] -> [sem[s] EXCEPT !.queue = Append(@, r)]
                    [] OTHER -> sem[s]
    BY <1>3, <1>4
  <2>8. /\ (s \in Adm!Held(r))' <=> s \in (Adm!Held(r) \cup granted) \cup free
        /\ WaitsFor(r, s)' <=> k < n /\ s = todo[k + 1]
    BY <1>12, <1>13, <1>14
  <2>9. CASE s \in granted
    <3>1. (s \in Adm!Held(r))' /\ ~(s \in Adm!Held(r)) /\ ~WaitsFor(r, s)'
      BY <2>9, <2>8, <1>16
    <3>2. sem'[s] = Adm!Taken(sem[s], r)
      BY <2>7, <2>9, <1>15, <1>16
    <3>3. /\ SemOK(sem'[s]) /\ Awake(sem'[s])
          /\ Members(sem'[s]) = Members(sem[s]) \ {r}
          /\ Tokens(sem'[s]) = Tokens(sem[s]) - 1
      BY <2>1, <2>9, <3>2, TakenKeeps
    <3>4. inUse'[s] = inUse[s] + 1
      BY <2>4, <2>9
    <3> QED
      BY <1>7, <2>1, <2>3, <2>6, <3>1, <3>3, <3>4, ScopeTaken
  <2>10. CASE s \in free
    <3>1. /\ (s \in Adm!Held(r))' /\ ~(s \in Adm!Held(r)) /\ ~WaitsFor(r, s)'
          /\ s \notin granted
      BY <2>10, <2>8, <1>15, <1>16
    <3>2. sem'[s] = [sem[s] EXCEPT !.value = @ - 1] /\ ~Adm!Locked(sem[s])
      BY <2>7, <2>10, <3>1, <1>3, <1>4, <1>16
    <3>3. /\ SemOK(sem'[s]) /\ Awake(sem'[s])
          /\ Members(sem'[s]) = Members(sem[s])
          /\ Tokens(sem'[s]) = Tokens(sem[s]) - 1
      BY <2>1, <3>2, ReserveKeeps
    <3>4. Members(sem'[s]) = Members(sem[s]) \ {r}
      BY <3>1, <3>3
    <3>5. inUse'[s] = inUse[s] + 1
      BY <2>4, <2>10
    <3> QED
      BY <1>7, <2>1, <2>3, <2>6, <3>1, <3>3, <3>4, <3>5, ScopeTaken
  <2>11. CASE s \notin granted /\ s \notin free
    <3>1. ((s \in Adm!Held(r))' <=> s \in Adm!Held(r)) /\ r \notin Members(sem[s])
      BY <2>11, <2>8
    <3>2. inUse'[s] = inUse[s]
      BY <2>4, <2>11
    <3>3. CASE WaitsFor(r, s)'
      <4>1. k < n /\ s = todo[k + 1] /\ Adm!Locked(sem[s])
        BY <3>3, <2>8, <1>3
      <4>2. sem'[s] = [sem[s] EXCEPT !.queue = Append(@, r)]
        BY <4>1, <2>7, <2>11
      <4>3. /\ SemOK(sem'[s]) /\ Awake(sem'[s])
            /\ Members(sem'[s]) = Members(sem[s]) \cup {r}
            /\ Tokens(sem'[s]) = Tokens(sem[s])
        <5>1. PICK m, more : m = sem[s] /\ more = sem'[s]
          OBVIOUS
        <5>2. /\ SemOK(m) /\ Awake(m) /\ Adm!Locked(m) /\ r \notin Members(m)
              /\ more = [m EXCEPT !.queue = Append(@, r)]
          BY <2>1, <3>1, <4>1, <4>2, <5>1
        <5>3. /\ SemOK(more) /\ Awake(more)
              /\ Members(more) = Members(m) \cup {r}
              /\ Tokens(more) = Tokens(m)
          BY <5>2, EnqueueKeeps
        <5> QED
          BY <5>1, <5>3
      <4> QED
        BY <1>7, <2>1, <2>3, <2>6, <3>1, <3>2, <3>3, <4>3, ScopeStays
    <3>4. CASE ~WaitsFor(r, s)'
      <4>1. sem'[s] = sem[s]
        BY <3>4, <2>7, <2>8, <2>11
      <4>2. Members(sem'[s]) = Members(sem[s]) \ {r}
        BY <3>1, <4>1
      <4> QED
        BY <1>7, <2>1, <2>3, <2>6, <3>1, <3>2, <3>4, <4>1, <4>2, ScopeStays
    <3> QED
      BY <3>3, <3>4
  <2> QED
    BY <2>9, <2>10, <2>11
<1>18. inUse' = [s \in Adm!Scopes |-> inUse'[s]] /\ lost' = [s \in Adm!Scopes |-> lost'[s]]
  BY <1>3 DEF AdmInv, Adm!InUse
<1> QED
  BY <1>9, <1>11, <1>17, <1>18 DEF AdmInv

\* An arrival begins with no slot and no grant.
LEMMA ArriveKeeps ==
    ASSUME AdmInv, NEW r \in Requests, NEW p \in Paths, Adm!Arrive(r, p)
    PROVE  AdmInv'
<1>1. Stage(r) = "out" /\ Adm!Proceed(r, p, 0, {})
  BY DEF Adm!Arrive, Stage
<1>2. req[r] = Adm!Out
  BY <1>1 DEF AdmInv, ReqOK
<1>3. Adm!Held(r) = {}
  BY <1>2 DEF Adm!Held, Adm!Out
<1>4. \A s \in Adm!Scopes : r \notin Members(sem[s])
  BY <1>1 DEF AdmInv, ScopeInv, Waiters, WaitsFor
<1>5. 0 \in 0..Len(Adm!ScopesFor(p)) /\ {Adm!ScopesFor(p)[i] : i \in 1..0} = {}
  BY ScopesForOK
<1> QED
  BY <1>1, <1>3, <1>4, <1>5, ProceedKeeps

\* What a waiting request has and wants.
LEMMA WaitingHas ==
    ASSUME AdmInv, NEW r \in Requests, Stage(r) = "waiting"
    PROVE  /\ req[r].path \in Paths
           /\ req[r].got \in Nat
           /\ req[r].got + 1 \in 1..Len(Adm!ScopesFor(req[r].path))
           /\ Adm!Wanted(r) = Adm!ScopesFor(req[r].path)[req[r].got + 1]
           /\ Adm!Wanted(r) \in Adm!Scopes
           /\ Adm!Wanted(r) \notin Adm!Held(r)
           /\ \A s \in Adm!Scopes : r \in Members(sem[s]) <=> s = Adm!Wanted(r)
<1>1. /\ req[r].path \in Paths /\ req[r].got \in Nat
      /\ req[r].got < Len(Adm!ScopesFor(req[r].path))
  BY DEF AdmInv, ReqOK, Stage
<1>2. /\ Len(Adm!ScopesFor(req[r].path)) \in Nat
      /\ \A i \in 1..Len(Adm!ScopesFor(req[r].path)) :
             Adm!ScopesFor(req[r].path)[i] \in Adm!Scopes
      /\ \A i, j \in 1..Len(Adm!ScopesFor(req[r].path)) :
             Adm!ScopesFor(req[r].path)[i] = Adm!ScopesFor(req[r].path)[j] => i = j
  BY <1>1, ScopesForOK
<1>3. req[r].got + 1 \in 1..Len(Adm!ScopesFor(req[r].path))
  BY <1>1, <1>2
<1>4. Adm!Wanted(r) = Adm!ScopesFor(req[r].path)[req[r].got + 1]
  BY DEF Adm!Wanted
<1>5. \A i \in 1..req[r].got : i \in 1..Len(Adm!ScopesFor(req[r].path)) /\ i # req[r].got + 1
  BY <1>1, <1>2
<1>6. Adm!Wanted(r) \notin Adm!Held(r)
  BY <1>2, <1>3, <1>4, <1>5 DEF Adm!Held
<1>7. \A s \in Adm!Scopes : r \in Members(sem[s]) <=> s = Adm!Wanted(r)
  BY DEF AdmInv, ScopeInv, Waiters, WaitsFor
<1> QED
  BY <1>1, <1>2, <1>3, <1>4, <1>6, <1>7

\* A waiter goes on with the scope that was granted to it.
LEMMA ResumeKeeps ==
    ASSUME AdmInv, NEW r \in Requests, Adm!Resume(r)
    PROVE  AdmInv'
<1>1. /\ Stage(r) = "waiting" /\ r \in sem[Adm!Wanted(r)].granted
      /\ Adm!Proceed(r, req[r].path, req[r].got + 1, {Adm!Wanted(r)})
  BY DEF Adm!Resume, Stage
<1>2. PICK p \in Paths, g \in Nat : p = req[r].path /\ g = req[r].got
  BY <1>1, WaitingHas
<1>3. /\ g + 1 \in 1..Len(Adm!ScopesFor(p))
      /\ Adm!Wanted(r) = Adm!ScopesFor(p)[g + 1]
      /\ Adm!Wanted(r) \notin Adm!Held(r)
      /\ \A s \in Adm!Scopes : r \in Members(sem[s]) <=> s = Adm!Wanted(r)
  BY <1>1, <1>2, WaitingHas
<1>4. Adm!Held(r) = {Adm!ScopesFor(p)[i] : i \in 1..g}
  BY <1>2 DEF Adm!Held
<1>5. g + 1 \in 0..Len(Adm!ScopesFor(p)) /\ \A i \in 1..(g + 1) : i \in 1..g \/ i = g + 1
  BY <1>3, ScopesForOK
<1>6. Adm!Held(r) \cup {Adm!Wanted(r)} = {Adm!ScopesFor(p)[i] : i \in 1..(g + 1)}
  BY <1>3, <1>4, <1>5
<1>7. PICK granted : granted = {Adm!Wanted(r)}
  OBVIOUS
<1>8. /\ Adm!Held(r) \cup granted = {Adm!ScopesFor(p)[i] : i \in 1..(g + 1)}
      /\ Adm!Held(r) \cap granted = {}
      /\ \A s \in Adm!Scopes : r \in Members(sem[s]) <=> s \in granted
      /\ \A s \in granted : r \in sem[s].granted
      /\ Adm!Proceed(r, p, g + 1, granted)
  <2>1. Adm!Proceed(r, p, g + 1, granted)
    BY ONLY <1>1, <1>2, <1>7, Zenon
  <2> QED
    BY <2>1, <1>1, <1>3, <1>6, <1>7
<1> QED
  BY <1>5, <1>8, ProceedKeeps

--------------------------------------------------------------------------------
\* A request leaves: its slots are given back, or are lost when it was cancelled in
\* the wait.
LEMMA LeavesOut ==
    ASSUME AdmInv, NEW r \in Requests, req' = [req EXCEPT ![r] = Adm!Out]
    PROVE  /\ req' \in [Requests -> [stage : {"out", "waiting", "serving"},
                                     path : Paths \cup {"none"}, got : Nat]]
           /\ \A q \in Requests : ReqOK(q)'
           /\ Adm!Held(r)' = {}
           /\ \A s : ~WaitsFor(r, s)'
<1>1. req \in [Requests -> [stage : {"out", "waiting", "serving"},
                            path : Paths \cup {"none"}, got : Nat]]
  BY DEF AdmInv
<1>2. req'[r] = Adm!Out /\ \A q \in Requests : q # r => req'[q] = req[q]
  BY <1>1
<1>3. Adm!Out \in [stage : {"out", "waiting", "serving"},
                   path : Paths \cup {"none"}, got : Nat]
      /\ Adm!Out.got = 0 /\ Adm!Out.stage = "out"
  BY DEF Adm!Out
<1>4. req' \in [Requests -> [stage : {"out", "waiting", "serving"},
                             path : Paths \cup {"none"}, got : Nat]]
  BY <1>1, <1>3
<1>5. ReqOK(r)'
  BY <1>2, <1>3 DEF ReqOK, Stage
<1>6. \A q \in Requests : q # r => ReqOK(q)'
  BY <1>2 DEF AdmInv, ReqOK, Stage
<1>7. Adm!Held(r)' = {}
  BY <1>2, <1>3 DEF Adm!Held
<1>8. \A s : ~WaitsFor(r, s)'
  BY <1>2, <1>3 DEF WaitsFor, Stage
<1> QED
  BY <1>4, <1>5, <1>6, <1>7, <1>8

\* A timeout gives all the held slots back; a cancellation in the wait loses them.
LEMMA StopWaitingKeepsSlots ==
    ASSUME AdmInv, NEW r \in Requests, NEW kept \in {{}, Adm!Held(r)},
           Adm!StopWaiting(r, kept)
    PROVE  AdmInv'
<1>1. /\ Stage(r) = "waiting"
      /\ sem' = [s \in Adm!Scopes |->
             CASE s = Adm!Wanted(r)          -> Adm!Quit(sem[s], r)
               [] s \in Adm!Held(r) \ kept   -> Adm!Freed(sem[s])
               [] OTHER                      -> sem[s]]
      /\ inUse' = Adm!InUse({}, Adm!Held(r) \ kept)
      /\ lost' = [s \in Adm!Scopes |-> IF s \in kept THEN lost[s] + 1 ELSE lost[s]]
      /\ req' = [req EXCEPT ![r] = Adm!Out]
  BY DEF Adm!StopWaiting, Stage
<1>2. /\ req' \in [Requests -> [stage : {"out", "waiting", "serving"},
                                path : Paths \cup {"none"}, got : Nat]]
      /\ \A q \in Requests : ReqOK(q)'
      /\ Adm!Held(r)' = {}
      /\ \A s : ~WaitsFor(r, s)'
  BY <1>1, LeavesOut
<1>3. /\ Adm!Wanted(r) \notin Adm!Held(r)
      /\ \A s \in Adm!Scopes : r \in Members(sem[s]) <=> s = Adm!Wanted(r)
  BY <1>1, WaitingHas
<1>4. PICK x : x = Adm!Out
  OBVIOUS
<1>5. ASSUME NEW s \in Adm!Scopes
      PROVE  ScopeInv(s)'
  <2>1. SemOK(sem[s]) /\ Awake(sem[s]) /\ inUse[s] \in Int /\ lost[s] \in Nat
    BY DEF AdmInv, ScopeInv
  <2>2. Tokens(sem[s]) \in Int
    <3>1. Cardinality(sem[s].granted) \in Nat
      BY <2>1, GrantsFew
    <3> QED
      BY <2>1, <3>1 DEF Tokens, SemOK
  <2>3. /\ ~(s \in Adm!Held(r))' /\ ~WaitsFor(r, s)' /\ req' = [req EXCEPT ![r] = x]
    BY <1>1, <1>2, <1>4
  <2>4. /\ inUse'[s] = IF s \in Adm!Held(r) \ kept THEN inUse[s] - 1 ELSE inUse[s]
        /\ lost'[s] = IF s \in kept THEN lost[s] + 1 ELSE lost[s]
    BY <2>1, <1>1 DEF Adm!InUse
  <2>5. sem'[s] = CASE s = Adm!Wanted(r)        -> Adm!Quit(sem[s], r)
                    [] s \in Adm!Held(r) \ kept -> Adm!Freed(sem[s])
                    [] OTHER                    -> sem[s]
    BY <1>1
  <2>6. CASE s = Adm!Wanted(r)
    <3>1. sem'[s] = Adm!Quit(sem[s], r) /\ r \in Members(sem[s]) /\ s \notin Adm!Held(r)
      BY <2>5, <2>6, <1>3
    <3>2. /\ SemOK(sem'[s]) /\ Awake(sem'[s])
          /\ Members(sem'[s]) = Members(sem[s]) \ {r}
          /\ Tokens(sem'[s]) = Tokens(sem[s])
      BY <2>1, <3>1, QuitKeeps
    <3>3. inUse'[s] = inUse[s] /\ lost'[s] = lost[s]
      BY <2>4, <3>1
    <3> QED
      BY <2>1, <2>2, <2>3, <3>1, <3>2, <3>3, ScopeStays
  <2>7. CASE s \in Adm!Held(r) \ kept
    <3>1. sem'[s] = Adm!Freed(sem[s]) /\ r \notin Members(sem[s])
      BY <2>5, <2>7, <1>3
    <3>2. /\ SemOK(sem'[s]) /\ Awake(sem'[s])
          /\ Members(sem'[s]) = Members(sem[s])
          /\ Tokens(sem'[s]) = Tokens(sem[s]) + 1
      BY <2>1, <3>1, FreedKeeps
    <3>3. Members(sem'[s]) = Members(sem[s]) \ {r}
      BY <3>1, <3>2
    <3>4. inUse'[s] = inUse[s] - 1 /\ lost'[s] = lost[s]
      BY <2>4, <2>7
    <3>5. /\ Tokens(sem'[s]) + lost'[s] = Tokens(sem[s]) + lost[s] + 1
          /\ inUse'[s] - lost'[s] = inUse[s] - lost[s] - 1
          /\ Tokens(sem'[s]) \in Int /\ inUse'[s] \in Int /\ lost'[s] \in Nat
      BY <2>1, <2>2, <3>2, <3>4
    <3> QED
      BY <2>1, <2>2, <2>3, <2>7, <3>2, <3>3, <3>5, ScopeReleased
  <2>8. CASE s # Adm!Wanted(r) /\ s \notin Adm!Held(r) \ kept
    <3>1. sem'[s] = sem[s] /\ r \notin Members(sem[s])
      BY <2>5, <2>8, <1>3
    <3>2. Members(sem'[s]) = Members(sem[s]) \ {r}
      BY <3>1
    <3>3. inUse'[s] = inUse[s]
      BY <2>4, <2>8
    <3>4. CASE s \in kept
      <4>1. s \in Adm!Held(r) /\ lost'[s] = lost[s] + 1
        BY <2>4, <3>4
      <4>2. /\ Tokens(sem'[s]) + lost'[s] = Tokens(sem[s]) + lost[s] + 1
            /\ inUse'[s] - lost'[s] = inUse[s] - lost[s] - 1
            /\ Tokens(sem'[s]) \in Int /\ inUse'[s] \in Int /\ lost'[s] \in Nat
        BY <2>1, <2>2, <3>1, <3>3, <4>1
      <4> QED
        BY <2>1, <2>2, <2>3, <3>1, <3>2, <4>1, <4>2, ScopeReleased
    <3>5. CASE s \notin kept
      <4>1. s \notin Adm!Held(r) /\ lost'[s] = lost[s]
        BY <2>4, <2>8, <3>5
      <4> QED
        BY <2>1, <2>2, <2>3, <3>1, <3>2, <3>3, <4>1, ScopeStays
    <3> QED
      BY <3>4, <3>5
  <2> QED
    BY <2>6, <2>7, <2>8
<1>6. inUse' = [s \in Adm!Scopes |-> inUse'[s]] /\ lost' = [s \in Adm!Scopes |-> lost'[s]]
  BY <1>1 DEF Adm!InUse
<1> QED
  BY <1>2, <1>5, <1>6 DEF AdmInv

\* An answer gives all the slots back.
LEMMA FinishKeeps ==
    ASSUME AdmInv, NEW r \in Requests, Adm!Finish(r)
    PROVE  AdmInv'
<1>1. /\ Stage(r) = "serving"
      /\ sem' = [s \in Adm!Scopes |->
                     IF s \in Adm!Held(r) THEN Adm!Freed(sem[s]) ELSE sem[s]]
      /\ inUse' = Adm!InUse({}, Adm!Held(r))
      /\ lost' = lost
      /\ req' = [req EXCEPT ![r] = Adm!Out]
  BY DEF Adm!Finish, Stage
<1>2. /\ req' \in [Requests -> [stage : {"out", "waiting", "serving"},
                                path : Paths \cup {"none"}, got : Nat]]
      /\ \A q \in Requests : ReqOK(q)'
      /\ Adm!Held(r)' = {}
      /\ \A s : ~WaitsFor(r, s)'
  BY <1>1, LeavesOut
<1>3. \A s \in Adm!Scopes : r \notin Members(sem[s])
  BY <1>1 DEF AdmInv, ScopeInv, Waiters, WaitsFor
<1>4. PICK x : x = Adm!Out
  OBVIOUS
<1>5. ASSUME NEW s \in Adm!Scopes
      PROVE  ScopeInv(s)'
  <2>1. SemOK(sem[s]) /\ Awake(sem[s]) /\ inUse[s] \in Int /\ lost[s] \in Nat
    BY DEF AdmInv, ScopeInv
  <2>2. Tokens(sem[s]) \in Int
    <3>1. Cardinality(sem[s].granted) \in Nat
      BY <2>1, GrantsFew
    <3> QED
      BY <2>1, <3>1 DEF Tokens, SemOK
  <2>3. /\ ~(s \in Adm!Held(r))' /\ ~WaitsFor(r, s)' /\ req' = [req EXCEPT ![r] = x]
    BY <1>1, <1>2, <1>4
  <2>4. /\ inUse'[s] = IF s \in Adm!Held(r) THEN inUse[s] - 1 ELSE inUse[s]
        /\ lost'[s] = lost[s]
    BY <2>1, <1>1 DEF Adm!InUse
  <2>5. CASE s \in Adm!Held(r)
    <3>1. sem'[s] = Adm!Freed(sem[s]) /\ r \notin Members(sem[s])
      BY <2>5, <1>1, <1>3
    <3>2. /\ SemOK(sem'[s]) /\ Awake(sem'[s])
          /\ Members(sem'[s]) = Members(sem[s])
          /\ Tokens(sem'[s]) = Tokens(sem[s]) + 1
      BY <2>1, <3>1, FreedKeeps
    <3>3. Members(sem'[s]) = Members(sem[s]) \ {r}
      BY <3>1, <3>2
    <3>4. /\ Tokens(sem'[s]) + lost'[s] = Tokens(sem[s]) + lost[s] + 1
          /\ inUse'[s] - lost'[s] = inUse[s] - lost[s] - 1
          /\ Tokens(sem'[s]) \in Int /\ inUse'[s] \in Int /\ lost'[s] \in Nat
      BY <2>1, <2>2, <2>4, <2>5, <3>2
    <3> QED
      BY <2>1, <2>2, <2>3, <2>5, <3>2, <3>3, <3>4, ScopeReleased
  <2>6. CASE s \notin Adm!Held(r)
    <3>1. sem'[s] = sem[s] /\ r \notin Members(sem[s]) /\ inUse'[s] = inUse[s]
      BY <2>4, <2>6, <1>1, <1>3
    <3>2. Members(sem'[s]) = Members(sem[s]) \ {r}
      BY <3>1
    <3> QED
      BY <2>1, <2>2, <2>3, <2>4, <2>6, <3>1, <3>2, ScopeStays
  <2> QED
    BY <2>5, <2>6
<1>6. inUse' = [s \in Adm!Scopes |-> inUse'[s]] /\ lost' = [s \in Adm!Scopes |-> lost'[s]]
  BY <1>1 DEF Adm!InUse, AdmInv
<1> QED
  BY <1>2, <1>5, <1>6 DEF AdmInv

\* A step of the cache does not touch admission.
LEMMA AdmUnchanged ==
    ASSUME AdmInv, UNCHANGED admVars
    PROVE  AdmInv'
<1>1. req' = req /\ sem' = sem /\ inUse' = inUse /\ lost' = lost
  BY DEF admVars
<1>2. \A s : Holders(s)' = Holders(s) /\ Waiters(s)' = Waiters(s)
  BY <1>1 DEF Holders, Waiters, WaitsFor, Stage, Adm!Held, Adm!Wanted
<1>3. \A r \in Requests : ReqOK(r)'
  BY <1>1 DEF AdmInv, ReqOK, Stage
<1>4. \A s \in Adm!Scopes : ScopeInv(s)'
  BY <1>1, <1>2 DEF AdmInv, ScopeInv
<1> QED
  BY <1>1, <1>3, <1>4 DEF AdmInv

\* Initially every slot is free.
LEMMA AdmInit == Adm!Init => AdmInv
<1> SUFFICES ASSUME Adm!Init PROVE AdmInv
  OBVIOUS
<1>1. /\ req = [r \in Requests |-> Adm!Out]
      /\ sem = [s \in Adm!Scopes |-> [value |-> Limit[s], queue |-> <<>>, granted |-> {}]]
      /\ inUse = [s \in Adm!Scopes |-> 0] /\ lost = [s \in Adm!Scopes |-> 0]
  BY DEF Adm!Init
<1>2. \A r \in Requests : /\ req[r] = Adm!Out /\ Stage(r) = "out" /\ Adm!Held(r) = {}
  BY <1>1 DEF Stage, Adm!Out, Adm!Held
<1>3. ASSUME NEW s \in Adm!Scopes PROVE ScopeInv(s)
  <2>1. Limit[s] \in Nat
    BY LookupAssumption DEF Adm!AdmissionAssumption, Adm!Scopes
  <2>2. sem[s].value = Limit[s] /\ sem[s].queue = <<>> /\ sem[s].granted = {}
        /\ inUse[s] = 0 /\ lost[s] = 0
    BY <1>1
  <2>3. /\ sem[s] \in [value : Nat, queue : Seq(Requests), granted : SUBSET Requests]
        /\ DOMAIN sem[s].queue = {}
    BY <1>1, <2>1
  <2>4. Holders(s) = {} /\ Waiters(s) = {} /\ Members(sem[s]) = {}
    BY <1>2, <2>3 DEF Holders, Waiters, WaitsFor, Members
  <2>5. SemOK(sem[s]) /\ Awake(sem[s])
    BY <2>2, <2>3, <2>4 DEF SemOK, Awake, Distinct, Adm!Ungranted
  <2>6. Cardinality(Holders(s)) = 0 /\ Tokens(sem[s]) = Limit[s]
    BY <2>1, <2>2, <2>4, FS_EmptySet DEF Tokens
  <2> QED
    BY <2>1, <2>2, <2>4, <2>5, <2>6 DEF ScopeInv
<1>4. \A r \in Requests : ReqOK(r)
  BY <1>2 DEF ReqOK
<1> QED
  BY <1>1, <1>3, <1>4 DEF AdmInv, Adm!Out

\* Every step of a lookup keeps the books of admission.
LEMMA AdmStep == AdmInv /\ [PathNext]_pathVars => AdmInv'
<1> SUFFICES ASSUME AdmInv, [PathNext]_pathVars PROVE AdmInv'
  OBVIOUS
<1>1. ASSUME NEW r \in Requests, NEW p \in Paths, Arrive(r, p) PROVE AdmInv'
  BY <1>1, ArriveKeeps DEF Arrive
<1>2. ASSUME NEW r \in Requests, Admitted(r) PROVE AdmInv'
  BY <1>2, ResumeKeeps DEF Admitted
<1>3. ASSUME NEW r \in Requests, Rejected(r) PROVE AdmInv'
  BY <1>3, StopWaitingKeepsSlots DEF Rejected, Adm!Timeout
<1>4. ASSUME NEW r \in Requests, CancelAdmission(r) PROVE AdmInv'
  BY <1>4, StopWaitingKeepsSlots, FinishKeeps DEF CancelAdmission, Adm!CancelledWaiting
<1>5. ASSUME NEW r \in Requests, Answer(r) PROVE AdmInv'
  BY <1>5, FinishKeeps DEF Answer
<1>6. ASSUME NEW r \in Requests,
             (\E k \in Keys : AskCache(r, k)) \/ Loaded(r) \/ Disconnect(r) \/ CancelLookup(r)
      PROVE  AdmInv'
  BY <1>6, AdmUnchanged DEF AskCache, Loaded, Disconnect, CancelLookup
<1>7. CASE LoadStep \/ EntryExpires \/ CacheCleared
  BY <1>7, AdmUnchanged DEF LoadStep, EntryExpires, CacheCleared
<1>8. CASE UNCHANGED pathVars
  BY <1>8, AdmUnchanged DEF pathVars
<1> QED
  BY <1>1, <1>2, <1>3, <1>4, <1>5, <1>6, <1>7, <1>8 DEF PathNext

--------------------------------------------------------------------------------
\* The inductive invariant of admission: the queues hold the requests that wait, and
\* what is free, granted, held and lost of a scope is its limit.
THEOREM AdmissionInductive == PathSpec => []AdmInv
<1>1. PathInit => AdmInv
  BY AdmInit DEF PathInit
<1> QED
  BY <1>1, AdmStep, PTL DEF PathSpec

\* No order of arrivals, grants, timeouts, disconnects and answers makes a slot twice
\* or hands one to two requests, and the counter behind the gauge counts what is held
\* or lost (AdmissionController.acquire and release).
THEOREM SlotsConservedHolds == PathSpec => []SlotsConserved
<1>1. AdmInv => SlotsConserved
  <2> SUFFICES ASSUME AdmInv, NEW s \in Adm!Scopes
               PROVE  /\ sem[s].value + Adm!Cardinality(sem[s].granted)
                            + Adm!Cardinality(Adm!Holders(s)) + lost[s] = Limit[s]
                      /\ inUse[s] = Adm!Cardinality(Adm!Holders(s)) + lost[s]
    BY DEF SlotsConserved, Adm!SlotsConserved
  <2>1. Adm!Holders(s) = Holders(s)
    BY DEF Holders, Adm!Holders
  <2>2. /\ Adm!Cardinality(sem[s].granted) = Cardinality(sem[s].granted)
        /\ Adm!Cardinality(Adm!Holders(s)) = Cardinality(Holders(s))
    BY <2>1, SameCount
  <2> QED
    BY <2>2 DEF AdmInv, ScopeInv, Tokens
<1> QED
  BY <1>1, AdmissionInductive, PTL

\* A request that waits for the slot of its endpoint holds none of the global scope:
\* scopes_for_path puts the global scope last.
THEOREM GlobalSlotsServeHolds == PathSpec => []GlobalSlotsServe
<1>1. AdmInv => GlobalSlotsServe
  <2> SUFFICES ASSUME AdmInv, NEW r \in Requests, Stage(r) = "waiting"
               PROVE  Adm!Global \notin Adm!Held(r)
    BY DEF GlobalSlotsServe, Adm!GlobalSlotsServe, Stage
  <2>1. PICK p \in Paths, g \in Nat : p = req[r].path /\ g = req[r].got
    BY WaitingHas
  <2>2. g + 1 \in 1..Len(Adm!ScopesFor(p))
    BY <2>1, WaitingHas
  <2>3. \A i \in 1..g : i \in 1..Len(Adm!ScopesFor(p)) /\ i # Len(Adm!ScopesFor(p))
    BY <2>2, ScopesForOK
  <2>4. \A i \in 1..g : Adm!ScopesFor(p)[i] # Adm!Global
    BY <2>3, ScopesForOK
  <2> QED
    BY <2>1, <2>4 DEF Adm!Held
<1> QED
  BY <1>1, AdmissionInductive, PTL

\* A slot never stays free beside a request that waits for it unless a grant is on
\* its way to a waiter (asyncio.Semaphore): capacity is not forgotten, whatever is
\* granted, cancelled or overtaken in between.
THEOREM NoSlotIdles ==
    PathSpec => [](\A s \in Adm!Scopes :
        sem[s].value > 0 /\ Adm!Ungranted(sem[s]) # {} => sem[s].granted # {})
<1>1. AdmInv => \A s \in Adm!Scopes :
          sem[s].value > 0 /\ Adm!Ungranted(sem[s]) # {} => sem[s].granted # {}
  BY DEF AdmInv, ScopeInv, Awake
<1> QED
  BY <1>1, AdmissionInductive, PTL

--------------------------------------------------------------------------------
\* A load that goes on has a waiter.
WantedInv == \A t \in Loads : load[t].st = "running" => load[t].waiters # 0

\* What the finally of a waiter does to the loads.
LEMMA StopWaitingWanted ==
    ASSUME IInv, WantedInv, NEW r, NEW t \in Loads, StopWaiting(r, t)
    PROVE  WantedInv'
<1> DEFINE left == load[t].waiters - 1
           drop == left = 0 /\ Running(t)
           mid  == [load EXCEPT ![t].waiters = left,
                                ![t].st = IF drop THEN "stopping" ELSE @]
<1>1. load' = [u \in Loads |->
                  IF u \notin tasks /\ mid[u].waiters = 0 THEN Unused ELSE mid[u]]
  BY DEF StopWaiting, Forget
<1>2. /\ mid[t].waiters = left
      /\ mid[t].st = IF drop THEN "stopping" ELSE load[t].st
      /\ \A u \in Loads : u # t => mid[u] = load[u]
  BY DEF IInv, SharingTypeOK
<1>3. ASSUME NEW u \in Loads, mid[u].st = "running"
      PROVE  mid[u].waiters # 0
  <2>1. CASE u = t
    <3>1. ~drop /\ load[t].st = "running"
      BY <1>2, <1>3, <2>1
    <3>2. left # 0
      BY <3>1 DEF Running
    <3> QED
      BY <1>2, <2>1, <3>2
  <2>2. CASE u # t
    BY <1>2, <1>3, <2>2 DEF WantedInv
  <2> QED
    BY <2>1, <2>2
<1> HIDE DEF mid
<1> QED
  BY <1>1, <1>3 DEF WantedInv, Unused

\* Every step of the cache keeps a waiter with each load that goes on.
LEMMA WantedStep == IInv /\ WantedInv /\ [Next]_vars => WantedInv'
<1> SUFFICES ASSUME IInv, WantedInv, [Next]_vars PROVE WantedInv'
  OBVIOUS
<1>0. load \in [Loads -> [st : {"unused", "running", "stopping", "ended"}, gen : Nat,
                          key : Keys \cup {NoLoad}, waiters : Nat]]
  BY DEF IInv, SharingTypeOK
<1>1. ASSUME NEW r \in Requests, NEW k \in Keys, LookUp(r, k)
      PROVE  WantedInv'
  <2>1. CASE UNCHANGED load
    BY <2>1 DEF WantedInv
  <2>2. CASE Join(r, k) /\ load' # load
    <3>1. PICK t : t = flights[Flight(k)]
      OBVIOUS
    <3>2. t \in Loads
      BY <2>2, <3>1 DEF Join, IInv, FlightInv, SharingTypeOK
    <3>3. load' = [load EXCEPT ![t].waiters = @ + 1]
      BY <2>2, <3>1 DEF Join
    <3> QED
      BY <3>2, <3>3, <1>0 DEF WantedInv
  <2>3. CASE Start(r, k)
    <3>1. PICK t \in Loads : load' = [load EXCEPT ![t] =
              [st |-> "running", gen |-> generation, key |-> k, waiters |-> 1]]
      BY <2>3 DEF Start
    <3> QED
      BY <3>1, <1>0 DEF WantedInv
  <2> QED
    BY <1>1, <2>1, <2>2, <2>3 DEF LookUp, Hit, Bypass
<1>2. ASSUME NEW r \in Requests, Resume(r) \/ CancelledJoined(r)
      PROVE  WantedInv'
  <2>1. PICK t \in Loads : call[r] = Awaits(t)
    BY <1>2 DEF Resume, CancelledJoined, IInv, SharingTypeOK, CallOK, Idle, Direct
  <2>2. StopWaiting(r, t)
    BY <1>2, <2>1 DEF Resume, CancelledJoined, Awaits
  <2> QED
    BY <2>2, StopWaitingWanted
<1>3. ASSUME NEW t \in Loads, (\E w \in Weights : LoadOk(t, w)) \/ LoadEnds(t)
      PROVE  WantedInv'
  <2>1. load' = [load EXCEPT ![t].st = "ended"]
    BY <1>3 DEF LoadOk, LoadEnds
  <2> QED
    BY <2>1, <1>0 DEF WantedInv
<1>4. ASSUME NEW t \in Loads, Finished(t)
      PROVE  WantedInv'
  BY <1>4 DEF Finished, Forget, WantedInv, Unused
<1>5. CASE Close
  BY <1>5, <1>0 DEF Close, WantedInv
<1>6. CASE UNCHANGED load
  BY <1>6 DEF WantedInv
<1> QED
  BY <1>1, <1>2, <1>3, <1>4, <1>5, <1>6
     DEF Next, vars, DirectEnds, CancelledDirect, Expire, Clear

--------------------------------------------------------------------------------
\* Only a request that is served, or whose disconnect is being undone, is in
\* get_or_load.
CallInv == \A r \in Requests : call[r] # Idle => Stage(r) = "serving" \/ r \in gone

\* A step of r leaves the others where they are.
LEMMA CallMoves ==
    ASSUME CallInv, NEW r \in Requests,
           \A q \in Requests : q # r => /\ call'[q] = call[q] /\ req'[q] = req[q]
                                        /\ q \in gone => q \in gone',
           call'[r] = Idle \/ req'[r].stage = "serving" \/ r \in gone'
    PROVE  CallInv'
  BY DEF CallInv, Stage

\* Every step of a lookup keeps the calls of the cache within requests that are served.
LEMMA CallStep == IInv /\ AdmInv /\ CallInv /\ [PathNext]_pathVars => CallInv'
<1> SUFFICES ASSUME IInv, AdmInv, CallInv, [PathNext]_pathVars PROVE CallInv'
  OBVIOUS
<1>1. call = [q \in Requests |-> call[q]] /\ req = [q \in Requests |-> req[q]]
  BY DEF IInv, SharingTypeOK, CallOK, AdmInv
<1>2. ASSUME NEW r \in Requests, NEW p, NEW got, NEW granted,
             Adm!Proceed(r, p, got, granted), call[r] = Idle, UNCHANGED <<vars, gone>>
      PROVE  CallInv'
  <2>1. call' = call /\ gone' = gone
    BY <1>2 DEF vars
  <2>2. \A q \in Requests : q # r => req'[q] = req[q]
    BY <1>1, <1>2 DEF Adm!Proceed
  <2> QED
    BY <1>2, <2>1, <2>2, CallMoves
<1>3. ASSUME NEW r \in Requests, req' = [req EXCEPT ![r] = Adm!Out],
             UNCHANGED vars, call[r] = Idle \/ r \in gone',
             \A q \in gone : q # r => q \in gone'
      PROVE  CallInv'
  <2>1. call' = call
    BY <1>3 DEF vars
  <2>2. \A q \in Requests : q # r => req'[q] = req[q]
    BY <1>1, <1>3
  <2> QED
    BY <1>3, <2>1, <2>2, CallMoves
<1>4. ASSUME NEW r \in Requests, NEW c, call' = [call EXCEPT ![r] = c], UNCHANGED admVars,
             c = Idle \/ Stage(r) = "serving", \A q \in gone : q # r => q \in gone'
      PROVE  CallInv'
  <2>1. req' = req
    BY <1>4 DEF admVars
  <2>2. call'[r] = c /\ \A q \in Requests : q # r => call'[q] = call[q]
    BY <1>1, <1>4
  <2> QED
    BY <1>4, <2>1, <2>2, CallMoves DEF Stage
<1>5. ASSUME UNCHANGED <<call, admVars>>, \A q \in gone : q \in gone'
      PROVE  CallInv'
  BY <1>5 DEF CallInv, Stage, admVars
<1>6. ASSUME NEW r \in Requests, NEW p \in Paths, Arrive(r, p) PROVE CallInv'
  BY <1>6, <1>2 DEF Arrive, Adm!Arrive
<1>7. ASSUME NEW r \in Requests, Admitted(r) PROVE CallInv'
  <2>1. call[r] = Idle
    BY <1>7 DEF Admitted, Adm!Resume, CallInv, Stage
  <2> QED
    BY <1>7, <2>1, <1>2 DEF Admitted, Adm!Resume
<1>8. ASSUME NEW r \in Requests, Rejected(r) PROVE CallInv'
  <2>1. call[r] = Idle
    BY <1>8 DEF Rejected, Adm!Timeout, Adm!StopWaiting, CallInv, Stage
  <2>2. req' = [req EXCEPT ![r] = Adm!Out]
    BY <1>8 DEF Rejected, Adm!Timeout, Adm!StopWaiting
  <2> QED
    BY <1>8, <2>1, <2>2, <1>3 DEF Rejected
<1>9. ASSUME NEW r \in Requests, NEW k \in Keys, AskCache(r, k) PROVE CallInv'
  <2>1. CASE UNCHANGED call
    BY <1>9, <2>1, <1>5 DEF AskCache
  <2>2. CASE \E c : call' = [call EXCEPT ![r] = c]
    BY <1>9, <2>2, <1>4 DEF AskCache
  <2>3. UNCHANGED call \/ \E c : call' = [call EXCEPT ![r] = c]
    BY <1>9 DEF AskCache, LookUp, Hit, Join, Start, Bypass
  <2> QED
    BY <2>1, <2>2, <2>3
<1>10. ASSUME NEW r \in Requests, Loaded(r) PROVE CallInv'
  <2>1. call' = [call EXCEPT ![r] = Idle] /\ UNCHANGED <<admVars, gone>>
    BY <1>10 DEF Loaded, Resume, DirectEnds, StopWaiting
  <2> QED
    BY <2>1, <1>4
<1>11. ASSUME NEW r \in Requests, Answer(r) PROVE CallInv'
  BY <1>11, <1>3 DEF Answer, Adm!Finish
<1>12. ASSUME NEW r \in Requests, Disconnect(r) PROVE CallInv'
  BY <1>12, <1>5 DEF Disconnect, vars
<1>13. ASSUME NEW r \in Requests, CancelAdmission(r) PROVE CallInv'
  <2>1. req' = [req EXCEPT ![r] = Adm!Out]
    BY <1>13 DEF CancelAdmission, Adm!CancelledWaiting, Adm!StopWaiting, Adm!Finish
  <2>2. /\ UNCHANGED vars /\ \A q \in gone : q # r => q \in gone'
        /\ call[r] = Idle \/ r \in gone'
    BY <1>13 DEF CancelAdmission, Undone
  <2> QED
    BY <2>1, <2>2, <1>3
<1>14. ASSUME NEW r \in Requests, CancelLookup(r) PROVE CallInv'
  <2>1. call' = [call EXCEPT ![r] = Idle]
    BY <1>14 DEF CancelLookup, CancelledJoined, CancelledDirect, StopWaiting
  <2>2. UNCHANGED admVars /\ \A q \in gone : q # r => q \in gone'
    BY <1>14 DEF CancelLookup, Undone
  <2> QED
    BY <2>1, <2>2, <1>4
<1>15. CASE LoadStep \/ EntryExpires \/ CacheCleared
  <2>1. UNCHANGED <<call, admVars, gone>>
    BY <1>15 DEF LoadStep, EntryExpires, CacheCleared, LoadOk, LoadEnds, Finished, Expire,
                 Clear, Close, Emptied
  <2> QED
    BY <2>1, <1>5
<1>16. CASE UNCHANGED pathVars
  BY <1>16, <1>5 DEF pathVars, vars
<1> QED
  BY <1>6, <1>7, <1>8, <1>9, <1>10, <1>11, <1>12, <1>13, <1>14, <1>15, <1>16 DEF PathNext

\* What happens to the cache in a lookup is what may happen to the cache.
LEMMA PathSteps == [PathNext]_pathVars => [Next]_vars
  BY DEF PathNext, pathVars, Arrive, Admitted, Rejected, AskCache, Loaded, Answer, Disconnect,
         CancelAdmission, CancelLookup, LoadStep, EntryExpires, CacheCleared, Next

\* And what happens to the semaphores is a step of admission.
LEMMA PathStepsOfAdmission == [PathNext]_pathVars => [Adm!Next]_(Adm!vars)
  BY DEF PathNext, pathVars, admVars, Arrive, Admitted, Rejected, AskCache, Loaded, Answer,
         Disconnect, CancelAdmission, CancelLookup, LoadStep, EntryExpires, CacheCleared,
         Adm!Next, Adm!vars

\* The cache of a process that serves lookups is the cache of ResultCache, and its
\* admission is Admission, whatever clients, deadlines and loads do to each other: what
\* is proved of one of the components on its own holds of the lookup.
THEOREM LookupsUseBoth == PathSpec => Spec /\ Adm!Spec
<1>1. PathInit => Init /\ Adm!Init
  BY DEF PathInit
<1> QED
  BY <1>1, PathSteps, PathStepsOfAdmission, PTL DEF PathSpec, Spec, Adm!Spec

\* Work on the database is always for somebody: a load that goes on has a waiter that
\* is being served, or whose disconnect is on its way to it.
THEOREM LoadsAreWantedHolds == PathSpec => []LoadsAreWanted
<1> DEFINE Inv == IInv /\ AdmInv /\ WantedInv /\ CallInv
<1>1. PathInit => Inv
  <2>1. Init => WantedInv
    BY DEF Init, WantedInv, Unused
  <2>2. PathInit => CallInv
    BY DEF PathInit, Init, CallInv
  <2> QED
    BY <2>1, <2>2, SharingInit, AdmInit DEF PathInit
<1>2. Inv /\ [PathNext]_pathVars => Inv'
  BY PathSteps, SharingStep, AdmStep, WantedStep, CallStep
<1>3. Inv => LoadsAreWanted
  <2> SUFFICES ASSUME Inv, NEW t \in Loads, load[t].st = "running"
               PROVE  \E r \in Requests :
                          call[r] = Awaits(t) /\ (Stage(r) = "serving" \/ r \in gone)
    BY DEF LoadsAreWanted
  <2>1. Cardinality(Waiting(t)) # 0
    BY DEF WantedInv, IInv, CountInv
  <2>2. PICK r \in Requests : call[r] = Awaits(t)
    BY <2>1, FS_EmptySet DEF Waiting
  <2>3. call[r] # Idle
    BY <2>2 DEF Awaits, Idle
  <2> QED
    BY <2>2, <2>3 DEF CallInv
<1> QED
  BY <1>1, <1>2, <1>3, PTL DEF PathSpec

\* Admission and the cache have the types the code gives them: no semaphore has more
\* slots than its limit, no request more scopes than its endpoint has.
THEOREM PathTypeCorrect == PathSpec => []PathTypeOK
<1>1. AdmInv => Adm!TypeOK
  <2> SUFFICES ASSUME AdmInv PROVE Adm!TypeOK
    OBVIOUS
  <2>1. ASSUME NEW r \in Requests
        PROVE  req[r].got \in 0..2
    <3>1. req[r].stage \in {"out", "waiting", "serving"} /\ req[r].got \in Nat /\ ReqOK(r)
      BY DEF AdmInv
    <3>2. CASE Stage(r) = "out"
      BY <3>1, <3>2 DEF ReqOK, Adm!Out
    <3>3. CASE Stage(r) # "out"
      <4>1. PICK p \in Paths : p = req[r].path
        BY <3>1, <3>3 DEF ReqOK
      <4>2. PICK n \in 0..2 : n = Len(Adm!ScopesFor(p))
        BY ScopesForOK
      <4>3. req[r].got <= n
        BY <3>1, <3>3, <4>1, <4>2 DEF ReqOK, Stage
      <4> QED
        BY <3>1, <4>2, <4>3
    <3> QED
      BY <3>2, <3>3
  <2>2. req \in [Requests -> [stage : {"out", "waiting", "serving"},
                              path : Paths \cup {"none"}, got : 0..2]]
    BY <2>1 DEF AdmInv
  <2>3. ASSUME NEW s \in Adm!Scopes
        PROVE  /\ sem[s].value \in 0..Limit[s] /\ sem[s].queue \in Seq(Requests)
               /\ sem[s].granted \subseteq Requests
               /\ inUse[s] \in Nat /\ lost[s] \in Nat
    <3>1. ScopeInv(s) /\ SemOK(sem[s])
      BY DEF AdmInv, ScopeInv
    <3>2. PICK c \in Nat : c = Cardinality(sem[s].granted)
      BY <3>1, GrantsFew
    <3>3. PICK h \in Nat : h = Cardinality(Holders(s))
      BY CacheAssumption, FS_Subset, FS_CardinalityType DEF Holders
    <3>4. sem[s].value \in Nat /\ lost[s] \in Nat /\ sem[s].value + c + h + lost[s] = Limit[s]
      BY <3>1, <3>2, <3>3 DEF ScopeInv, SemOK, Tokens
    <3>5. sem[s].value \in 0..Limit[s]
      BY <3>4
    <3> QED
      BY <3>1, <3>5 DEF ScopeInv, SemOK
  <2>4. inUse \in [Adm!Scopes -> Nat] /\ lost \in [Adm!Scopes -> Nat]
    BY <2>3 DEF AdmInv
  <2> QED
    BY <2>2, <2>3, <2>4 DEF Adm!TypeOK
<1>2. gone \subseteq Requests /\ [PathNext]_pathVars => (gone \subseteq Requests)'
  <2> SUFFICES ASSUME gone \subseteq Requests, [PathNext]_pathVars
               PROVE  gone' \subseteq Requests
    OBVIOUS
  <2>1. CASE UNCHANGED gone
    BY <2>1
  <2>2. ASSUME NEW r \in Requests, Disconnect(r) \/ CancelAdmission(r) \/ CancelLookup(r)
        PROVE  gone' \subseteq Requests
    BY <2>2 DEF Disconnect, CancelAdmission, CancelLookup, Undone
  <2> QED
    BY <2>1, <2>2 DEF PathNext, pathVars, Arrive, Admitted, Rejected, AskCache, Loaded, Answer,
                      LoadStep, EntryExpires, CacheCleared
<1>3. PathInit => gone \subseteq Requests
  BY DEF PathInit
<1>4. PathSpec => [](gone \subseteq Requests)
  BY <1>2, <1>3, PTL DEF PathSpec
<1>5. PathSpec => []TypeOK
  BY LookupsUseBoth, CacheInductive, CacheTypeOK, PTL
<1>6. Adm!TypeOK /\ TypeOK /\ gone \subseteq Requests => PathTypeOK
  BY DEF PathTypeOK
<1> QED
  BY <1>1, <1>4, <1>5, <1>6, AdmissionInductive, PTL
================================================================================
