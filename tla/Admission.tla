------------------------------- MODULE Admission -------------------------------
(***************************************************************************)
(* Admission control of the public address API (api/admission.py and the   *)
(* middleware of api/app.py): every request takes one slot of its          *)
(* endpoint's scope and one of the global scope, in that order, within one *)
(* deadline, and gives them back when it has been served.                  *)
(*                                                                         *)
(* The scopes are asyncio.Semaphores.  Their FIFO queue is modelled from   *)
(* CPython 3.12, which the project requires: a slot given back goes to the *)
(* first waiter as a grant, the waiter takes it when its task runs again,  *)
(* and until then nobody overtakes it.  Acquiring an unlocked semaphore    *)
(* does not suspend, so a request takes as many free scopes as it can in   *)
(* one step.  Time is abstract: a deadline may pass at any moment.         *)
(***************************************************************************)
EXTENDS Integers, FiniteSets, SequencesExt

CONSTANTS
    Requests,  \* the requests a process can have in flight
    Paths,     \* the endpoint of a request, by the name of its scope
    Limit      \* scope -> configured maximum, for the scopes that have one

Global == "address"

\* Assumed by the module that instantiates this one.
AdmissionAssumption ==
    /\ Global \notin Paths
    /\ DOMAIN Limit \subseteq Paths \cup {Global}
    /\ \A s \in DOMAIN Limit : Limit[s] \in Nat \ {0}

VARIABLES
    req,    \* stage of each request, its endpoint, and how many scopes it has
    sem,    \* AdmissionController._semaphores
    inUse,  \* AdmissionController._in_use
    lost    \* ghost: slots whose request is gone and that nobody will give back

vars == <<req, sem, inUse, lost>>

--------------------------------------------------------------------------------
Scopes == DOMAIN Limit

\* Faulty: the global scope first.
GlobalFirst(p) ==
    (IF Global \in Scopes /\ p # "dataset" THEN <<Global>> ELSE <<>>)
        \o (IF p \in Scopes THEN <<p>> ELSE <<>>)

\* scopes_for_path: the endpoint first; polling the dataset has a budget of its own.
ScopesFor(p) ==
    (IF p \in Scopes THEN <<p>> ELSE <<>>)
        \o (IF Global \in Scopes /\ p # "dataset" THEN <<Global>> ELSE <<>>)

Out == [stage |-> "out", path |-> "none", got |-> 0]

Held(r)   == {ScopesFor(req[r].path)[i] : i \in 1..req[r].got}
Wanted(r) == ScopesFor(req[r].path)[req[r].got + 1]

\* A request is in a queue at most once.
Without(q, r) == RemoveAt(q, CHOOSE i \in DOMAIN q : q[i] = r)

\* The places of the waiters that have no grant yet.
Ungranted(m) == {i \in DOMAIN m.queue : m.queue[i] \notin m.granted}

Locked(m) == m.value = 0 \/ m.queue # <<>>

\* At most n waiters get a grant, the first that have none first.
Woken(m, n) ==
    LET up == {i \in Ungranted(m) : Cardinality({j \in Ungranted(m) : j < i}) < n}
    IN  [m EXCEPT !.value = @ - Cardinality(up), !.granted = @ \cup {m.queue[i] : i \in up}]

\* release wakes one waiter.
Freed(m) == Woken([m EXCEPT !.value = @ + 1], 1)

\* The wait of r ends, with value v: acquire wakes as many waiters as there are
\* slots, for waiters may have come while a grant kept free slots behind it.
Left(m, r, v) ==
    Woken([value |-> v, queue |-> Without(m.queue, r), granted |-> m.granted \ {r}], v)

\* It ends with the slot, or in TimeoutError or CancelledError: a grant is passed on.
Taken(m, r) == Left(m, r, m.value)
Quit(m, r)  == Left(m, r, IF r \in m.granted THEN m.value + 1 ELSE m.value)

InUse(add, remove) ==
    [s \in Scopes |-> inUse[s] + (IF s \in add THEN 1 ELSE 0)
                               - (IF s \in remove THEN 1 ELSE 0)]

Init ==
    /\ req = [r \in Requests |-> Out]
    /\ sem = [s \in Scopes |-> [value |-> Limit[s], queue |-> <<>>, granted |-> {}]]
    /\ inUse = [s \in Scopes |-> 0]
    /\ lost = [s \in Scopes |-> 0]

--------------------------------------------------------------------------------
(* The loop over the scopes: r has the first `got`, the last of them just     *)
(* granted or none.  It takes the free ones that follow and waits for the     *)
(* first that is not, or is served.                                           *)
Proceed(r, p, got, granted) ==
    LET todo   == ScopesFor(p)
        k      == CHOOSE n \in got..Len(todo) :
                      /\ \A i \in (got + 1)..n : ~Locked(sem[todo[i]])
                      /\ n < Len(todo) => Locked(sem[todo[n + 1]])
        free   == {todo[i] : i \in (got + 1)..k}
        waits  == k < Len(todo)
    IN  /\ req' = [req EXCEPT ![r] =
                [stage |-> IF waits THEN "waiting" ELSE "serving", path |-> p, got |-> k]]
        /\ sem' = [s \in Scopes |->
                CASE s \in granted                  -> Taken(sem[s], r)
                  [] s \in free                     -> [sem[s] EXCEPT !.value = @ - 1]
                  [] waits /\ s = todo[k + 1]       -> [sem[s] EXCEPT !.queue = Append(@, r)]
                  [] OTHER                          -> sem[s]]
        /\ inUse' = InUse(granted \cup free, {})
        /\ UNCHANGED lost

Arrive(r, p) ==
    /\ req[r].stage = "out"
    /\ Proceed(r, p, 0, {})

Resume(r) ==
    /\ req[r].stage = "waiting"
    /\ r \in sem[Wanted(r)].granted
    /\ Proceed(r, req[r].path, req[r].got + 1, {Wanted(r)})

\* The wait ends without a slot; `kept` are the held slots that are not given back.
StopWaiting(r, kept) ==
    /\ req[r].stage = "waiting"
    /\ sem' = [s \in Scopes |->
            CASE s = Wanted(r)          -> Quit(sem[s], r)
              [] s \in Held(r) \ kept   -> Freed(sem[s])
              [] OTHER                  -> sem[s]]
    /\ inUse' = InUse({}, Held(r) \ kept)
    /\ lost' = [s \in Scopes |-> IF s \in kept THEN lost[s] + 1 ELSE lost[s]]
    /\ req' = [req EXCEPT ![r] = Out]

\* Faulty: the slot that was waited for is given back as well.
TimeoutGivesTooMuch(r) ==
    /\ req[r].stage = "waiting"
    /\ sem' = [s \in Scopes |->
            CASE s = Wanted(r) -> Freed(Quit(sem[s], r))
              [] s \in Held(r) -> Freed(sem[s])
              [] OTHER         -> sem[s]]
    /\ inUse' = InUse({}, Held(r) \cup {Wanted(r)})
    /\ req' = [req EXCEPT ![r] = Out]
    /\ UNCHANGED lost

\* Faulty: the slots already taken are not given back.
TimeoutKeepsSlots(r) ==
    /\ req[r].stage = "waiting"
    /\ sem' = [sem EXCEPT ![Wanted(r)] = Quit(@, r)]
    /\ req' = [req EXCEPT ![r] = Out]
    /\ UNCHANGED <<inUse, lost>>

\* The deadline passes in the wait, or is found to have passed before the next
\* scope: the answer is 429 and the slots are given back.
Timeout(r) == StopWaiting(r, {})

\* The client disconnects in the wait: only TimeoutError is caught there, and the
\* try that gives slots back begins after the loop.
CancelledWaiting(r) == StopWaiting(r, Held(r))

\* The finally around call_next: after the answer, an error, or a disconnect.
Finish(r) ==
    /\ req[r].stage = "serving"
    /\ sem' = [s \in Scopes |-> IF s \in Held(r) THEN Freed(sem[s]) ELSE sem[s]]
    /\ inUse' = InUse({}, Held(r))
    /\ req' = [req EXCEPT ![r] = Out]
    /\ UNCHANGED lost

Next ==
    \E r \in Requests :
        \/ \E p \in Paths : Arrive(r, p)
        \/ Resume(r)
        \/ Timeout(r)
        \/ CancelledWaiting(r)
        \/ Finish(r)

Spec == Init /\ [][Next]_vars

--------------------------------------------------------------------------------
TypeOK ==
    /\ req \in [Requests -> [stage : {"out", "waiting", "serving"},
                             path : Paths \cup {"none"}, got : 0..2]]
    /\ \A s \in Scopes :
          /\ sem[s].value \in 0..Limit[s]
          /\ sem[s].queue \in Seq(Requests)
          /\ sem[s].granted \subseteq Requests
    /\ inUse \in [Scopes -> Nat]
    /\ lost \in [Scopes -> Nat]

Holders(s) == {r \in Requests : s \in Held(r)}

\* Every slot of a scope is free, on its way to a waiter, held by a request, or
\* lost, and the counter behind ktg_api_admission_in_progress counts the last
\* two: no sequence of arrivals, timeouts, disconnects and answers makes a slot
\* twice or hands one to two requests.
SlotsConserved ==
    \A s \in Scopes :
        /\ sem[s].value + Cardinality(sem[s].granted)
              + Cardinality(Holders(s)) + lost[s] = Limit[s]
        /\ inUse[s] = Cardinality(Holders(s)) + lost[s]

\* A request that still waits for its endpoint's slot holds none of the global
\* scope, so that one saturated endpoint does not keep the others out.
GlobalSlotsServe ==
    \A r \in Requests : req[r].stage = "waiting" => Global \notin Held(r)

\* docs/t145-backpressure-failfast.md:52 of the repository: the counter is the
\* number of requests that hold a slot.  The code violates it: CancelledWaiting.
SlotsAccounted ==
    \A s \in Scopes : inUse[s] = Cardinality(Holders(s))
================================================================================
