------------------------------ MODULE LookupPath -------------------------------
(***************************************************************************)
(* A public lookup from its arrival to its answer: admission (api/app.py,  *)
(* api/admission.py), then the process-memory result cache that its        *)
(* endpoint asks (client.py, infra/result_cache.py), with the client free  *)
(* to disconnect at any point (ClientDisconnectCancellationMiddleware).    *)
(*                                                                         *)
(* A disconnect cancels the whole stack of a request.  Its middlewares and *)
(* its endpoint are tasks of their own, and which of them sees the         *)
(* CancelledError first is not determined: the admission slot may be given *)
(* back before or after the endpoint stops waiting for its load.           *)
(***************************************************************************)
EXTENDS ResultCache

CONSTANTS
    Paths, Limit   \* of Admission

VARIABLES
    req, sem, inUse, lost,   \* of Admission
    gone                     \* requests whose client has disconnected and that still have work to undo

Adm == INSTANCE Admission

ASSUME LookupAssumption == Adm!AdmissionAssumption

admVars  == <<req, sem, inUse, lost>>
pathVars == <<admVars, vars, gone>>

PathInit == Adm!Init /\ Init /\ gone = {}

--------------------------------------------------------------------------------
Stage(r) == req[r].stage

\* Requests of this endpoint ask the result cache.
Cached(r) == req[r].path \in {"geocode", "reverse", "search"}

Arrive(r, p) ==
    /\ r \notin gone /\ call[r] = Idle
    /\ Adm!Arrive(r, p)
    /\ UNCHANGED <<vars, gone>>

Admitted(r) ==
    /\ r \notin gone
    /\ Adm!Resume(r)
    /\ UNCHANGED <<vars, gone>>

Rejected(r) ==
    /\ r \notin gone
    /\ Adm!Timeout(r)
    /\ UNCHANGED <<vars, gone>>

AskCache(r, k) ==
    /\ Stage(r) = "serving" /\ Cached(r) /\ r \notin gone
    /\ LookUp(r, k)
    /\ UNCHANGED <<admVars, gone>>

\* The answer of the load or of the direct query reaches the request.
Loaded(r) ==
    /\ r \notin gone
    /\ Resume(r) \/ DirectEnds(r)
    /\ UNCHANGED <<admVars, gone>>

Answer(r) ==
    /\ r \notin gone /\ call[r] = Idle
    /\ Adm!Finish(r)
    /\ UNCHANGED <<vars, gone>>

--------------------------------------------------------------------------------
Disconnect(r) ==
    /\ Stage(r) # "out" /\ r \notin gone
    /\ gone' = gone \cup {r}
    /\ UNCHANGED <<admVars, vars>>

\* The middleware's part of the cancellation, and the endpoint's.
Undone(r, stage, c) == IF stage = "out" /\ c = Idle THEN gone \ {r} ELSE gone

CancelAdmission(r) ==
    /\ r \in gone
    /\ Adm!CancelledWaiting(r) \/ Adm!Finish(r)
    /\ gone' = Undone(r, "out", call[r])
    /\ UNCHANGED vars

CancelLookup(r) ==
    /\ r \in gone
    /\ CancelledJoined(r) \/ CancelledDirect(r)
    /\ gone' = Undone(r, Stage(r), Idle)
    /\ UNCHANGED admVars

--------------------------------------------------------------------------------
LoadStep ==
    /\ \E t \in Loads :
         (\E w \in Weights : LoadOk(t, w)) \/ LoadEnds(t) \/ Finished(t)
    /\ UNCHANGED <<admVars, gone>>

EntryExpires ==
    /\ \E k \in Keys : Expire(k)
    /\ UNCHANGED <<admVars, gone>>

CacheCleared ==
    /\ Clear \/ Close
    /\ UNCHANGED <<admVars, gone>>

PathNext ==
    \/ \E r \in Requests :
         \/ \E p \in Paths : Arrive(r, p)
         \/ Admitted(r)
         \/ Rejected(r)
         \/ \E k \in Keys : AskCache(r, k)
         \/ Loaded(r)
         \/ Answer(r)
         \/ Disconnect(r)
         \/ CancelAdmission(r)
         \/ CancelLookup(r)
    \/ LoadStep \/ EntryExpires \/ CacheCleared

PathSpec == PathInit /\ [][PathNext]_pathVars

--------------------------------------------------------------------------------
PathTypeOK ==
    /\ Adm!TypeOK
    /\ TypeOK
    /\ gone \subseteq Requests

\* No slot is made, lost or handed out twice, except the ones that are counted as
\* lost (Admission).
SlotsConserved == Adm!SlotsConserved

\* A request that waits for its endpoint's slot keeps none of the global ones.
GlobalSlotsServe == Adm!GlobalSlotsServe

\* What the documentation says of the counter of slots in use (Admission).
SlotsAccounted == Adm!SlotsAccounted

\* Work on the database is always for somebody: a load that has not been told to
\* stop has a waiting request that is being served, or one whose disconnect is
\* on its way to the load.
LoadsAreWanted ==
    \A t \in Loads : load[t].st = "running" =>
        \E r \in Requests :
            call[r] = Awaits(t) /\ (Stage(r) = "serving" \/ r \in gone)
================================================================================
