----------------------------- MODULE HotSwapAnswers -----------------------------
(***************************************************************************)
(* Cached lookups while databases are swapped (client.py, infra/cache.py   *)
(* and infra/dataset_ref.py over infra/hotswap.py).                        *)
(*                                                                         *)
(* A request reads the release that is active, computes in whatever        *)
(* database has the serving name by then, and stores the answer under the  *)
(* release it has read, in whatever database has the name at that time.    *)
(* The delay between two of these steps stands for the age of the cached   *)
(* stamp as well.                                                          *)
(***************************************************************************)
EXTENDS HotSwap

CONSTANT Requests   \* lookups in flight

VARIABLES
    geoCache,   \* rows of geo_cache, each in its database
    req         \* the lookups

allVars == <<vars, geoCache, req>>

Row == [db : Dbs, key : Ids, answer : Contents]
Req == [pc : {"idle", "stamped", "computed"}, key : {0} \cup Ids, answer : Token]

IdleReq == [pc |-> "idle", key |-> 0, answer |-> NoFp]

InitAnswers ==
    /\ Init
    /\ geoCache = {}
    /\ req = [r \in Requests |-> IdleReq]

\* The transaction that records a release empties the cache of its database.
SwapStep ==
    /\ Next
    /\ geoCache' = IF released' = released THEN geoCache
                   ELSE {row \in geoCache : row.db # ServingDb}
    /\ UNCHANGED req

ReadStamp(r) ==
    /\ req[r].pc = "idle"
    /\ Bound(Serving)
    /\ db[ServingDb].active # 0
    /\ req' = [req EXCEPT ![r] = [@ EXCEPT !.pc = "stamped", !.key = db[ServingDb].active]]
    /\ UNCHANGED <<vars, geoCache>>

Compute(r) ==
    /\ req[r].pc = "stamped"
    /\ Bound(Serving)
    /\ req' = [req EXCEPT ![r] = [@ EXCEPT !.pc = "computed",
                                             !.answer = db[ServingDb].content]]
    /\ UNCHANGED <<vars, geoCache>>

Store(r) ==
    /\ req[r].pc = "computed"
    /\ Bound(Serving)
    /\ geoCache' = {row \in geoCache : <<row.db, row.key>> # <<ServingDb, req[r].key>>}
                   \cup {[db |-> ServingDb, key |-> req[r].key, answer |-> req[r].answer]}
    /\ req' = [req EXCEPT ![r] = IdleReq]
    /\ UNCHANGED vars

\* The connection is gone, or there is nothing to store.
Drop(r) ==
    /\ req[r].pc # "idle"
    /\ req' = [req EXCEPT ![r] = IdleReq]
    /\ UNCHANGED <<vars, geoCache>>

NextAnswers ==
    \/ SwapStep
    \/ \E r \in Requests : ReadStamp(r) \/ Compute(r) \/ Store(r) \/ Drop(r)

SpecAnswers == InitAnswers /\ [][NextAnswers]_allVars

--------------------------------------------------------------------------------
\* What client.py says of the cache, read once no swap is under way: a row that
\* lookups find under the active release was computed from the data of that
\* release.  The databases have released what they have loaded.
AnswersOfTheirRelease ==
    \A row \in geoCache :
        /\ row.db = ServingDb
        /\ row.key = db[row.db].active
        /\ \A d \in Dbs : ~db[d].owes
        /\ \A o \in Ops : op[o].pc = "idle"
        => row.answer = db[row.db].content
================================================================================
