---------------------------- MODULE ServingReleases ----------------------------
(***************************************************************************)
(* The ledger of serving releases and the answers stamped with them        *)
(* (infra/admin_repo.py, infra/data_fingerprint.py, infra/dataset_ref.py,  *)
(* infra/cache.py and the cached lookups of client.py).                    *)
(*                                                                         *)
(* A writer changes the served tables in a transaction of its own and      *)
(* only later records the release that announces the change.  Nothing      *)
(* serialises the data changes; the ledger is serialised by an advisory    *)
(* lock; the fingerprint of the data is computed before that lock.  A      *)
(* request reads the dataset stamp once, from a cache of ten seconds, and  *)
(* uses it as the key of the result cache and as the label of its answer.  *)
(*                                                                         *)
(* Time is abstract: a cached stamp or a cached row may be used or may     *)
(* have expired at any moment.  The fingerprint is injective on Contents.  *)
(***************************************************************************)
EXTENDS Integers, Sequences, FiniteSets

CONSTANTS
    Writers,      \* processes that load data and record releases
    Requests,     \* lookups in flight in one API process
    Contents,     \* what the served tables can hold
    NoFp,         \* no fingerprint: the scan failed, or must not be trusted
    NoWriter,     \* nobody holds the activation lock
    MaxLoads,     \* bound: data changes
    MaxReleases   \* bound: rows of the ledger

ASSUME ServingAssumption ==
    /\ NoFp \notin Contents
    /\ NoWriter \notin Writers
    /\ MaxLoads \in Nat
    /\ MaxReleases \in Nat

VARIABLES
    data,      \* the served tables; seq counts the changes
    ledger,    \* ops.serving_releases with their snapshots, in order of commit
    lock,      \* the advisory lock SERVING_RELEASE_ACTIVATION
    deleting,  \* keys of geo_cache that the open activation has deleted
    txn,       \* the ledger transaction of each writer
    owes,      \* ghost: the writer has changed data and not released it yet
    geoCache,  \* rows of geo_cache
    stamp,     \* DatasetRefCache of the process
    req        \* the lookups

vars == <<data, ledger, lock, deleting, txn, owes, geoCache, stamp, req>>

--------------------------------------------------------------------------------
Ids       == 1..MaxReleases
Data      == [seq : 0..MaxLoads, content : Contents]
Token     == Contents \cup {NoFp}
Stamp     == [id : {0} \cup Ids, fp : Token]
NoStamp   == [id |-> 0, fp |-> NoFp]

\* seq is a ghost: how much of the data was there when the row was committed.
Release   == [state : {"active", "superseded", "pending", "deleted"},
              prev : {0} \cup Ids, fp : Token, seq : 0..MaxLoads]

Txn       == [kind : {"publish", "candidate", "backfill"},
              pc : {"idle", "begun", "scanned", "decided"},
              before : {0} \cup Ids, fp : Token, prev : {0} \cup Ids]
IdleTxn   == [kind |-> "publish", pc |-> "idle", before |-> 0, fp |-> NoFp, prev |-> 0]

Req       == [pc : {"idle", "stamped", "computed", "answered"},
              stamp : Stamp, answer : Data]

ActiveIds == {i \in DOMAIN ledger : ledger[i].state = "active"}

\* The newest active row, 0 when there is none.
ActiveId ==
    IF ActiveIds = {} THEN 0
    ELSE CHOOSE i \in ActiveIds : \A j \in ActiveIds : j <= i

ActiveStamp ==
    IF ActiveId = 0 THEN NoStamp ELSE [id |-> ActiveId, fp |-> ledger[ActiveId].fp]

Init ==
    /\ data \in {d \in Data : d.seq = 0}
    /\ ledger = <<>>
    /\ lock = NoWriter
    /\ deleting = {}
    /\ txn = [w \in Writers |-> IdleTxn]
    /\ owes = [w \in Writers |-> FALSE]
    /\ geoCache = {}
    /\ stamp = NoStamp
    /\ req = [r \in Requests |-> [pc |-> "idle", stamp |-> NoStamp, answer |-> data]]

--------------------------------------------------------------------------------
(* Writers.                                                                *)

\* A loader commits a change of served tables: any content, also an earlier one.
Load(w) ==
    /\ txn[w].pc = "idle"
    /\ data.seq < MaxLoads
    /\ \E c \in Contents : data' = [seq |-> data.seq + 1, content |-> c]
    /\ owes' = [owes EXCEPT ![w] = TRUE]
    /\ UNCHANGED <<ledger, lock, deleting, txn, geoCache, stamp, req>>

\* The transaction of an activation reads the active release before it scans.
BeginPublish(w) ==
    /\ txn[w].pc = "idle"
    /\ txn' = [txn EXCEPT ![w] = [IdleTxn EXCEPT !.pc = "begun", !.before = ActiveId]]
    /\ UNCHANGED <<data, ledger, lock, deleting, owes, geoCache, stamp, req>>

\* The backfill of a missing fingerprint has nothing to do without a release.
BeginBackfill(w) ==
    /\ txn[w].pc = "idle"
    /\ ActiveId # 0
    /\ txn' = [txn EXCEPT ![w] = [IdleTxn EXCEPT !.kind = "backfill", !.pc = "begun",
                                                 !.before = ActiveId]]
    /\ UNCHANGED <<data, ledger, lock, deleting, owes, geoCache, stamp, req>>

\* A restore into a new database is a pending candidate: it is not fingerprinted.
BeginCandidate(w) ==
    /\ txn[w].pc = "idle"
    /\ txn' = [txn EXCEPT ![w] = [IdleTxn EXCEPT !.kind = "candidate", !.pc = "scanned"]]
    /\ UNCHANGED <<data, ledger, lock, deleting, owes, geoCache, stamp, req>>

\* One statement, so one snapshot of everything committed so far.
Scan(w) ==
    /\ txn[w].pc = "begun"
    /\ txn' = [txn EXCEPT ![w] = [@ EXCEPT !.pc = "scanned", !.fp = data.content]]
    /\ UNCHANGED <<data, ledger, lock, deleting, owes, geoCache, stamp, req>>

\* Time-out, drifted schema, lost connection: an activation goes on without.
ScanFails(w) ==
    /\ txn[w].pc = "begun"
    /\ txn' = [txn EXCEPT ![w] = IF @.kind = "backfill" THEN IdleTxn
                                 ELSE [@ EXCEPT !.pc = "scanned"]]
    /\ UNCHANGED <<data, ledger, lock, deleting, owes, geoCache, stamp, req>>

\* Faulty: the ledger is read without the advisory lock.
Unlocked == lock \in Writers \cup {NoWriter}

LockFree == lock = NoWriter

\* Faulty: the scan is trusted whatever was activated since.
Trusting(t) == t.fp

\* What the fingerprint is worth once the lock is held.
Judged(t) == IF t.before = ActiveId THEN t.fp ELSE NoFp

\* Under the lock: the previous release, the fingerprint's verdict, and the
\* deletion of geo_cache.  Rows written so far are seen by nobody else yet.
Decide(w) ==
    /\ txn[w].pc = "scanned"
    /\ txn[w].kind # "backfill"
    /\ LockFree
    /\ Len(ledger) < MaxReleases
    /\ lock' = w
    /\ txn' = [txn EXCEPT ![w] = [@ EXCEPT !.pc = "decided", !.prev = ActiveId,
                                               !.fp = Judged(txn[w])]]
    /\ deleting' = IF txn[w].kind = "publish" THEN {e.key : e \in geoCache} ELSE {}
    /\ UNCHANGED <<data, ledger, owes, geoCache, stamp, req>>

\* Faulty: the backfill writes to the release it has read, active or not.
AnyRelease(t) == t.before # 0

\* The release that was scanned for is still the active one.
StillActive(t) == t.before = ActiveId

DecideBackfill(w) ==
    /\ txn[w].pc = "scanned"
    /\ txn[w].kind = "backfill"
    /\ LockFree
    /\ IF StillActive(txn[w])
       THEN /\ lock' = w
            /\ txn' = [txn EXCEPT ![w].pc = "decided"]
            /\ deleting' = {e.key : e \in geoCache}
       ELSE /\ txn' = [txn EXCEPT ![w] = IdleTxn]
            /\ UNCHANGED <<lock, deleting>>
    /\ UNCHANGED <<data, ledger, owes, geoCache, stamp, req>>

\* Faulty: a state that no reader of the ledger knows.
Retired(l) ==
    [i \in DOMAIN l |->
        IF l[i].state = "active" THEN [l[i] EXCEPT !.state = "retired"] ELSE l[i]]

\* UPDATE ... SET state = 'superseded' WHERE state = 'active'.
Superseded(l) ==
    [i \in DOMAIN l |->
        IF l[i].state = "active" THEN [l[i] EXCEPT !.state = "superseded"] ELSE l[i]]

Row(t, state) == [state |-> state, prev |-> t.prev, fp |-> t.fp, seq |-> data.seq]

Recorded(t) ==
    CASE t.kind = "publish"   -> Append(Superseded(ledger), Row(t, "active"))
      [] t.kind = "candidate" -> Append(ledger, Row(t, "pending"))
      [] t.kind = "backfill"  -> [ledger EXCEPT ![t.before].fp = t.fp]

Commit(w) ==
    /\ txn[w].pc = "decided"
    /\ ledger' = Recorded(txn[w])
    /\ owes' = [owes EXCEPT ![w] = @ /\ txn[w].kind # "publish"]
    /\ geoCache' = {e \in geoCache : e.key \notin deleting}
    /\ deleting' = {}
    /\ lock' = NoWriter
    /\ txn' = [txn EXCEPT ![w] = IdleTxn]
    /\ UNCHANGED <<data, stamp, req>>

\* A refused publication guard, a time-out, a crash: the transaction is rolled
\* back.  What the writer has loaded stays loaded.
Abort(w) ==
    /\ txn[w].pc # "idle"
    /\ txn' = [txn EXCEPT ![w] = IdleTxn]
    /\ IF lock = w THEN lock' = NoWriter /\ deleting' = {} ELSE UNCHANGED <<lock, deleting>>
    /\ UNCHANGED <<data, ledger, owes, geoCache, stamp, req>>

\* The restore drill deletes the pending rows of its throw-away database.
DropCandidate(i) ==
    /\ ledger[i].state = "pending"
    /\ ledger' = [ledger EXCEPT ![i].state = "deleted"]
    /\ UNCHANGED <<data, lock, deleting, txn, owes, geoCache, stamp, req>>

--------------------------------------------------------------------------------
(* Requests.                                                               *)

\* The stamp of the process, while it has not expired.
UseStamp(r) ==
    /\ req[r].pc = "idle"
    /\ req' = [req EXCEPT ![r] = [@ EXCEPT !.pc = "stamped", !.stamp = stamp]]
    /\ UNCHANGED <<data, ledger, lock, deleting, txn, owes, geoCache, stamp>>

\* An expired stamp is read again; a failed read counts as no stamp for a second.
ReadStamp(r) ==
    /\ req[r].pc = "idle"
    /\ stamp' \in {ActiveStamp, NoStamp}
    /\ req' = [req EXCEPT ![r] = [@ EXCEPT !.pc = "stamped", !.stamp = stamp']]
    /\ UNCHANGED <<data, ledger, lock, deleting, txn, owes, geoCache>>

\* Faulty: keys that know nothing of releases.
PlainKey(s) == IF s.id = 0 THEN 0 ELSE 1

\* The release component of a key of geo_cache.
CacheKey(s) == s.id

\* get_json counts the hit, so it waits for the row an activation is deleting.
Hit(r) ==
    LET key == CacheKey(req[r].stamp) IN
    /\ req[r].pc = "stamped"
    /\ req[r].stamp # NoStamp
    /\ key \notin deleting
    /\ \E e \in geoCache :
          /\ e.key = key
          /\ req' = [req EXCEPT ![r] = [@ EXCEPT !.pc = "answered", !.answer = e.answer]]
    /\ UNCHANGED <<data, ledger, lock, deleting, txn, owes, geoCache, stamp>>

\* No stamp, no row or an expired row: the answer is computed.
Compute(r) ==
    /\ req[r].pc = "stamped"
    /\ req' = [req EXCEPT ![r] = [@ EXCEPT !.pc = "computed", !.answer = data]]
    /\ UNCHANGED <<data, ledger, lock, deleting, txn, owes, geoCache, stamp>>

Store(r) ==
    LET key == CacheKey(req[r].stamp) IN
    /\ req[r].pc = "computed"
    /\ req[r].stamp # NoStamp
    /\ key \notin deleting
    /\ geoCache' = {e \in geoCache : e.key # key}
                   \cup {[key |-> key, answer |-> req[r].answer]}
    /\ req' = [req EXCEPT ![r].pc = "answered"]
    /\ UNCHANGED <<data, ledger, lock, deleting, txn, owes, stamp>>

\* Not an OK answer, not a local one, not stamped, or a failed write.
SkipStore(r) ==
    /\ req[r].pc = "computed"
    /\ req' = [req EXCEPT ![r].pc = "answered"]
    /\ UNCHANGED <<data, ledger, lock, deleting, txn, owes, geoCache, stamp>>

Forget(r) ==
    /\ req[r].pc = "answered"
    /\ req' = [req EXCEPT ![r] = [@ EXCEPT !.pc = "idle", !.stamp = NoStamp]]
    /\ UNCHANGED <<data, ledger, lock, deleting, txn, owes, geoCache, stamp>>

Next ==
    \/ \E w \in Writers :
          \/ Load(w) \/ BeginPublish(w) \/ BeginBackfill(w) \/ BeginCandidate(w)
          \/ Scan(w) \/ ScanFails(w) \/ Decide(w) \/ DecideBackfill(w)
          \/ Commit(w) \/ Abort(w)
    \/ \E i \in DOMAIN ledger : DropCandidate(i)
    \/ \E r \in Requests :
          \/ UseStamp(r) \/ ReadStamp(r) \/ Hit(r) \/ Compute(r)
          \/ Store(r) \/ SkipStore(r) \/ Forget(r)

Spec == Init /\ [][Next]_vars
--------------------------------------------------------------------------------
(* Properties.                                                             *)

\* The state is well typed; the ledger is a sequence of at most MaxReleases rows.
TypeOK ==
    /\ data \in Data
    /\ ledger \in Seq(Release)
    /\ Len(ledger) <= MaxReleases
    /\ lock \in Writers \cup {NoWriter}
    /\ deleting \subseteq Ids
    /\ txn \in [Writers -> Txn]
    /\ owes \in [Writers -> BOOLEAN]
    /\ geoCache \subseteq [key : Ids, answer : Data]
    /\ stamp \in Stamp
    /\ req \in [Requests -> Req]

\* Every change of the served data has been released by the one who made it.
NobodyOwes == \A w \in Writers : ~owes[w]

\* Once every change has been released, the token of the active release is the
\* token of the data that is served, or there is none: a scan that another
\* activation or another load has overtaken must not leave its token behind.
HonestFingerprint ==
    NobodyOwes /\ ActiveId # 0 => ledger[ActiveId].fp \in {data.content, NoFp}

\* Rows that are or were served.
Activated(i) == ledger[i].state \in {"active", "superseded"}

\* The releases form one chain: each names the one it has replaced, candidates
\* stay outside of it, and only its end is active, however activations race.
LinearLineage ==
    \A i \in DOMAIN ledger :
        Activated(i) =>
            /\ ledger[i].prev \in 0..(i - 1)
            /\ ledger[i].prev # 0 => Activated(ledger[i].prev)
            /\ \A j \in (ledger[i].prev + 1)..(i - 1) : ~Activated(j)
            /\ ledger[i].state = "active" <=> \A j \in (i + 1)..Len(ledger) : ~Activated(j)

\* An answer is never older than the release it is labelled with: neither a
\* row that a slow request stores after the activation, nor a late deletion,
\* puts data of an earlier release under the label of a later one.
FreshAnswers ==
    \A r \in Requests :
        req[r].pc \in {"computed", "answered"} /\ req[r].stamp # NoStamp
            => req[r].answer.seq >= ledger[req[r].stamp.id].seq

\* The fingerprint of a release changes only while the release is active:
\* history, which consumers compare with, is never rewritten by a late backfill.
HistoryIsFixed ==
    [][\A i \in DOMAIN ledger :
          /\ i \in DOMAIN ledger'
          /\ ledger'[i].fp # ledger[i].fp => ledger[i].state = "active"]_vars

\* What consumers see: the rows that are or were served, and the labelled answers.
Served ==
    [i \in {j \in DOMAIN ledger : Activated(j)} |->
        [prev |-> ledger[i].prev, fp |-> ledger[i].fp, seq |-> ledger[i].seq]]

Labelled(r) == req[r].pc = "answered" /\ req[r].stamp # NoStamp

Answers ==
    [r \in Requests |->
        IF Labelled(r) THEN [id |-> req[r].stamp.id, seq |-> req[r].answer.seq]
        ELSE [id |-> 0, seq |-> 0]]

Chain == INSTANCE ReleaseChain WITH
    Tokens <- Token, version <- data.seq, chain <- Served, answer <- Answers

\* To its consumers the ledger, with all its writers and caches, is a chain that only
\* grows: an activation adds one release whose predecessor is the newest, a backfill
\* touches the newest only, and labels are the ids of releases as old as the answer.
ImplementsChain == Chain!Spec

\* What consumers are told (dto/v2.py): answers with the token of the active
\* release need not be asked again.  Claimed once every change is released.
EqualTokensEqualData ==
    \A r \in Requests :
        /\ NobodyOwes
        /\ req[r].pc = "answered"
        /\ req[r].stamp.fp # NoFp
        /\ req[r].stamp.fp = ActiveStamp.fp
        => req[r].answer.content = data.content
================================================================================
