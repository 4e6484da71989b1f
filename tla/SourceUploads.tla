----------------------------- MODULE SourceUploads ------------------------------
(***************************************************************************)
(* Upload sessions of source files, the objects they make, and what takes  *)
(* either away: the endpoints of api/routers/admin.py over                 *)
(* infra/source_upload_repo.py and the object storage, the registration of *)
(* infra/source_group_service.py and what may become of a file after it,   *)
(* the session janitor (infra/source_janitor.py), the reconciliation of    *)
(* the bucket with the registry, and every way in which its reports and    *)
(* the bulk deletion take an object away (infra/source_reconcile.py).      *)
(*                                                                         *)
(* A request makes several calls, each a transaction of its own or a call  *)
(* to the storage, and other requests, the janitor and the reconciliation  *)
(* come between them.  The key of an object is fixed by its session and    *)
(* its slot, so that every upload for a slot writes the same object.       *)
(*                                                                         *)
(* A multipart upload has one part, and no two have the same content: the  *)
(* upload stands for the etag and the hash of what it makes.  Past which   *)
(* limit a session is, is left open.                                       *)
(***************************************************************************)
EXTENDS Naturals, FiniteSets

CONSTANTS
    Categories,   \* a category and a month
    Slots,        \* the files a session may have to collect
    SlotsOf,      \* and those it has to, by its category
    Uploads,      \* bound: multipart uploads
    MaxSessions,  \* bound
    Requests,     \* requests that are served at the same time
    Operators,    \* those that delete objects, likewise
    NoUpload

ASSUME UploadsAssumption ==
    /\ IsFiniteSet(Slots)
    /\ Categories # {}
    /\ SlotsOf \in [Categories -> (SUBSET Slots) \ {{}}]
    /\ NoUpload \notin Uploads
    /\ MaxSessions \in Nat \ {0}

VARIABLES
    session,  \* ops.source_upload_sessions, numbered as they are created
    part,     \* ops.source_upload_session_parts
    multi,    \* multipart uploads of the storage
    object,   \* objects of the storage
    file,     \* ops.source_files: the state of what has been registered of a slot
    req,      \* the requests
    janitor,  \* what a pass of the janitor has still to do
    scan,     \* the run of the reconciliation
    item,     \* its open reports on an object or its row, by their kinds
    order,    \* deletions that are under way
    revived,  \* ghost: sessions that were written to after they had ended
    early,    \* ghost: files that became live under a scan, a report or a deletion
              \*        that had been begun without them
    ordered   \* ghost: files that somebody chose to delete

uploadVars    == <<session, part, multi, object, file, req, revived, early>>
reconcileVars == <<scan, item, order, ordered>>
vars          == <<uploadVars, reconcileVars, janitor>>

--------------------------------------------------------------------------------
Sessions == 1..MaxSessions
Content  == Uploads \cup {NoUpload}
Keys     == Sessions \X Slots

\* TERMINAL_UPLOAD_SESSION_STATES and _JANITOR_TERMINAL_STATES, of the states that
\* are written at all.
JanitorTerminal == {"registered", "cancelled", "expired", "registration_expired"}
Terminal        == JanitorTerminal \cup {"failed_storage_state"}
Collecting      == {"created", "uploading", "awaiting_registration", "failed_register"}

NoPart == [upload |-> NoUpload, etag |-> NoUpload, done |-> FALSE]
NoReq  == [pc |-> "idle", s |-> 0, k |-> CHOOSE k \in Slots : TRUE, u |-> NoUpload,
           row |-> NoPart, count |-> 0, category |-> CHOOSE c \in Categories : TRUE,
           hashed |-> {}]
NoKey  == <<0, NoReq.k>>
NoScan == [pc |-> "idle", key |-> NoKey, listed |-> FALSE, live |-> FALSE]
NoPass == [s |-> 0, fate |-> "skip", aborts |-> {}]

\* The UPDATE at the end of a deletion is of the row if it is in one of the states.
NoOrder == [pc |-> "idle", key |-> NoKey, report |-> "none", rows |-> {},
            to |-> "hard_deleted"]

\* A file that is validating counts as available: nothing here tells them apart.
RowStates == {"available", "missing", "quarantined", "delete_failed", "soft_deleted",
              "hard_deleted"}

\* Reports with the row of a file, reports on an object that was to have been
\* registered by now, and the others without a row.
Reports == {"file", "object_missing_db", "other"}

Init ==
    /\ session = [s \in Sessions |-> [state |-> "none", category |-> NoReq.category,
                                      count |-> 0, registered |-> FALSE]]
    /\ part = [key \in Keys |-> NoPart]
    /\ multi = [u \in Uploads |-> [st |-> "unused", key |-> <<1, NoReq.k>>, chunk |-> FALSE]]
    /\ object = [key \in Keys |-> NoUpload]
    /\ file = [key \in Keys |-> "none"]
    /\ req = [r \in Requests |-> NoReq]
    /\ janitor = NoPass
    /\ scan = NoScan
    /\ item = [key \in Keys |-> {}]
    /\ order = [o \in Operators |-> NoOrder]
    /\ revived = {} /\ early = {} /\ ordered = {}

--------------------------------------------------------------------------------
Exists(s) == session[s].state # "none"
Live(s)   == Exists(s) /\ session[s].state \notin Terminal

\* slot_definitions.
Required(s)  == SlotsOf[session[s].category]
DoneSlots(s) == {k \in Required(s) : part[<<s, k>>].done}
Stored(s)    == DoneSlots(s) = Required(s)

\* Rows that a transaction has locked.
\* Faulty: the session is not locked, nor is the category.
Unlocked(s)   == Exists(s)
Unguarded(c)  == c \in Categories

SessionFree(s)  == \A r \in Requests : req[r].pc = "recording" => req[r].s # s
CategoryFree(c) == \A r \in Requests : req[r].pc = "creating" => req[r].category # c

SlotFree(key)   == \A r \in Requests : req[r].pc = "recording" => <<req[r].s, req[r].k>> # key

Key(r) == <<req[r].s, req[r].k>>

\* Completed or aborted: gone for the storage.
Closed(u) == [multi EXCEPT ![u].st = "closed", ![u].chunk = FALSE]

Starts(r, pc, s, k, u) ==
    /\ req[r].pc = "idle" /\ Exists(s) /\ k \in Required(s)
    /\ req' = [req EXCEPT ![r] = [NoReq EXCEPT !.pc = pc, !.s = s, !.k = k, !.u = u]]

Goes(r, pc) == req' = [req EXCEPT ![r].pc = pc]
Ends(r)     == req' = [req EXCEPT ![r] = NoReq]

\* update_state: whatever the session's state is.
UpdateState(s, state) ==
    /\ SessionFree(s)
    /\ session' = [session EXCEPT ![s].state = state]
    /\ revived' = IF session[s].state \in Terminal THEN revived \cup {s} ELSE revived

--------------------------------------------------------------------------------
(* A session.                                                              *)

\* create_session holds the lock of its category and month from here on.
FindSession(r, c) ==
    /\ req[r].pc = "idle"
    /\ CategoryFree(c)
    /\ \A s \in Sessions : Live(s) => session[s].category # c
    /\ req' = [req EXCEPT ![r] = [NoReq EXCEPT !.pc = "creating", !.category = c]]
    /\ UNCHANGED <<session, part, multi, object, file, revived, early>>

InsertSession(r) ==
    /\ req[r].pc = "creating"
    /\ \E s \in Sessions :
          /\ ~Exists(s) /\ \A older \in 1..(s - 1) : Exists(older)
          /\ session' = [session EXCEPT ![s].state = "created",
                                        ![s].category = req[r].category]
    /\ Ends(r)
    /\ UNCHANGED <<part, multi, object, file, revived, early>>

--------------------------------------------------------------------------------
(* A slot.                                                                 *)

\* The upload is not known to anybody before it is recorded.
Initiate(r, s, k) ==
    \E u \in Uploads :
        /\ multi[u].st = "unused" /\ SlotFree(<<s, k>>)
        /\ Starts(r, "initiated", s, k, u)
        /\ multi' = [multi EXCEPT ![u] = [st |-> "open", key |-> <<s, k>>, chunk |-> FALSE]]
        /\ part' = [part EXCEPT ![<<s, k>>].upload = u]
        /\ UNCHANGED <<session, object, file, revived, early>>

Initiated(r) ==
    /\ req[r].pc = "initiated"
    /\ UpdateState(req[r].s, "uploading")
    /\ Ends(r)
    /\ UNCHANGED <<part, multi, object, file, early>>

UploadPart(r, u) ==
    /\ multi[u].st = "open"
    /\ Starts(r, "put", multi[u].key[1], multi[u].key[2], u)
    /\ multi' = [multi EXCEPT ![u].chunk = TRUE]
    /\ UNCHANGED <<session, part, object, file, revived, early>>

RecordPart(r) ==
    /\ req[r].pc = "put"
    /\ SlotFree(Key(r))
    /\ part' = [part EXCEPT ![Key(r)].upload = req[r].u, ![Key(r)].etag = req[r].u]
    /\ Ends(r)
    /\ UNCHANGED <<session, multi, object, file, revived, early>>

\* complete_multipart_upload, with the parts as they are recorded now.
Complete(r, u) ==
    LET key == multi[u].key
    IN  /\ multi[u].st # "unused"
        /\ req[r].pc = "idle"
        /\ req' = [req EXCEPT ![r] = [NoReq EXCEPT !.pc = "read", !.s = key[1], !.k = key[2],
                                                   !.u = u, !.row = part[key]]]
        /\ UNCHANGED <<session, part, multi, object, file, revived, early>>

\* should_fail_storage_state.
StorageMismatch(r) ==
    LET u == req[r].u
    IN  \/ multi[u].st # "open"
        \/ req[r].row.etag # NoUpload /\ ~multi[u].chunk

ListParts(r) ==
    /\ req[r].pc = "read"
    /\ Goes(r, IF StorageMismatch(r) THEN "mismatch" ELSE "listed")
    /\ UNCHANGED <<session, part, multi, object, file, revived, early>>

FailStorageState(r) ==
    /\ req[r].pc = "mismatch"
    /\ UpdateState(req[r].s, "failed_storage_state")
    /\ Ends(r)
    /\ UNCHANGED <<part, multi, object, file, early>>

\* With the etags that are recorded or those that the client has; without a recorded
\* part the endpoint fails after the object has been made.
CompleteInStorage(r) ==
    LET u == req[r].u
    IN  /\ req[r].pc = "listed"
        /\ multi[u].st = "open" /\ multi[u].chunk
        /\ multi' = Closed(u)
        /\ object' = [object EXCEPT ![Key(r)] = u]
        /\ IF req[r].row.upload = NoUpload THEN Ends(r)
           ELSE req' = [req EXCEPT ![r].pc = "stored", ![r].row = NoPart]
        /\ UNCHANGED <<session, part, file, revived, early>>

\* record_part locks the session before it counts.
CountSlots(r) ==
    /\ req[r].pc = "stored"
    /\ SessionFree(req[r].s)
    /\ req' = [req EXCEPT ![r].pc = "recording",
                          ![r].count = Cardinality(DoneSlots(req[r].s) \cup {req[r].k})]
    /\ UNCHANGED <<session, part, multi, object, file, revived, early>>

\* Faulty: the last slot but one is taken for the last.
OneShort(s, n) ==
    IF n + 1 >= Cardinality(Required(s)) THEN "awaiting_registration" ELSE "uploading"

CollectedState(s, n) ==
    IF n >= Cardinality(Required(s)) THEN "awaiting_registration" ELSE "uploading"

RecordCompleted(r) ==
    LET s == req[r].s
        n == req[r].count
    IN  /\ req[r].pc = "recording"
        /\ part' = [part EXCEPT ![Key(r)] = [upload |-> req[r].u, etag |-> req[r].u, done |-> TRUE]]
        /\ session' = IF ~session[s].registered /\ session[s].state \in Collecting
                      THEN [session EXCEPT ![s].count = n, ![s].state = CollectedState(s, n)]
                      ELSE session
        /\ Ends(r)
        /\ UNCHANGED <<multi, object, file, revived, early>>

AbortUpload(r, u) ==
    /\ multi[u].st # "unused"
    /\ Starts(r, "replacing", multi[u].key[1], multi[u].key[2], u)
    /\ multi' = Closed(u)
    /\ UNCHANGED <<session, part, object, file, revived, early>>

Replace(r, s, k) ==
    /\ Starts(r, "replacing", s, k, NoUpload)
    /\ UNCHANGED <<session, part, multi, object, file, revived, early>>

\* A registered session is left alone; any other is open again.
ReplaceSlot(r) ==
    LET s    == req[r].s
        rest == DoneSlots(s) \ {req[r].k}
    IN  /\ req[r].pc = "replacing"
        /\ ~session[s].registered
        /\ SessionFree(s)
        /\ part' = [part EXCEPT ![Key(r)] = NoPart]
        /\ session' = [session EXCEPT ![s].count = Cardinality(rest),
                           ![s].state = IF rest = {} THEN "created" ELSE "uploading"]
        /\ revived' = IF session[s].state \in Terminal THEN revived \cup {s} ELSE revived
        /\ Ends(r)
        /\ UNCHANGED <<multi, object, file, early>>

--------------------------------------------------------------------------------
(* The registration.                                                       *)

BeginRegister(r, s) ==
    /\ Starts(r, "registering", s, CHOOSE k \in Required(s) : TRUE, NoUpload)
    /\ UNCHANGED <<session, part, multi, object, file, revived, early>>

\* One slot after the other: its part must be there, its object is read.
HashSlot(r) ==
    /\ req[r].pc = "registering"
    /\ \E k \in Required(req[r].s) :
          LET key == <<req[r].s, k>>
          IN  /\ k \notin req[r].hashed
              /\ part[key].done /\ object[key] # NoUpload
              /\ req' = [req EXCEPT ![r].hashed = @ \cup {k}]
    /\ UNCHANGED <<session, part, multi, object, file, revived, early>>

Hashed(r) == req[r].pc = "registering" /\ Required(req[r].s) \subseteq req[r].hashed

\* Files that are there as far as the registry knows.
Registered == {key \in Keys : file[key] \notin {"none", "soft_deleted", "hard_deleted"}}

\* A decision to take the object away that has been made or may be made without the
\* row of a file that is registered, or the object is gone already.
Doomed(key) ==
    \/ item[key] \ {"file"} # {}
    \/ \E o \in Operators : order[o].key = key
    \/ key = scan.key /\ scan.pc = "loaded" /\ scan.listed /\ ~scan.live
    \/ object[key] = NoUpload

Enliven(keys) == early' = (early \ keys) \cup {key \in keys : Doomed(key)'}

\* The rows of an earlier registration are replaced: the reports on them have none any
\* more, a resolution that holds one is waited for, a run that has read them fails when
\* it reports on them.  The answer may be lost.
Register(r) ==
    LET s    == req[r].s
        keys == {s} \X Required(s)
    IN  /\ Hashed(r)
        /\ SessionFree(s)
        /\ \A o \in Operators : order[o].report = "file" => order[o].key \notin keys
        /\ \E state \in {"available", "quarantined"} :
              file' = [key \in Keys |-> IF key \in keys THEN state ELSE file[key]]
        /\ session' = [session EXCEPT ![s].state = "registered", ![s].registered = TRUE]
        /\ item' = [key \in Keys |-> IF key \in keys /\ "file" \in item[key]
                        THEN (item[key] \ {"file"}) \cup {"other"} ELSE item[key]]
        /\ order' = [o \in Operators |-> IF order[o].key \in keys
                        THEN [order[o] EXCEPT !.rows = {}] ELSE order[o]]
        /\ scan' = IF scan.live /\ scan.key \in keys THEN NoScan ELSE scan
        /\ ordered' = ordered \ keys
        /\ \/ Ends(r)
           \/ Goes(r, "unregistering")
        /\ UNCHANGED <<part, multi, object, revived>>
        /\ Enliven(keys)

RegisterFails(r) ==
    /\ Hashed(r)
    /\ Goes(r, "unregistering")
    /\ UNCHANGED <<session, part, multi, object, file, revived, early>>

FailRegister(r) ==
    /\ req[r].pc = "unregistering"
    /\ UpdateState(req[r].s, "failed_register")
    /\ Ends(r)
    /\ UNCHANGED <<part, multi, object, file, early>>

\* A request that is refused, an exception or a crash; an open transaction is undone.
Raises(r) ==
    /\ req[r].pc # "idle"
    /\ Ends(r)
    /\ UNCHANGED <<session, part, multi, object, file, revived, early>>

--------------------------------------------------------------------------------
(* The janitor: one pass at a time (SOURCE_JANITOR), of which one session  *)
(* is looked at: what is decided for the others does not depend on it.     *)

OpenMultiparts(s) ==
    {part[<<s, k>>].upload : k \in Required(s) \ DoneSlots(s)} \ {NoUpload}

\* decide_session_fate, of a session that is past its time and perhaps past its
\* deadline for registration.
Fate(s, late) ==
    IF session[s].registered \/ session[s].state \in JanitorTerminal \cup {"none"} THEN "skip"
    ELSE IF Stored(s) THEN IF late THEN "registration_expired" ELSE "skip"
    ELSE IF OpenMultiparts(s) # {} THEN "cancelled" ELSE "expired"

LoadFacts(s) ==
    \E late \in BOOLEAN :
        /\ janitor = NoPass
        /\ Fate(s, late) # "skip"
        /\ janitor' = [s |-> s, fate |-> Fate(s, late),
                       aborts |-> IF Fate(s, late) = "cancelled" THEN OpenMultiparts(s) ELSE {}]
        /\ UNCHANGED <<uploadVars, reconcileVars>>

\* An upload that is not there any more is as good as aborted; what fails is logged.
JanitorAbort(u) ==
    /\ u \in janitor.aborts
    /\ janitor' = [janitor EXCEPT !.aborts = @ \ {u}]
    /\ multi' \in {multi, Closed(u)}
    /\ UNCHANGED <<session, part, object, file, req, revived, early, reconcileVars>>

\* Faulty: what was decided is written whatever has happened since.
AnyState(s) == Exists(s)

\* The states that the UPDATE does not touch.
Endable(s) == session[s].state \notin JanitorTerminal

JanitorEnd ==
    LET s == janitor.s
    IN  /\ janitor # NoPass /\ janitor.aborts = {}
        /\ SessionFree(s)
        /\ session' = IF Endable(s) THEN [session EXCEPT ![s].state = janitor.fate] ELSE session
        /\ janitor' = NoPass
        /\ UNCHANGED <<part, multi, object, file, req, revived, early, reconcileVars>>

JanitorDies ==
    /\ janitor # NoPass
    /\ janitor' = NoPass
    /\ UNCHANGED <<uploadVars, reconcileVars>>

--------------------------------------------------------------------------------
(* What the group of a registered file does to it (a group is a session).  *)

Untouched == UNCHANGED <<session, part, multi, req, revived, janitor>>

Rewritten(rows) ==
    /\ file' = rows
    /\ Enliven(Registered' \ Registered)

FilesBecome(s, from, to) ==
    /\ \E k \in Required(s) : file[<<s, k>>] \in from
    /\ Untouched /\ UNCHANGED <<object, reconcileVars>>
    /\ Rewritten([key \in Keys |-> IF key[1] = s /\ file[key] \in from
                                   THEN to[key[2]] ELSE file[key]])

Always(state) == [k \in Slots |-> state]

SoftDelete(s) == FilesBecome(s, RowStates \ {"hard_deleted"}, Always("soft_deleted"))

\* As its object was found to be.
Restore(s) == \E to \in [Required(s) -> {"available", "missing", "quarantined"}] :
                 FilesBecome(s, {"soft_deleted"}, to)

Revalidate(s) == \/ FilesBecome(s, {"quarantined"}, Always("available"))
                 \/ FilesBecome(s, {"available"}, Always("quarantined"))

\* The integrity gate of a rebuild.
Quarantine(s) ==
    FilesBecome(s, RowStates \ {"soft_deleted", "hard_deleted"}, Always("quarantined"))

--------------------------------------------------------------------------------
(* The reconciliation of the bucket with the registry, of which one key is *)
(* looked at.                                                              *)

\* The bucket is listed first, then the rows are loaded.
ListObjects(key) ==
    /\ scan.pc = "idle"
    /\ scan' = [NoScan EXCEPT !.pc = "listed", !.key = key, !.listed = object[key] # NoUpload]
    /\ Untouched /\ UNCHANGED <<object, file, early, item, order, ordered>>

\* Faulty: rows that were found missing do not count.
OnlyAvailable == {key \in Keys : file[key] = "available"}

\* _load_live_files.
LiveFiles ==
    {key \in Keys : file[key] \in {"available", "missing", "quarantined", "delete_failed"}}

LoadRows ==
    /\ scan.pc = "listed"
    /\ scan' = [scan EXCEPT !.pc = "loaded", !.live = scan.key \in LiveFiles]
    /\ Untouched /\ UNCHANGED <<object, file, early, item, order, ordered>>

\* _classify_unregistered: the prefix of a session is the prefix of the bucket, so that
\* the newest session of all decides.
Classified ==
    LET newest == CHOOSE s \in Sessions : Exists(s) /\ \A t \in Sessions : Exists(t) => t <= s
    IN  IF session[newest].registered THEN "object_missing_db" ELSE "other"

\* A file that is there may have another size, hash or etag, or a duplicate.
Findings ==
    CASE scan.live /\ scan.listed -> {{}, {"file"}}
      [] scan.live /\ ~scan.listed -> {{"file"}}
      [] ~scan.live /\ scan.listed -> {{Classified}}
      [] OTHER -> {{}}

Report ==
    /\ scan.pc = "loaded"
    /\ \E found \in Findings : item' = [item EXCEPT ![scan.key] = @ \cup found]
    /\ file' = IF scan.live /\ ~scan.listed /\ file[scan.key] = "available"
               THEN [file EXCEPT ![scan.key] = "missing"] ELSE file
    /\ scan' = NoScan
    /\ Untouched /\ UNCHANGED <<object, early, order, ordered>>

\* The report is done with; whether another one of its kind is open is left open.
Settled(key, report) == {item, [item EXCEPT ![key] = @ \ {report}]}

\* Besides leaving it as it is: mark_db_missing, soft_delete_db_row, restore_soft_deleted
\* and update_hash_after_verify of a row.
Resolutions(key) ==
    {file[key], "available"}
        \cup (IF object[key] = NoUpload THEN {"missing"} ELSE {})
        \cup (IF file[key] # "hard_deleted" THEN {"soft_deleted"} ELSE {})

Resolve(key, report) ==
    /\ report \in item[key]
    /\ item' \in Settled(key, report)
    /\ Untouched /\ UNCHANGED <<object, scan, order, ordered>>
    /\ \E state \in IF report = "file" THEN Resolutions(key) ELSE {file[key]} :
          Rewritten([file EXCEPT ![key] = state])

--------------------------------------------------------------------------------
(* Deletions: the object goes first, the row is told at the commit.        *)

\* Of a report with a row, the row in these states will be told.
TakesAway(o, key, report, rows) ==
    /\ order[o] = NoOrder
    /\ report \in item[key]
    /\ object' = [object EXCEPT ![key] = NoUpload]
    /\ order' = [order EXCEPT ![o] =
          [NoOrder EXCEPT !.pc = "done", !.key = key, !.report = report,
                          !.rows = IF report = "file" THEN rows ELSE {}]]
    /\ ordered' = IF report = "file" THEN ordered \cup {key} ELSE ordered
    /\ Untouched /\ UNCHANGED <<file, early, scan, item>>

\* Refused for a file of an active set, which is not looked at here, and when the object
\* is gone.
DeleteObject(o, key, report) ==
    object[key] # NoUpload /\ TakesAway(o, key, report, RowStates)

RetryDelete(o, key, report) == TakesAway(o, key, report, {"delete_failed"})

\* assess_hard_delete_candidate: by its row, or, if there is none, by what has been
\* reported of the object.
Deletable(key) ==
    \/ file[key] \in {"soft_deleted", "quarantined"}
    \/ file[key] \in {"none", "hard_deleted"} /\ "object_missing_db" \in item[key]

PlanHardDelete(o, key) ==
    LET row == file[key] \notin {"none", "hard_deleted"}
    IN  /\ order[o] = NoOrder
        /\ Deletable(key)
        /\ order' = [order EXCEPT ![o] =
              [NoOrder EXCEPT !.pc = "planned", !.key = key,
                              !.rows = IF row THEN RowStates \ {"hard_deleted"} ELSE {}]]
        /\ ordered' = IF row THEN ordered \cup {key} ELSE ordered
        /\ Untouched /\ UNCHANGED <<object, file, early, scan, item>>

\* The storage may fail, with the object or without it.
HardDelete(o) ==
    LET without == [object EXCEPT ![order[o].key] = NoUpload]
    IN  /\ order[o].pc = "planned"
        /\ \/ /\ object' = without
              /\ order' = [order EXCEPT ![o].pc = "done"]
           \/ /\ object' \in {object, without}
              /\ order' = [order EXCEPT ![o].pc = "done", ![o].to = "delete_failed"]
        /\ Untouched /\ UNCHANGED <<file, early, scan, item, ordered>>

CommitDeletion(o) ==
    LET d == order[o]
    IN  /\ d.pc = "done"
        /\ item' \in Settled(d.key, d.report)
        /\ order' = [order EXCEPT ![o] = NoOrder]
        /\ Untouched /\ UNCHANGED <<object, scan, ordered>>
        /\ Rewritten(IF file[d.key] \in d.rows THEN [file EXCEPT ![d.key] = d.to] ELSE file)

\* The row and the report stay as they were, the object does not come back.
DeletionDies(o) ==
    /\ order[o] # NoOrder
    /\ order' = [order EXCEPT ![o] = NoOrder]
    /\ Untouched /\ UNCHANGED <<object, file, early, scan, item, ordered>>

--------------------------------------------------------------------------------
RequestStep(r) ==
    \/ \E c \in Categories : FindSession(r, c)
    \/ InsertSession(r)
    \/ \E s \in Sessions, k \in Slots : Initiate(r, s, k) \/ Replace(r, s, k)
    \/ \E u \in Uploads : UploadPart(r, u) \/ Complete(r, u) \/ AbortUpload(r, u)
    \/ Initiated(r) \/ RecordPart(r)
    \/ ListParts(r) \/ FailStorageState(r) \/ CompleteInStorage(r)
    \/ CountSlots(r) \/ RecordCompleted(r) \/ ReplaceSlot(r)
    \/ \E s \in Sessions : BeginRegister(r, s)
    \/ HashSlot(r) \/ RegisterFails(r) \/ FailRegister(r)
    \/ Raises(r)

JanitorStep ==
    \/ \E s \in Sessions : LoadFacts(s)
    \/ \E u \in Uploads : JanitorAbort(u)
    \/ JanitorEnd \/ JanitorDies

GroupStep ==
    \E s \in Sessions : SoftDelete(s) \/ Restore(s) \/ Revalidate(s) \/ Quarantine(s)

ReconcileStep ==
    \/ \E key \in Keys :
          ListObjects(key) \/ \E report \in Reports : Resolve(key, report)
    \/ LoadRows \/ Report

DeletionStep(o) ==
    \/ \E key \in Keys :
          \/ \E report \in Reports : DeleteObject(o, key, report) \/ RetryDelete(o, key, report)
          \/ PlanHardDelete(o, key)
    \/ HardDelete(o) \/ CommitDeletion(o) \/ DeletionDies(o)

Next ==
    \/ \E r \in Requests : /\ Register(r) \/ (RequestStep(r) /\ UNCHANGED reconcileVars)
                           /\ UNCHANGED janitor
    \/ JanitorStep
    \/ GroupStep
    \/ ReconcileStep
    \/ \E o \in Operators : DeletionStep(o)

Spec == Init /\ [][Next]_vars

--------------------------------------------------------------------------------
SessionStates == {"none"} \cup Collecting \cup Terminal

Pcs == {"idle", "creating", "initiated", "put", "read", "listed", "mismatch", "stored",
        "recording", "replacing", "registering", "unregistering"}

TypeOK ==
    /\ session \in [Sessions -> [state : SessionStates, category : Categories,
                                 count : 0..Cardinality(Slots), registered : BOOLEAN]]
    /\ part \in [Keys -> [upload : Content, etag : Content, done : BOOLEAN]]
    /\ multi \in [Uploads -> [st : {"unused", "open", "closed"}, key : Keys,
                              chunk : BOOLEAN]]
    /\ object \in [Keys -> Content]
    /\ file \in [Keys -> {"none"} \cup RowStates]
    /\ \A r \in Requests : req[r].pc \in Pcs /\ req[r].s \in 0..MaxSessions
    /\ item \in [Keys -> SUBSET Reports]
    /\ order \in [Operators -> [pc : {"idle", "planned", "done"}, key : Keys \cup {NoKey},
                                report : Reports \cup {"none"}, rows : SUBSET RowStates,
                                to : {"hard_deleted", "delete_failed"}]]
    /\ early \subseteq Keys /\ ordered \subseteq Keys /\ revived \subseteq Sessions

\* What a session says of its progress is true: it waits for its registration only
\* when every file is there, however completions, replacements and uploads that are
\* begun again overlap; and as long as it is being collected for and has not been
\* taken up again after its end, its counter is the number of files that are there.
ProgressIsTrue ==
    \A s \in Sessions :
        /\ session[s].state = "awaiting_registration" /\ ~session[s].registered => Stored(s)
        /\ Live(s) /\ ~session[s].registered /\ s \notin revived =>
               session[s].count = Cardinality(DoneSlots(s))

\* One session at a time collects for a category and month, unless a late request has
\* taken up one that had ended.
OneLiveSession ==
    \A s, t \in Sessions \ revived :
        Live(s) /\ Live(t) /\ session[s].category = session[t].category => s = t

\* The janitor does not end what has been registered: a session that it has ended has
\* no files in the registry, unless it was taken up again.
EndedHasNoFiles ==
    \A key \in Keys :
        session[key[1]].state \in JanitorTerminal \ {"registered"} /\ file[key] # "none"
            => key[1] \in revived

\* The object of a registered file is there, unless somebody chose to delete the file: by
\* a report that names it, or because it was soft-deleted or quarantined.  What is decided
\* of an object without a row does not reach a file that was registered when the rows were
\* read: only one that was registered or restored since.
RegisteredObjectKept ==
    \A key \in Registered : object[key] = NoUpload => key \in early \cup ordered

\* What is said of sessions that have ended (dto/source.py).
EndedStays == [][\A s \in Sessions : session[s].state \in Terminal => session'[s].state \in Terminal]_vars

\* What is said of objects that wait for their registration (core/source_reconcile.py).
PendingIsNoCandidate ==
    \A key \in Keys :
        Live(key[1]) /\ ~session[key[1]].registered /\ key \notin LiveFiles => ~Deletable(key)

\* What is said of the key of an upload (_slot_object_key).
RegisteredIsNotTouched ==
    [][\A key \in LiveFiles : multi' # multi => object'[key] = object[key]]_vars
================================================================================
