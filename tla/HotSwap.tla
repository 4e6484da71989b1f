-------------------------------- MODULE HotSwap --------------------------------
(***************************************************************************)
(* Putting a restored database into service by renaming, and taking it out *)
(* again (infra/hotswap.py, record_hot_swap_release of infra/              *)
(* admin_repo.py, cross_process_lock of infra/concurrency.py).             *)
(*                                                                         *)
(* A swap and a manual rollback are the same walk: the database that       *)
(* serves steps aside, the source takes its name, and the release is       *)
(* recorded in whatever database answers to that name.  The plan is made   *)
(* before the advisory lock, the lock belongs to the maintenance database  *)
(* that the request names, every statement commits on its own, and the     *)
(* process may die between any two of them.                                *)
(*                                                                         *)
(* Loads and releases go on meanwhile in the database that has the name.   *)
(***************************************************************************)
EXTENDS Naturals, FiniteSets

CONSTANTS
    Dbs,          \* physical databases of the cluster
    Names,        \* names a database can have
    Serving,      \* the name the application connects to
    Ops,          \* admin requests that swap or roll back
    Maint,        \* maintenance databases a request may name
    Contents,     \* what the served tables can hold
    NoDb, NoOp, NoFp,
    MaxReleases   \* bound: releases recorded in all databases together

ASSUME HotSwapAssumption ==
    /\ Serving \in Names
    /\ Maint # {}
    /\ NoDb \notin Dbs /\ NoOp \notin Ops /\ NoFp \notin Contents
    /\ MaxReleases \in Nat /\ MaxReleases >= 2

VARIABLES
    catalog,   \* pg_database: which database has the name
    db,        \* content and active release of each database
    released,  \* number of releases recorded so far: the next id is fresh
    lock,      \* holder of HOT_SWAP in each maintenance database
    op,        \* the admin requests
    accident   \* ghost: a process died, or a repair failed, with names half changed

vars == <<catalog, db, released, lock, op, accident>>

--------------------------------------------------------------------------------
Ids   == 1..MaxReleases
Token == Contents \cup {NoFp}

\* active is 0 when the database has no release; owes: loaded and not released.
Db    == [content : Contents, active : {0} \cup Ids, fp : Token, owes : BOOLEAN]

\* swap: source is restore_database and aside the previous alias; rollback: the
\* other way round.  was is a ghost: the catalog when the lock was taken.
Op    == [pc : {"idle", "planned", "locked", "ready", "moved", "undoing", "renamed",
                "smoked", "failing", "back", "undone", "rolledback"},
          kind : {"swap", "rollback"}, maint : Maint, source : Names, aside : Names,
          fp : Token, before : {0} \cup Ids, db : Dbs \cup {NoDb},
          was : [Names -> Dbs \cup {NoDb}]]

\* Between two renames: nobody has the serving name.
HalfDone == {"moved", "undoing", "back"}
Section  == {"locked", "ready", "moved", "undoing", "renamed", "smoked", "failing", "back"}

Bound(n)      == catalog[n] # NoDb
ServingDb     == catalog[Serving]

\* ALTER DATABASE a RENAME TO b, when a exists and b does not.
CanRename(a, b)  == Bound(a) /\ ~Bound(b)
Renamed(a, b)    == [catalog EXCEPT ![a] = NoDb, ![b] = catalog[a]]

IdleOp == [pc |-> "idle", kind |-> "swap", maint |-> CHOOSE m \in Maint : TRUE,
            source |-> Serving, aside |-> Serving, fp |-> NoFp, before |-> 0,
            db |-> NoDb, was |-> [n \in Names |-> NoDb]]

\* A backup restores the release that serves (2), an earlier one (1), or data of
\* a time before any release; the token may be missing.
Restored(live) ==
    {live} \cup {[content |-> c, active |-> a, fp |-> f, owes |-> FALSE] :
                    c \in Contents, a \in {0, 1}, f \in {NoFp}}
           \cup {[content |-> c, active |-> 1, fp |-> c, owes |-> FALSE] : c \in Contents}

Init ==
    /\ catalog \in {names \in [Names -> Dbs \cup {NoDb}] :
                       /\ names[Serving] # NoDb
                       /\ \A d \in Dbs : Cardinality({n \in Names : names[n] = d}) = 1}
    /\ \E c \in Contents :
          LET live == [content |-> c, active |-> 2, fp |-> c, owes |-> FALSE]
          IN  db \in {f \in [Dbs -> Restored(live)] : f[catalog[Serving]] = live}
    /\ released = 2
    /\ lock = [m \in Maint |-> NoOp]
    /\ op = [o \in Ops |-> IdleOp]
    /\ accident = FALSE

--------------------------------------------------------------------------------
(* The admin request.                                                      *)

\* op[o] goes to pc; the HOT_SWAP lock is given back when it leaves the section.
Goes(o, pc) ==
    /\ op' = [op EXCEPT ![o] = IF pc = "idle" THEN IdleOp ELSE [@ EXCEPT !.pc = pc]]
    /\ lock' = IF op[o].pc \in Section /\ pc \notin Section
               THEN [lock EXCEPT ![op[o].maint] = NoOp] ELSE lock

\* Both kinds demand that the three names differ, that the serving database and
\* the source exist and that the name to step aside to is free.
Blocked(source, aside) ==
    \/ Cardinality({Serving, source, aside}) # 3
    \/ ~Bound(Serving) \/ ~Bound(source) \/ Bound(aside)

\* Blockers, confirmation, window, versions and revision: all before the lock.
\* What is refused changes nothing.
Plan(o) ==
    /\ op[o].pc = "idle"
    /\ \E k \in {"swap", "rollback"}, m \in Maint, source, aside \in Names :
          /\ ~Blocked(source, aside)
          /\ op' = [op EXCEPT ![o] = [IdleOp EXCEPT !.pc = "planned", !.kind = k,
                              !.maint = m, !.source = source, !.aside = aside]]
    /\ UNCHANGED <<catalog, db, released, lock, accident>>

\* Faulty: the lock is not looked at.
AnyHolder(m) == lock[m] \in Ops \cup {NoOp}

LockFree(m) == lock[m] = NoOp

\* pg_try_advisory_lock on a session of the maintenance database.
Lock(o) ==
    /\ op[o].pc = "planned"
    /\ LockFree(op[o].maint)
    /\ lock' = [lock EXCEPT ![op[o].maint] = o]
    /\ op' = [op EXCEPT ![o].pc = "locked", ![o].was = catalog]
    /\ UNCHANGED <<catalog, db, released, accident>>

\* ConcurrentExecutionError, a plan that goes stale and is given up, a crash.
GiveUp(o) ==
    /\ op[o].pc = "planned"
    /\ Goes(o, "idle")
    /\ UNCHANGED <<catalog, db, released, accident>>

\* The fingerprint that the source carries in its active release; without one,
\* a scan; without a scan, none.  A name that has gone by now reads as a failure.
Attempts(d) ==
    {[fp |-> NoFp, before |-> 0]} \cup
    (IF d = NoDb THEN {}
     ELSE IF db[d].fp # NoFp THEN {[fp |-> db[d].fp, before |-> db[d].active]}
     ELSE {[fp |-> f, before |-> db[d].active] : f \in {db[d].content, NoFp}})

FingerprintSource(o) ==
    /\ op[o].pc = "locked"
    /\ \E a \in Attempts(catalog[op[o].source]) :
          op' = [op EXCEPT ![o].pc = "ready", ![o].fp = a.fp, ![o].before = a.before]
    /\ UNCHANGED <<catalog, db, released, lock, accident>>

\* Sessions that come back after they were terminated make any rename fail.
StepAside(o) ==
    /\ op[o].pc = "ready"
    /\ CanRename(Serving, op[o].aside)
    /\ catalog' = Renamed(Serving, op[o].aside)
    /\ Goes(o, "moved")
    /\ UNCHANGED <<db, released, accident>>

StepAsideFails(o) ==
    /\ op[o].pc = "ready"
    /\ Goes(o, "idle")
    /\ UNCHANGED <<catalog, db, released, accident>>

TakeName(o) ==
    /\ op[o].pc = "moved"
    /\ CanRename(op[o].source, Serving)
    /\ catalog' = Renamed(op[o].source, Serving)
    /\ op' = [op EXCEPT ![o].pc = "renamed", ![o].db = catalog[op[o].source]]
    /\ UNCHANGED <<db, released, lock, accident>>

\* Faulty: the exception leaves the section at once.
AfterFailedTake == "idle"

\* A failed second rename is answered by an attempt to undo the first.
AfterFailure == "undoing"

TakeNameFails(o) ==
    /\ op[o].pc = "moved"
    /\ Goes(o, AfterFailure)
    /\ UNCHANGED <<catalog, db, released, accident>>

Undo(o) ==
    /\ op[o].pc = "undoing"
    /\ CanRename(op[o].aside, Serving)
    /\ catalog' = Renamed(op[o].aside, Serving)
    /\ Goes(o, "undone")
    /\ UNCHANGED <<db, released, accident>>

\* with suppress(Exception): the undo is tried once.
UndoFails(o) ==
    /\ op[o].pc = "undoing"
    /\ Goes(o, "undone")
    /\ accident' = TRUE
    /\ UNCHANGED <<catalog, db, released>>

\* The smoke test passes or was not asked for; a rollback records it and goes on.
Smoke(o) ==
    /\ op[o].pc = "renamed"
    /\ Goes(o, "smoked")
    /\ UNCHANGED <<catalog, db, released, accident>>

SmokeFails(o) ==
    /\ op[o].pc = "renamed"
    /\ op[o].kind = "swap"
    /\ Goes(o, "failing")
    /\ UNCHANGED <<catalog, db, released, accident>>

\* The automatic rollback: two renames, each may fail, and nothing undoes them.
GiveNameBack(o) ==
    /\ op[o].pc = "failing"
    /\ CanRename(Serving, op[o].source)
    /\ catalog' = Renamed(Serving, op[o].source)
    /\ Goes(o, "back")
    /\ UNCHANGED <<db, released, accident>>

\* Faulty: the name is given to the database that has just failed.
WrongOne(o) == op[o].source

FormerOne(o) == op[o].aside

ComeBack(o) ==
    /\ op[o].pc = "back"
    /\ CanRename(FormerOne(o), Serving)
    /\ catalog' = Renamed(FormerOne(o), Serving)
    /\ Goes(o, "rolledback")
    /\ UNCHANGED <<db, released, accident>>

RollbackFails(o) ==
    /\ op[o].pc \in {"failing", "back"}
    /\ Goes(o, "idle")
    /\ accident' = (accident \/ op[o].pc = "back")
    /\ UNCHANGED <<catalog, db, released>>

\* The response has been sent.
Return(o) ==
    /\ op[o].pc \in {"undone", "rolledback"}
    /\ Goes(o, "idle")
    /\ UNCHANGED <<catalog, db, released, accident>>

\* Faulty: the fingerprint of the source is trusted whatever came after.
Trusted(o, d) == op[o].fp

\* Worth nothing once another activation has come between the scan and the lock.
Judged(o, d) == IF op[o].before = db[d].active THEN op[o].fp ELSE NoFp

\* One transaction in the database that has the serving name now.
Record(o) ==
    /\ op[o].pc = "smoked"
    /\ Bound(Serving)
    /\ released < MaxReleases
    /\ db' = [db EXCEPT ![ServingDb] = [@ EXCEPT !.active = released + 1,
                                                   !.fp = Judged(o, ServingDb)]]
    /\ released' = released + 1
    /\ Goes(o, "idle")
    /\ UNCHANGED <<catalog, accident>>

\* The exception leaves the source in service, without a release of its own.
RecordFails(o) ==
    /\ op[o].pc = "smoked"
    /\ Goes(o, "idle")
    /\ UNCHANGED <<catalog, db, released, accident>>

\* The server process dies; PostgreSQL frees the session lock.
Crash(o) ==
    /\ op[o].pc \in Section
    /\ Goes(o, "idle")
    /\ accident' = (accident \/ op[o].pc \in HalfDone)
    /\ UNCHANGED <<catalog, db, released>>

--------------------------------------------------------------------------------
(* Loads and releases in the serving database.                             *)

Load ==
    /\ Bound(Serving)
    /\ \E c \in Contents :
          db' = [db EXCEPT ![ServingDb] = [@ EXCEPT !.content = c, !.owes = TRUE]]
    /\ UNCHANGED <<catalog, released, lock, op, accident>>

\* The activation itself is the subject of ServingReleases.
Publish ==
    /\ Bound(Serving)
    /\ released < MaxReleases
    /\ \E f \in {db[ServingDb].content, NoFp} :
          db' = [db EXCEPT ![ServingDb] =
                     [@ EXCEPT !.active = released + 1, !.fp = f, !.owes = FALSE]]
    /\ released' = released + 1
    /\ UNCHANGED <<catalog, lock, op, accident>>

--------------------------------------------------------------------------------
Step(o) ==
    \/ Plan(o) \/ Lock(o) \/ GiveUp(o) \/ FingerprintSource(o)
    \/ StepAside(o) \/ StepAsideFails(o) \/ TakeName(o) \/ TakeNameFails(o)
    \/ Undo(o) \/ UndoFails(o) \/ Smoke(o) \/ SmokeFails(o)
    \/ GiveNameBack(o) \/ ComeBack(o) \/ RollbackFails(o) \/ Return(o)
    \/ Record(o) \/ RecordFails(o) \/ Crash(o)

Next ==
    \/ \E o \in Ops : Step(o)
    \/ Load \/ Publish

Spec == Init /\ [][Next]_vars

--------------------------------------------------------------------------------
(* Properties.                                                             *)

\* The state is well typed, and no rename loses a database.
TypeOK ==
    /\ catalog \in [Names -> Dbs \cup {NoDb}]
    /\ \A d \in Dbs : \E n \in Names : catalog[n] = d
    /\ db \in [Dbs -> Db]
    /\ released \in Ids
    /\ lock \in [Maint -> Ops \cup {NoOp}]
    /\ op \in [Ops -> Op]
    /\ accident \in BOOLEAN

\* Nobody is left without a serving database: the name is missing only between
\* two renames of a live request, or after a crash or a failed repair there.
ServingNameKept ==
    ~Bound(Serving) => accident \/ \E o \in Ops : op[o].pc \in HalfDone

\* While it works and when it returns, the names are where the walk has put
\* them: what came back after a failure is the database that served before.
RolledBackAsBefore ==
    [][\A o \in Ops :
          op[o].pc \in {"undoing", "back"} /\ op'[o].pc \in {"undone", "rolledback"}
          => catalog' = op[o].was \/ accident']_vars

\* The release of a swap is recorded in the database that it put into service:
\* plans are stale and the ledger is found by name, so only the lock says so.
RecordedWhereSwapped ==
    [][\A o \in Ops :
          op[o].pc = "smoked" /\ released' # released /\ op'[o].pc = "idle"
          => ServingDb = op[o].db]_vars

\* A database whose loads are all released carries the token of its content or
\* none, although a swap inherits the token from a ledger that it did not write.
HonestToken ==
    \A d \in Dbs : ~db[d].owes => db[d].fp \in {db[d].content, NoFp}

\* The comment at the lock: a second call fails fast without touching anything.
OneSwapAtATime ==
    \A o1, o2 \in Ops : op[o1].pc \in Section /\ op[o2].pc \in Section => o1 = o2
================================================================================
