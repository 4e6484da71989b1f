-------------------------------- MODULE Backups --------------------------------
(***************************************************************************)
(* Database backups: the job that makes an archive (infra/backup.py), the  *)
(* schedule that asks for one (infra/backup_schedule.py and run-due of     *)
(* api/routers/admin.py), the janitor that expires old ones                *)
(* (infra/backup_janitor.py) and the operator who deletes them.            *)
(*                                                                         *)
(* A row of ops.artifacts and the file that it names are changed one after *)
(* the other by four actors that share no lock.  No update of a row looks  *)
(* at its state, and an archive's path is chosen by looking for a file     *)
(* that the job will only put there when it is done.                       *)
(*                                                                         *)
(* The job's row in load_jobs is the subject of LoadJobs; here it is open  *)
(* or not.  It ends when somebody ends it, and the worker may go on.       *)
(***************************************************************************)
EXTENDS Naturals, FiniteSets

CONSTANTS
    Backups,    \* backup jobs, each with its artifact
    Triggers,   \* calls of run-due
    Plain,      \* a file name that is asked for more than once
    KeepMin,    \* backup_retention_keep_min
    NoBackup, NoTrigger

ASSUME BackupAssumption ==
    /\ IsFiniteSet(Backups)
    /\ Plain \notin Backups /\ NoBackup \notin Backups /\ NoTrigger \notin Triggers
    /\ KeepMin \in Nat

VARIABLES
    job,       \* the workers of the jobs: how far each is
    open,      \* rows of load_jobs that are queued or running
    row,       \* ops.artifacts
    file,      \* the archive at each path: whose dump it holds
    part,      \* the .part next to it
    op,        \* the artifact that an operator is deleting
    janitor,   \* the pass that holds BACKUP_JANITOR, if there is one
    trigger,   \* the calls of run-due
    lock,      \* holder of BACKUP_SCHEDULE
    cron,      \* ghost: jobs that run-due has asked for
    finished,  \* ghost: backups that have been available
    doomed,    \* ghost: backups whose archive the janitor has taken
    excused    \* ghost: backups whose archive an operator, a late failure or a
               \* job of the same name may have taken

vars == <<job, open, row, file, part, op, janitor, trigger, lock, cron,
          finished, doomed, excused>>

--------------------------------------------------------------------------------
\* A name that is free is used as it is; otherwise it gets a suffix of its own.
Paths == {Plain} \cup Backups
Held  == Backups \cup {NoBackup}

Working == {"begun", "archived", "hashed", "placed", "finalized", "failing"}

Job == [pc : {"none", "queued", "over", "dead"} \cup Working,
        class : {"default", "pinned", "scheduled"}, sum : Held]

\* made: order of created_at; due: expires_at has passed; recent: a scheduled
\* one, created within the interval of the schedule.
Row == [state : {"none", "creating", "available", "failed", "deleted", "expired"},
        path : Paths, made : 0..Cardinality(Backups), due : BOOLEAN, recent : BOOLEAN]

NoJanitor == [pc |-> "idle", todo |-> {}, at |-> NoBackup]

Init ==
    /\ job = [b \in Backups |-> [pc |-> "none", class |-> "default", sum |-> NoBackup]]
    /\ open = {} /\ cron = {}
    /\ row = [b \in Backups |-> [state |-> "none", path |-> b, made |-> 0,
                                 due |-> FALSE, recent |-> FALSE]]
    /\ file = [p \in Paths |-> NoBackup]
    /\ part = [p \in Paths |-> NoBackup]
    /\ op = NoBackup
    /\ janitor = NoJanitor
    /\ trigger = [t \in Triggers |-> "idle"]
    /\ lock = NoTrigger
    /\ finished = {} /\ doomed = {} /\ excused = {}

Exists(b)  == row[b].state # "none"
Goes(b, pc) == job' = [job EXCEPT ![b].pc = pc]

AtPath(p)  == {b \in Backups : Exists(b) /\ row[b].path = p}

jobs   == <<job, open, cron>>
actors == <<op, janitor, trigger, lock>>
others == <<actors, open, cron>>

--------------------------------------------------------------------------------
(* The backup job.                                                         *)

\* POST /backups, with any retention class and without BACKUP_SCHEDULE.
Submit(b) ==
    /\ job[b].pc = "none"
    /\ \E c \in {"default", "pinned", "scheduled"} :
          job' = [job EXCEPT ![b].pc = "queued", ![b].class = c]
    /\ open' = open \cup {b}
    /\ UNCHANGED <<cron, row, file, part, actors, finished, doomed, excused>>

\* The launch fails, the job is cancelled or its request is refused.
EndQueued(b) ==
    /\ job[b].pc = "queued"
    /\ Goes(b, "over")
    /\ open' = open \ {b}
    /\ UNCHANGED <<cron, row, file, part, actors, finished, doomed, excused>>

\* The row ends wherever the worker is: an operator cancels the job, the reconciler
\* evicts it, or the worker records the verdict after its last step.  A worker whose
\* row has gone learns of it at a later poll, or never.
EndRow(b) ==
    /\ b \in open
    /\ open' = open \ {b}
    /\ UNCHANGED <<job, cron, row, file, part, actors, finished, doomed, excused>>

\* Faulty: the name is taken as it is.
AsAsked(b, name) == name

FreePath(b, name) == IF file[name] = NoBackup THEN name ELSE b

\* Jobs that work at the same path at the same time excuse each other.
Rivals(p) == {b \in AtPath(p) : job[b].pc \in Working \cup {"dead"}}

Begin(b) ==
    /\ job[b].pc = "queued"
    /\ \E name \in {Plain, b} :
          LET p == FreePath(b, name)
          IN  /\ row' = [row EXCEPT ![b] = [state |-> "creating", path |-> p,
                              made |-> Cardinality({c \in Backups : Exists(c)}) + 1,
                              due |-> FALSE,
                              recent |-> job[b].class = "scheduled"]]
              /\ excused' = IF Rivals(p) = {} THEN excused
                            ELSE excused \cup Rivals(p) \cup {b}
    /\ Goes(b, "begun")
    /\ UNCHANGED <<file, part, others, finished, doomed>>

\* pg_dump into a directory of its own; what is at the .part is removed, and tar
\* writes there.
Archive(b) ==
    /\ job[b].pc = "begun"
    /\ part' = [part EXCEPT ![row[b].path] = b]
    /\ Goes(b, "archived")
    /\ UNCHANGED <<row, file, others, finished, doomed, excused>>

Hash(b) ==
    /\ job[b].pc = "archived"
    /\ part[row[b].path] # NoBackup
    /\ job' = [job EXCEPT ![b].pc = "hashed", ![b].sum = part[row[b].path]]
    /\ UNCHANGED <<row, file, part, others, finished, doomed, excused>>

Place(b) ==
    /\ job[b].pc = "hashed"
    /\ part[row[b].path] # NoBackup
    /\ file' = [file EXCEPT ![row[b].path] = part[row[b].path]]
    /\ part' = [part EXCEPT ![row[b].path] = NoBackup]
    /\ Goes(b, "placed")
    /\ UNCHANGED <<row, others, finished, doomed, excused>>

\* The row says so whatever it said before, deleted included.
Finalize(b) ==
    /\ job[b].pc = "placed"
    /\ row' = [row EXCEPT ![b].state = "available", ![b].due = FALSE]
    /\ Goes(b, "finalized")
    /\ finished' = finished \cup {b}
    /\ UNCHANGED <<file, part, others, doomed, excused>>

\* A step raises or the job is cancelled; after "finalized" it is the record of
\* the callback or the last progress report that raises.
Fail(b) ==
    /\ job[b].pc \in Working \ {"failing"}
    /\ row' = [row EXCEPT ![b].state = "failed"]
    /\ Goes(b, "failing")
    /\ excused' = IF job[b].pc = "finalized" THEN excused \cup {b} ELSE excused
    /\ UNCHANGED <<file, part, others, finished, doomed>>

\* finally: the .part goes, whoever is writing to it by now.
CleanUp(b) ==
    /\ job[b].pc \in {"finalized", "failing"}
    /\ part' = [part EXCEPT ![row[b].path] = NoBackup]
    /\ Goes(b, "over")
    /\ UNCHANGED <<row, file, others, finished, doomed, excused>>

\* The worker is killed; the reconciler ends its row in load_jobs if nobody has.
Die(b) ==
    /\ job[b].pc \in Working
    /\ Goes(b, "dead")
    /\ UNCHANGED <<row, file, part, others, finished, doomed, excused>>

Reconcile(b) ==
    /\ job[b].pc = "dead"
    /\ Goes(b, "over")
    /\ open' = open \ {b}
    /\ UNCHANGED <<cron, row, file, part, actors, finished, doomed, excused>>

--------------------------------------------------------------------------------
(* Operators.  POST /backups/{id}/delete looks at no state: a row that has *)
(* no archive any more, or not yet one, takes what is at its path.         *)

Unlink(b) ==
    /\ Exists(b) /\ op = NoBackup
    /\ file' = [file EXCEPT ![row[b].path] = NoBackup]
    /\ op' = b
    /\ excused' = excused \cup AtPath(row[b].path)
    /\ UNCHANGED <<jobs, row, part, janitor, trigger, lock, finished, doomed>>

MarkDeleted(b) ==
    /\ op = b
    /\ row' = [row EXCEPT ![b].state = "deleted"]
    /\ op' = NoBackup
    /\ UNCHANGED <<jobs, file, part, janitor, trigger, lock, finished, doomed, excused>>

DeleteDies(b) ==
    /\ op = b
    /\ op' = NoBackup
    /\ UNCHANGED <<jobs, row, file, part, janitor, trigger, lock, finished, doomed, excused>>

--------------------------------------------------------------------------------
(* The janitor: one pass at a time, over the rows as they were listed.     *)

Available == {b \in Backups : row[b].state = "available"}
Newer(b)  == {c \in Available : row[c].made > row[b].made}

\* Faulty: one too few are kept.
TooFew(b) == Cardinality(Newer(b)) + 1 >= KeepMin

BeyondMinimum(b) == Cardinality(Newer(b)) >= KeepMin

Eligible == {b \in Available : /\ row[b].due
                               /\ job[b].class # "pinned"
                               /\ BeyondMinimum(b)}

List ==
    /\ janitor.pc = "idle"
    /\ Eligible # {}
    /\ janitor' = [pc |-> "listed", todo |-> Eligible, at |-> NoBackup]
    /\ UNCHANGED <<jobs, row, file, part, op, trigger, lock, finished, doomed, excused>>

\* The archive first.  What else has this path loses its archive as well.
Take(b) ==
    /\ janitor.pc = "listed" /\ b \in janitor.todo
    /\ \A c \in janitor.todo : row[c].made <= row[b].made
    /\ file' = [file EXCEPT ![row[b].path] = NoBackup]
    /\ janitor' = [pc |-> "taken", todo |-> janitor.todo \ {b}, at |-> b]
    /\ doomed' = doomed \cup {b}
    /\ excused' = excused \cup (AtPath(row[b].path) \ {b})
    /\ UNCHANGED <<jobs, row, part, op, trigger, lock, finished>>

NextPass == IF janitor.todo = {} THEN NoJanitor
            ELSE [janitor EXCEPT !.pc = "listed", !.at = NoBackup]

MarkExpired ==
    /\ janitor.pc = "taken"
    /\ row' = [row EXCEPT ![janitor.at].state = "expired"]
    /\ janitor' = NextPass
    /\ UNCHANGED <<jobs, file, part, op, trigger, lock, finished, doomed, excused>>

\* An exception costs one artifact, a crash the rest of the pass.
MarkFails ==
    /\ janitor.pc = "taken"
    /\ janitor' = NextPass
    /\ UNCHANGED <<jobs, row, file, part, op, trigger, lock, finished, doomed, excused>>

JanitorDies ==
    /\ janitor.pc # "idle"
    /\ janitor' = NoJanitor
    /\ UNCHANGED <<jobs, row, file, part, op, trigger, lock, finished, doomed, excused>>

--------------------------------------------------------------------------------
(* The schedule: run-due decides and enqueues under BACKUP_SCHEDULE.       *)

schedule == <<row, file, part, op, janitor, finished, doomed, excused>>

\* Faulty: the lock is not looked at.
AnyHolder == lock \in Triggers \cup {NoTrigger}

LockFree == lock = NoTrigger

Trigger(t) ==
    /\ trigger[t] = "idle"
    /\ LockFree
    /\ lock' = t
    /\ trigger' = [trigger EXCEPT ![t] = "locked"]
    /\ UNCHANGED <<jobs, schedule>>

Release(t) ==
    /\ lock' = IF lock = t THEN NoTrigger ELSE lock
    /\ trigger' = [trigger EXCEPT ![t] = "idle"]

\* The newest scheduled artifact that has not failed is too young, or not.
ReadLast(t) ==
    /\ trigger[t] = "locked"
    /\ IF \E b \in Backups : row[b].recent /\ row[b].state # "failed"
       THEN Release(t)
       ELSE trigger' = [trigger EXCEPT ![t] = "asked"] /\ UNCHANGED lock
    /\ UNCHANGED <<jobs, schedule>>

ScheduledJobs == {b \in open : job[b].class = "scheduled"}

ReadActive(t) ==
    /\ trigger[t] = "asked"
    /\ IF ScheduledJobs # {} THEN Release(t)
       ELSE trigger' = [trigger EXCEPT ![t] = "due"] /\ UNCHANGED lock
    /\ UNCHANGED <<jobs, schedule>>

\* The row is inserted and its run is launched before the lock is given back.
Enqueue(t) ==
    /\ trigger[t] = "due"
    /\ \E b \in Backups :
          /\ job[b].pc = "none"
          /\ job' = [job EXCEPT ![b].pc = "queued", ![b].class = "scheduled"]
          /\ open' = open \cup {b} /\ cron' = cron \cup {b}
    /\ trigger' = [trigger EXCEPT ![t] = "launching"]
    /\ UNCHANGED <<lock, schedule>>

\* It returns, raises or dies.
EndTrigger(t) ==
    /\ trigger[t] # "idle"
    /\ Release(t)
    /\ UNCHANGED <<jobs, schedule>>

--------------------------------------------------------------------------------
(* Time.                                                                   *)

Age(b) ==
    /\ \/ row[b].state = "available" /\ ~row[b].due /\ row' = [row EXCEPT ![b].due = TRUE]
       \/ row[b].recent /\ row' = [row EXCEPT ![b].recent = FALSE]
    /\ UNCHANGED <<job, file, part, others, finished, doomed, excused>>

JobStep(b) ==
    \/ Submit(b) \/ EndQueued(b) \/ EndRow(b) \/ Begin(b) \/ Archive(b) \/ Hash(b)
    \/ Place(b) \/ Finalize(b) \/ Fail(b) \/ CleanUp(b) \/ Die(b) \/ Reconcile(b)

Retention(b) == Unlink(b) \/ MarkDeleted(b) \/ DeleteDies(b) \/ Take(b)

Schedule(t) ==
    \/ Trigger(t) \/ ReadLast(t) \/ ReadActive(t) \/ Enqueue(t) \/ EndTrigger(t)

Next ==
    \/ \E b \in Backups : JobStep(b) \/ Retention(b) \/ Age(b)
    \/ List \/ MarkExpired \/ MarkFails \/ JanitorDies
    \/ \E t \in Triggers : Schedule(t)

Spec == Init /\ [][Next]_vars

--------------------------------------------------------------------------------
(* Properties.                                                             *)

\* The state is well typed, and a pass of the janitor has something to do.
TypeOK ==
    /\ job \in [Backups -> Job]
    /\ open \subseteq Backups /\ cron \subseteq Backups
    /\ row \in [Backups -> Row]
    /\ file \in [Paths -> Held]
    /\ part \in [Paths -> Held]
    /\ op \in Held
    /\ janitor \in [pc : {"idle", "listed", "taken"}, todo : SUBSET Backups, at : Held]
    /\ janitor.pc = "listed" => janitor.todo # {}
    /\ trigger \in [Triggers -> {"idle", "locked", "asked", "due", "launching"}]
    /\ lock \in Triggers \cup {NoTrigger}
    /\ finished \subseteq Backups /\ doomed \subseteq Backups /\ excused \subseteq Backups

\* What can be restored: an available artifact has its own archive, and the
\* checksum of that one.  A name may be used again once its job is over, whatever
\* became of it; crashes and failures of other jobs take nothing away.
AvailableHasArchive ==
    \A b \in Available \ (doomed \cup excused) :
        file[row[b].path] = b /\ job[b].sum = b

\* The janitor expires nothing pinned, and as long as nobody else has interfered
\* the KeepMin newest archives stay, also through its crashes and while backups
\* finish during a pass.
MinimumKept ==
    /\ \A b \in doomed : job[b].class # "pinned"
    /\ excused = {} =>
          \A b \in doomed : Cardinality({c \in finished : row[c].made > row[b].made
                                          /\ row[c].state = "available"
                                          /\ file[row[c].path] = c}) >= KeepMin

\* Near-simultaneous and repeated calls of run-due do not both find a backup due: of
\* those that run-due has asked for one is queued or running at a time, although it is
\* asked for long before it has an artifact.  A backup that somebody else submits as a
\* scheduled one does not count, nor does a worker whose row has been ended.
OneScheduledAtATime == Cardinality(ScheduledJobs \cap cron) <= 1
================================================================================
