------------------------------- MODULE Restores --------------------------------
(***************************************************************************)
(* Restores of a backup (run_restore_job of infra/backup.py) as the worker *)
(* runs them: a leaf that is watched through its row in load_jobs          *)
(* (load_job_bridge.py, infra/load_job_executor.py).                       *)
(*                                                                         *)
(* new_database fills an empty database and drops or renames it when it    *)
(* fails.  replace_current restores over the database that the application *)
(* and the worker are connected to: its tables are dropped, recreated and  *)
(* filled from the backup, load_jobs and ops among them, and the rows that *)
(* were written since the backup are put back one by one afterwards.       *)
(*                                                                         *)
(* Adoption by two runs, leases and the reconciler are left to LoadJobs.   *)
(***************************************************************************)
EXTENDS FiniteSets

CONSTANTS
    Jobs,      \* restore jobs
    Targets,   \* names of databases that a job may restore into
    Current    \* the database the application is connected to

VARIABLES
    row,        \* state of each job's row in load_jobs
    job,        \* the leaf of each job and the request it works for
    flag,       \* jobs whose cancel_event is set
    filled,     \* databases that are not empty
    tables,     \* load_jobs and ops of Current, while they are restored
    window,     \* the row of the active maintenance window is there
    log,        \* the restore_log artifact of each job
    candidates  \* jobs with a release, pending or active

vars == <<row, job, flag, filled, tables, window, log, candidates>>

--------------------------------------------------------------------------------
Modes == {"new_database", "replace_current"}

\* The steps between which a cancel or an error is noticed.
Watched == {"checked", "restoring", "restored", "rowback", "windowback", "filled",
            "validated"}

Init ==
    /\ row = [j \in Jobs |-> "none"]
    /\ job = [j \in Jobs |-> [pc |-> "none", mode |-> "new_database",
                              target |-> Current, owns |-> FALSE]]
    /\ flag = {}
    /\ filled = {Current}
    /\ tables = "present"
    /\ window = TRUE
    /\ log = [j \in Jobs |-> "none"]
    /\ candidates = {}

Goes(j, pc) == job' = [job EXCEPT ![j].pc = pc]

Replaces(j) == job[j].mode = "replace_current"

\* A statement of this job on its row finds it, and finds it its own.
Owned(j) == tables = "present" /\ row[j] = "running"

ops == <<tables, window, log, candidates>>

--------------------------------------------------------------------------------
(* The row.                                                                *)

Submit(j) ==
    /\ job[j].pc = "none" /\ tables = "present"
    /\ \E m \in Modes, t \in Targets \cup {Current} :
          job' = [job EXCEPT ![j] = [pc |-> "launched", mode |-> m, target |-> t,
                                     owns |-> FALSE]]
    /\ row' = [row EXCEPT ![j] = "queued"]
    /\ UNCHANGED <<flag, filled, ops>>

\* An admin cancels the job.
Cancel(j) ==
    /\ tables = "present" /\ row[j] \in {"queued", "running"}
    /\ row' = [row EXCEPT ![j] = "cancelled"]
    /\ UNCHANGED <<job, flag, filled, ops>>

Adopt(j) ==
    /\ job[j].pc = "launched" /\ tables = "present"
    /\ IF row[j] = "queued"
       THEN row' = [row EXCEPT ![j] = "running"] /\ Goes(j, "adopted")
       ELSE Goes(j, "over") /\ UNCHANGED row
    /\ UNCHANGED <<flag, filled, ops>>

\* The poll and the heartbeat of the bridge ask for a row that is running and this
\* run's; while there is no table they log a warning and ask again later.
Poll(j) ==
    /\ job[j].pc \in Watched \cup {"adopted"} /\ j \notin flag
    /\ tables = "present" /\ ~Owned(j)
    /\ flag' = flag \cup {j}
    /\ UNCHANGED <<row, job, filled, ops>>

--------------------------------------------------------------------------------
(* The leaf.                                                               *)

\* An empty target is the job's own from here on.
CheckNew(j) ==
    /\ job[j].pc = "adopted" /\ ~Replaces(j)
    /\ job[j].target # Current /\ job[j].target \notin filled
    /\ job' = [job EXCEPT ![j].pc = "checked", ![j].owns = TRUE]
    /\ log' = [log EXCEPT ![j] = "creating"]
    /\ UNCHANGED <<row, flag, filled, tables, window, candidates>>

\* The snapshots are taken: the row as it is, running.
CheckReplace(j) ==
    /\ job[j].pc = "adopted" /\ Replaces(j)
    /\ job[j].target = Current /\ window /\ Owned(j)
    /\ Goes(j, "checked")
    /\ log' = [log EXCEPT ![j] = "creating"]
    /\ UNCHANGED <<row, flag, filled, tables, window, candidates>>

\* Refused before there is a log: nothing to clean up.
Refuse(j) ==
    /\ job[j].pc = "adopted"
    /\ Goes(j, "failed")
    /\ UNCHANGED <<row, flag, filled, ops>>

\* pg_restore --clean --if-exists begins.
StartRestore(j) ==
    /\ job[j].pc = "checked" /\ j \notin flag /\ Owned(j)
    /\ Goes(j, "restoring")
    /\ IF Replaces(j)
       THEN /\ tables' = "dropped"
            /\ row' = [i \in Jobs |-> "none"]
            /\ log' = [i \in Jobs |-> "none"]
            /\ window' = FALSE
            /\ UNCHANGED <<filled, candidates>>
       ELSE /\ filled' = filled \cup {job[j].target}
            /\ UNCHANGED <<row, ops>>
    /\ UNCHANGED flag

\* The tables are there again, with what the backup has: none of these rows.
\* pg_restore goes on when the leaf that reads its output has raised.
Recreate ==
    /\ tables = "dropped"
    /\ tables' = "present"
    /\ UNCHANGED <<row, job, flag, filled, window, log, candidates>>

\* No line that pg_restore --verbose prints may fall into the gap.
EndRestore(j) ==
    /\ job[j].pc = "restoring" /\ j \notin flag
    /\ tables = "present" /\ job[j].target \in filled
    /\ Goes(j, IF Replaces(j) THEN "restored" ELSE "filled")
    /\ UNCHANGED <<row, flag, filled, ops>>

\* One transaction for each row that is put back, load_jobs first.
ReinsertRow(j) ==
    /\ job[j].pc = "restored" /\ tables = "present" /\ row[j] = "none"
    /\ row' = [row EXCEPT ![j] = "running"]
    /\ Goes(j, "rowback")
    /\ UNCHANGED <<flag, filled, ops>>

ReinsertWindow(j) ==
    /\ job[j].pc = "rowback" /\ tables = "present" /\ ~window
    /\ window' = TRUE
    /\ Goes(j, "windowback")
    /\ UNCHANGED <<row, flag, filled, tables, log, candidates>>

ReinsertLog(j) ==
    /\ job[j].pc = "windowback" /\ tables = "present"
    /\ log' = [log EXCEPT ![j] = "creating"]
    /\ Goes(j, "filled")
    /\ UNCHANGED <<row, flag, filled, tables, window, candidates>>

\* ANALYZE, the smoke test and the row counts; the log becomes available.
Validate(j) ==
    /\ job[j].pc = "filled" /\ Owned(j)
    /\ log[j] = "creating" /\ job[j].target \in filled
    /\ log' = [log EXCEPT ![j] = "available"]
    /\ Goes(j, "validated")
    /\ UNCHANGED <<row, flag, filled, tables, window, candidates>>

\* record_restore_candidate, and the last report.
Record(j) ==
    /\ job[j].pc = "validated" /\ Owned(j)
    /\ candidates' = candidates \cup {j}
    /\ Goes(j, "recorded")
    /\ UNCHANGED <<row, flag, filled, tables, window, log>>

Finish(j) ==
    /\ job[j].pc = "recorded" /\ Owned(j)
    /\ row' = [row EXCEPT ![j] = "done"]
    /\ Goes(j, "over")
    /\ UNCHANGED <<flag, filled, ops>>

\* An error of a step, or a report on a row that is not there or not its own.
Raise(j) ==
    /\ job[j].pc \in Watched \cup {"recorded"}
    /\ Goes(j, "raised")
    /\ UNCHANGED <<row, flag, filled, ops>>

\* A process that runs is terminated.
NoticeCancel(j) ==
    /\ job[j].pc \in {"checked", "restoring"} /\ j \in flag
    /\ Goes(j, "cancelling")
    /\ UNCHANGED <<row, flag, filled, ops>>

\* Best effort, and only for a target that was empty: it goes by its name.
CleanUp(j) ==
    /\ job[j].pc \in {"raised", "cancelling"}
    /\ log' = IF tables = "present" /\ log[j] # "none"
              THEN [log EXCEPT ![j] = "failed"] ELSE log
    /\ \E cleaned \in {{}, {job[j].target}} :
          filled' = IF job[j].owns THEN filled \ cleaned ELSE filled
    /\ Goes(j, IF job[j].pc = "raised" THEN "failed" ELSE "cancelled")
    /\ UNCHANGED <<row, flag, tables, window, candidates>>

\* mark_failed, mark_cancelled: a row that is not this run's is left alone.
Converge(j) ==
    /\ job[j].pc \in {"failed", "cancelled"}
    /\ row' = IF Owned(j) THEN [row EXCEPT ![j] = job[j].pc] ELSE row
    /\ Goes(j, "over")
    /\ UNCHANGED <<flag, filled, ops>>

--------------------------------------------------------------------------------
Next ==
    \/ \E j \in Jobs :
          \/ Submit(j) \/ Cancel(j) \/ Adopt(j) \/ Poll(j)
          \/ CheckNew(j) \/ CheckReplace(j) \/ Refuse(j)
          \/ StartRestore(j) \/ EndRestore(j)
          \/ ReinsertRow(j) \/ ReinsertWindow(j) \/ ReinsertLog(j)
          \/ Validate(j) \/ Record(j) \/ Finish(j)
          \/ Raise(j) \/ NoticeCancel(j) \/ CleanUp(j) \/ Converge(j)
    \/ Recreate

Spec == Init /\ [][Next]_vars

--------------------------------------------------------------------------------
(* Properties.                                                             *)

\* read_cancel_requested: a job is told to stop when its row has been converged to
\* cancelled, and for no other reason.
CancelledOnlyWhenAsked ==
    [][\A j \in Jobs : j \in flag' \ flag => row[j] = "cancelled"]_vars

\* A restore into a new database drops what it has filled itself and nothing else:
\* the database of a restore that has finished stays.
FinishedRestoreKept ==
    \A j \in Jobs :
        row[j] = "done" /\ ~Replaces(j) => job[j].target \in filled
================================================================================
