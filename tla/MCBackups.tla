------------------------------- MODULE MCBackups -------------------------------
(***************************************************************************)
(* The schedule on the one side and operators and the janitor on the other *)
(* share no state but the artifacts: an instance has a scope, which says   *)
(* which of the two the jobs run beside.  The ends of rows are read by     *)
(* nobody but the schedule.                                                *)
(***************************************************************************)
EXTENDS Backups, TLC

VARIABLE scope

Within ==
    IF scope = "schedule" THEN op' = NoBackup /\ janitor' = NoJanitor
    ELSE lock' = NoTrigger /\ (job' = job => open' = open)

MCInit == Init /\ scope \in {"schedule", "retention"}
MCNext == Next /\ UNCHANGED scope /\ Within
MCSpec == MCInit /\ [][MCNext]_<<vars, scope>>

\* Backups are interchangeable, and so are the calls of run-due.
Symmetry == Permutations(Backups) \cup Permutations(Triggers)
================================================================================
