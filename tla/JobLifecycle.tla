---------------------------- MODULE JobLifecycle ----------------------------
(***************************************************************************)
(* What the control plane of the long-running jobs promises, without       *)
(* leases, launches, Dagster or a reconciler: a submitted job is claimed   *)
(* by at most one run, only the run that claimed it executes it, and it is *)
(* decided once.  It completes only after it was claimed.                  *)
(***************************************************************************)
CONSTANTS Job, Run, NoRun

VARIABLES
    phase,      \* [Job -> Phase]
    owner,      \* [Job -> Run \cup {NoRun}]: the run that claimed the job
    executors   \* [Job -> SUBSET Run]: the runs that ever executed it

vars == << phase, owner, executors >>

Verdicts == {"done", "failed", "cancelled"}

Init ==
    /\ phase = [j \in Job |-> "absent"]
    /\ owner = [j \in Job |-> NoRun]
    /\ executors = [j \in Job |-> {}]

Submit(j) ==
    /\ phase[j] = "absent"
    /\ phase' = [phase EXCEPT ![j] = "queued"]
    /\ UNCHANGED << owner, executors >>

Claim(j, r) ==
    /\ phase[j] = "queued"
    /\ phase' = [phase EXCEPT ![j] = "running"]
    /\ owner' = [owner EXCEPT ![j] = r]
    /\ executors' = [executors EXCEPT ![j] = @ \cup {r}]

(* An unclaimed job can only be given up. *)
Withdraw(j) ==
    /\ phase[j] = "queued"
    /\ \E v \in Verdicts \ {"done"} : phase' = [phase EXCEPT ![j] = v]
    /\ UNCHANGED << owner, executors >>

Decide(j) ==
    /\ phase[j] = "running"
    /\ \E v \in Verdicts : phase' = [phase EXCEPT ![j] = v]
    /\ UNCHANGED << owner, executors >>

Next ==
    \E j \in Job :
        \/ Submit(j) \/ Withdraw(j) \/ Decide(j)
        \/ \E r \in Run : Claim(j, r)

Spec == Init /\ [][Next]_vars
=============================================================================
