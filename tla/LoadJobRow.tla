----------------------------- MODULE LoadJobRow -----------------------------
(***************************************************************************)
(* One row of the load_jobs table and the single-row writers of            *)
(* infra/load_job_executor.py and infra/admin_repo.py.  Every writer is    *)
(* one UPDATE in a short transaction of its own, so it is a guard on the   *)
(* row (the WHERE clause) and the row it leaves (the SET clause).          *)
(*                                                                         *)
(* A row keeps what the WHERE clauses read: the state, the Dagster run     *)
(* that adopted it (orchestrator_run_id) and the absolute expiry of its    *)
(* lease.  progress, stage, log tail and timestamps other than the lease   *)
(* decide nothing and are left out.  executor is 'dagster' on every row:   *)
(* no code path inserts another executor any more.                         *)
(***************************************************************************)
EXTENDS Naturals

CONSTANTS
    Run,        \* Dagster run ids
    NoRun,      \* orchestrator_run_id IS NULL
    LeaseTTL    \* dagster_lease_ttl_seconds, in ticks of the clock

ASSUME RowAssumption ==
    /\ NoRun \notin Run
    /\ LeaseTTL \in Nat \ {0}

NoLease == 0                          \* lease_expires_at IS NULL

ActiveStates   == {"queued", "running"}
TerminalStates == {"done", "failed", "cancelled"}
RowStates      == {"absent"} \cup ActiveStates \cup TerminalStates

Row == [state : RowStates, run : Run \cup {NoRun}, lease : Nat]

AbsentRow == [state |-> "absent", run |-> NoRun, lease |-> NoLease]
QueuedRow == [state |-> "queued", run |-> NoRun, lease |-> NoLease]

----------------------------------------------------------------------------
(* Leases *)

LeaseExpiry(now) == now + LeaseTTL

IsLeaseValid(lease, now) == lease # NoLease /\ lease > now

----------------------------------------------------------------------------
(* Faulty forms of the definitions below, one for each property: a run of  *)
(* TLC with one of them in place must find that property violated.         *)

(* No owner predicate: any executor adopts an open row. *)
UnownedAdopt(row, r) == row.state \in ActiveStates

(* mark_done checks the run but not that the row is still running. *)
LateMarkDone(row, r) == row.run = r

(* Launch failure is written whether a run has adopted the row or not. *)
HastyLaunchFailed(row) == row.state \in ActiveStates

(* The cancel overwrites a row that has ended. *)
RevisingCancel(row) == row.state # "absent"

(* compare-and-set without the observed lease. *)
LeaselessCAS(row, obs) == row.state = "running" /\ row.run = obs.run

----------------------------------------------------------------------------
(* Writers of the executor.  Owns is the owner predicate that a            *)
(* LoadJobExecutor bound to a run adds to each of its WHERE clauses; the   *)
(* API's executor is bound to no run.                                      *)

Owns(row, r) == row.state = "running" /\ row.run = r

CanAdopt(row, r) == row.state = "queued" \/ Owns(row, r)

Adopted(row, r, expiry) ==
    [row EXCEPT !.state = "running", !.run = r, !.lease = expiry]

Renewed(row, expiry) == [row EXCEPT !.lease = expiry]

CanMarkDone(row, r) == row.state = "running" /\ Owns(row, r)

CanMarkTerminal(row, r) == row.state \in ActiveStates /\ Owns(row, r)

Ended(row, state) == [row EXCEPT !.state = state]

(* read_cancel_requested of an executor bound to a run: anything that      *)
(* ended its ownership asks the leaf to stop.                              *)
CancelRequested(row, r) == ~Owns(row, r)

(* mark_launch_failed: a launch error fails the row only while no run has  *)
(* adopted it.                                                             *)
CanMarkLaunchFailed(row) == row.state = "queued"

(* cancel_load_job: the admin cancel, for every row that has not ended.    *)
CanCancel(row) == row.state \in ActiveStates

(* reconcile_transition: compare-and-set on the ownership and the lease    *)
(* the reconciler observed before it asked Dagster about the run.          *)
StillAsObserved(row, obs) ==
    /\ row.state = "running"
    /\ row.run = obs.run
    /\ row.lease = obs.lease

----------------------------------------------------------------------------
(* The reconciler's table, reconcile_load_job *)

RunStates == {"success", "failed", "cancelled", "running", "unknown", "missing"}

Outcomes == {"keep_running", "converge_done", "converge_failed",
             "converge_cancelled", "flag_orphan", "noop"}

ReconcileOutcome(runState, jobState, leaseValid) ==
    IF jobState # "running"
    THEN IF jobState \in {"failed", "cancelled"} /\ runState = "running"
         THEN "flag_orphan" ELSE "noop"
    ELSE CASE runState \in {"unknown", "running"} -> "keep_running"
           [] runState = "success"   -> "converge_done"
           [] runState = "failed"    -> "converge_failed"
           [] runState = "cancelled" -> "converge_cancelled"
           [] runState = "missing"   ->
                IF leaseValid THEN "keep_running" ELSE "converge_failed"

(* The terminal state an outcome writes. *)
TargetState ==
    [o \in {"converge_done", "converge_failed", "converge_cancelled"} |->
        CASE o = "converge_done"      -> "done"
          [] o = "converge_failed"    -> "failed"
          [] o = "converge_cancelled" -> "cancelled"]

Converges(outcome) == outcome \in DOMAIN TargetState
=============================================================================
