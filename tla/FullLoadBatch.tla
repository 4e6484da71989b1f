--------------------------- MODULE FullLoadBatch ---------------------------
(***************************************************************************)
(* A full_load_batch: one root row and one row for each stage, driven by   *)
(* one Dagster run in loaders/batch_dag.py.  The source loads are inserted *)
(* with the root, the consistency check and the MV refresh when their turn *)
(* comes.  The rows are in the order of the stages: 0 is the root, 1 to    *)
(* NumSources are the sources, then come Consistency and Mv.  A batch that *)
(* resumes from the sources of another one has none of its own.            *)
(*                                                                         *)
(* The API that launches the batch, an admin who cancels any of its rows,  *)
(* the reconciler and the sweep of stale rebuilds write the same rows in   *)
(* transactions of their own.  Of the reconciler only the effect is kept   *)
(* that module LoadJobs shows it to have.  Time stands still: a lease may  *)
(* be found expired whenever the run record may be missing.                *)
(*                                                                         *)
(* An exception in the worker is its kind, in `exit', on the way out:      *)
(* "error" and "cancelled" end the root, "lost" (LoadJobLeaseLostError)    *)
(* writes nothing.                                                         *)
(***************************************************************************)
EXTENDS LoadJobRow

CONSTANTS
    NumSources,   \* how many source loads the batch has
    BatchRun      \* the Dagster run launched for it

ASSUME BatchAssumption ==
    /\ NumSources \in Nat
    /\ BatchRun \in Run

Root        == 0
Sources     == 1 .. NumSources
Consistency == NumSources + 1
Mv          == NumSources + 2
Stages      == 1 .. Mv
Nodes       == 0 .. Mv

VARIABLES
    rows,         \* [Nodes -> Row]
    api,          \* the request that launches the batch
    sent,         \* launchRun has been sent
    admin,        \* the admin's cancel request
    pc,           \* where the worker is
    stage,        \* the stage it is at
    exit,         \* the kind of exception that is propagating
    event,        \* the cancel event shared by the root and its children
    terminating,  \* Dagster has been asked to terminate the run
    severity,     \* the verdict of the consistency check
    forced,       \* forced_promotion
    serving       \* what is served: how far the publication got

vars == << rows, api, sent, admin, pc, stage, exit, event, terminating,
           severity, forced, serving >>

apiVars    == << api, sent >>
workerVars == << pc, stage, exit, event, severity, serving >>

ApiPC    == {"idle", "inserted", "launching", "launchError", "cleaning",
             "accepted", "rejected", "lost"}
Publication == {"swap", "parts", "release"}
InLeaf   == {"leaf"} \cup Publication
Exits    == {"none", "error", "cancelled", "lost"}
Over     == {"over", "dead"}
WorkerPC == {"idle", "adopt", "check", "insert", "announce", "claim", "childDone",
             "childFailed", "report", "clean", "unwind", "return"} \cup InLeaf \cup Over

Serving  == {"old", "swapped", "refreshed", "released"}
Severity == {"none", "OK", "ERROR"}

Init ==
    /\ rows = [n \in Nodes |-> AbsentRow]
    /\ api = "idle"
    /\ sent = FALSE
    /\ admin = [pc |-> "idle", node |-> Root]
    /\ pc = "idle"
    /\ stage = 1
    /\ exit = "none"
    /\ event = FALSE
    /\ terminating = FALSE
    /\ severity = "none"
    /\ forced \in (IF NumSources = 0 THEN {FALSE} ELSE BOOLEAN)
    /\ serving = "old"

SetRow(n, row) == rows' = [rows EXCEPT ![n] = row]

OwnsRow(n) == Owns(rows[n], BatchRun)

(* cancel_queued_batch_children *)
CancelQueuedChildren ==
    rows' = [n \in Nodes |-> IF n # Root /\ rows[n].state = "queued"
                             THEN Ended(rows[n], "cancelled") ELSE rows[n]]

----------------------------------------------------------------------------
(* The API: launch_full_load_batch_dagster_run *)

(* insert_load_batch: the root and its sources, in one transaction. *)
InsertBatch ==
    /\ api = "idle"
    /\ api' = "inserted"
    /\ rows' = [n \in Nodes |-> IF n \in {Root} \cup Sources THEN QueuedRow ELSE rows[n]]
    /\ UNCHANGED << sent, admin, workerVars, terminating, forced >>

SendLaunch ==
    /\ api = "inserted"
    /\ api' = "launching"
    /\ sent' = TRUE
    /\ UNCHANGED << rows, admin, workerVars, terminating, forced >>

(* The answer arrives, or an error in its place. *)
LaunchAnswered ==
    /\ api = "launching"
    /\ api' \in {"accepted", "launchError"}
    /\ UNCHANGED << rows, sent, admin, workerVars, terminating, forced >>

SettleLaunchError ==
    /\ api = "launchError"
    /\ IF CanMarkLaunchFailed(rows[Root])
       THEN SetRow(Root, Ended(rows[Root], "failed")) /\ api' = "cleaning"
       ELSE api' = "accepted" /\ UNCHANGED rows
    /\ UNCHANGED << sent, admin, workerVars, terminating, forced >>

(* In a transaction of its own, before the 502. *)
CleanRejected ==
    /\ api = "cleaning"
    /\ api' = "rejected"
    /\ CancelQueuedChildren
    /\ UNCHANGED << sent, admin, workerVars, terminating, forced >>

(* The process stops: the requests it was serving are lost. *)
ApiStops ==
    /\ api \in {"inserted", "launching", "launchError", "cleaning"} \/ admin.pc # "idle"
    /\ api' = IF api \in {"idle", "accepted", "rejected"} THEN api ELSE "lost"
    /\ admin' = [admin EXCEPT !.pc = "idle"]
    /\ UNCHANGED << rows, sent, workerVars, terminating, forced >>

----------------------------------------------------------------------------
(* The admin: cancel_load_job_converged, for the root or any other row *)

AdminCancel(n) ==
    /\ admin.pc = "idle"
    /\ rows[n].state # "absent"
    /\ admin' = [pc |-> "written", node |-> n]
    /\ IF CanCancel(rows[n]) THEN SetRow(n, Ended(rows[n], "cancelled"))
                             ELSE UNCHANGED rows
    /\ UNCHANGED << apiVars, workerVars, terminating, forced >>

(* The children of the row: only the root has any. *)
AdminClean ==
    /\ admin.pc = "written"
    /\ admin' = [admin EXCEPT !.pc = "cleaned"]
    /\ IF admin.node = Root THEN CancelQueuedChildren ELSE UNCHANGED rows
    /\ UNCHANGED << apiVars, workerVars, terminating, forced >>

(* terminateRun for the run that was read before the cancel, if there was  *)
(* one and the call gets through.                                          *)
AdminTerminate ==
    /\ admin.pc = "cleaned"
    /\ admin' = [admin EXCEPT !.pc = "idle"]
    /\ terminating' \in {terminating, terminating \/ rows[admin.node].run = BatchRun}
    /\ UNCHANGED << rows, apiVars, workerVars, forced >>

----------------------------------------------------------------------------
(* The worker: _run_full_load_batch under execute_load_job *)

Goto(p) == pc' = p /\ UNCHANGED exit

(* An exception leaves the DAG: nobody looks after the queued children ... *)
Leave(kind) == pc' = "unwind" /\ exit' = kind

(* Faulty: the loop goes on to the next stage after a source has failed. *)
TolerantRaise(kind) ==
    /\ pc' = IF stage = Mv THEN "unwind" ELSE IF stage = Consistency THEN "clean" ELSE "report"
    /\ exit' = kind

(* ... unless it comes out of _drive_child for a source or the consistency *)
(* check, where _cancel_queued_children comes first.                       *)
Raise(kind) ==
    /\ pc' = IF stage = Mv THEN "unwind" ELSE "clean"
    /\ exit' = kind

(* An exception in the leaf of a child is written to the child first. *)
FailChild(kind) == pc' = "childFailed" /\ exit' = kind

StartRun ==
    /\ sent
    /\ pc = "idle"
    /\ Goto(IF terminating THEN "over" ELSE "adopt")
    /\ UNCHANGED << rows, apiVars, admin, stage, event, severity, serving, terminating, forced >>

AdoptRoot ==
    /\ pc = "adopt"
    /\ IF CanAdopt(rows[Root], BatchRun)
       THEN SetRow(Root, Adopted(rows[Root], BatchRun, LeaseTTL)) /\ Goto("check")
       ELSE Goto("over") /\ UNCHANGED rows
    /\ UNCHANGED << apiVars, admin, stage, event, severity, serving, terminating, forced >>

(* Faulty: any report opens the gate. *)
PermissiveGate == forced \/ severity # "none"

GateOpen == forced \/ severity # "ERROR"

(* Before each stage: the promotion gate, then the cancel event. *)
Check ==
    /\ pc = "check"
    /\ IF stage = Mv /\ ~GateOpen THEN Leave("error")
       ELSE IF event THEN Leave("cancelled")
       ELSE Goto(IF stage \in Sources THEN "claim" ELSE "insert")
    /\ UNCHANGED << rows, apiVars, admin, stage, event, severity, serving, terminating, forced >>

(* The row of the consistency check or of the MV refresh. *)
InsertChild ==
    /\ pc = "insert"
    /\ SetRow(stage, QueuedRow)
    /\ Goto("announce")
    /\ UNCHANGED << apiVars, admin, stage, event, severity, serving, terminating, forced >>

(* A progress report on the root, before or after a stage. *)
Announce ==
    /\ pc = "announce"
    /\ IF OwnsRow(Root) THEN Goto("claim") ELSE Leave("lost")
    /\ UNCHANGED << rows, apiVars, admin, stage, event, severity, serving, terminating, forced >>

Report ==
    /\ pc = "report"
    /\ IF OwnsRow(Root)
       THEN /\ Goto(IF stage = Mv THEN "return" ELSE "check")
            /\ stage' = IF stage = Mv THEN stage ELSE stage + 1
       ELSE Leave("lost") /\ UNCHANGED stage
    /\ UNCHANGED << rows, apiVars, admin, event, severity, serving, terminating, forced >>

ClaimChild ==
    /\ pc = "claim"
    /\ IF CanAdopt(rows[stage], BatchRun)
       THEN SetRow(stage, Adopted(rows[stage], BatchRun, LeaseTTL)) /\ Goto("leaf")
       ELSE Raise("error") /\ UNCHANGED rows
    /\ UNCHANGED << apiVars, admin, stage, event, severity, serving, terminating, forced >>

LoadSource ==
    /\ pc = "leaf"
    /\ stage \in Sources
    /\ Goto("childDone")
    /\ UNCHANGED << rows, apiVars, admin, stage, event, severity, serving, terminating, forced >>

CheckConsistency ==
    /\ pc = "leaf"
    /\ stage = Consistency
    /\ severity' \in {"OK", "ERROR"}
    /\ Goto("childDone")
    /\ UNCHANGED << rows, apiVars, admin, stage, event, serving, terminating, forced >>

(* run_mv_refresh looks at the gate and at the event again. *)
PrepareMv ==
    /\ pc = "leaf"
    /\ stage = Mv
    /\ IF ~GateOpen THEN FailChild("error")
       ELSE IF event THEN FailChild("lost") ELSE Goto("swap")
    /\ UNCHANGED << rows, apiVars, admin, stage, event, severity, serving, terminating, forced >>

(* Faulty: only the row of the refresh is looked at. *)
ChildGuard == ~event /\ OwnsRow(Mv)

(* load_job_publication_guard: locks both rows until the commit. *)
GuardHolds == ~event /\ OwnsRow(Root) /\ OwnsRow(Mv)

(* shadow_swap_mv, refresh_region_radius_parts, record_mv_refresh_release: *)
(* one transaction each, with the guard inside.                            *)
Publish(step, next, result) ==
    /\ pc = step
    /\ IF GuardHolds THEN serving' = result /\ Goto(next)
                     ELSE FailChild("lost") /\ UNCHANGED serving
    /\ UNCHANGED << rows, apiVars, admin, stage, event, severity, terminating, forced >>

SwapMv        == Publish("swap", "parts", "swapped")
RefreshParts  == Publish("parts", "release", "refreshed")
RecordRelease == Publish("release", "childDone", "released")

(* A leaf that sees the event, or whose progress report finds the child    *)
(* lost.  The consistency check does not look at the event.                *)
LeafStops ==
    /\ pc \in InLeaf
    /\ \/ event /\ stage \in Sources /\ FailChild("cancelled")
       \/ event /\ stage # Consistency /\ FailChild("lost")
       \/ ~OwnsRow(stage) /\ FailChild("lost")
    /\ UNCHANGED << rows, apiVars, admin, stage, event, severity, serving, terminating, forced >>

(* Faulty: a child that was taken away counts as done. *)
QuietChildDone ==
    /\ pc = "childDone"
    /\ IF CanMarkDone(rows[stage], BatchRun)
       THEN SetRow(stage, Ended(rows[stage], "done")) ELSE UNCHANGED rows
    /\ Goto(IF stage = Consistency THEN "check" ELSE "report")
    /\ stage' = IF stage = Consistency THEN Mv ELSE stage
    /\ UNCHANGED << apiVars, admin, event, severity, serving, terminating, forced >>

(* mark_done of the child; then the sources and the refresh report.        *)
ChildDone ==
    /\ pc = "childDone"
    /\ IF CanMarkDone(rows[stage], BatchRun)
       THEN /\ SetRow(stage, Ended(rows[stage], "done"))
            /\ Goto(IF stage = Consistency THEN "check" ELSE "report")
            /\ stage' = IF stage = Consistency THEN Mv ELSE stage
       ELSE Raise("lost") /\ UNCHANGED << rows, stage >>
    /\ UNCHANGED << apiVars, admin, event, severity, serving, terminating, forced >>

(* mark_failed or mark_cancelled of the child, and the exception goes on. *)
ChildFailed ==
    /\ pc = "childFailed"
    /\ IF CanMarkTerminal(rows[stage], BatchRun)
       THEN SetRow(stage, Ended(rows[stage], IF exit = "cancelled" THEN "cancelled" ELSE "failed"))
       ELSE UNCHANGED rows
    /\ Raise(exit)
    /\ UNCHANGED << apiVars, admin, stage, event, severity, serving, terminating, forced >>

Clean ==
    /\ pc = "clean"
    /\ CancelQueuedChildren
    /\ Leave(exit)
    /\ UNCHANGED << apiVars, admin, stage, event, severity, serving, terminating, forced >>

(* The bridge ends the root. *)
Unwind ==
    /\ pc = "unwind"
    /\ IF exit # "lost" /\ CanMarkTerminal(rows[Root], BatchRun)
       THEN SetRow(Root, Ended(rows[Root], IF exit = "cancelled" THEN "cancelled" ELSE "failed"))
       ELSE UNCHANGED rows
    /\ Goto("over")
    /\ UNCHANGED << apiVars, admin, stage, event, severity, serving, terminating, forced >>

Return ==
    /\ pc = "return"
    /\ IF CanMarkDone(rows[Root], BatchRun) THEN SetRow(Root, Ended(rows[Root], "done"))
                                            ELSE UNCHANGED rows
    /\ Goto("over")
    /\ UNCHANGED << apiVars, admin, stage, event, severity, serving, terminating, forced >>

(* The cancel poll and the heartbeats of the root and of the child.        *)
NoticeLoss ==
    /\ pc \notin {"idle", "adopt"} \cup Over
    /\ \/ ~OwnsRow(Root)
       \/ pc \in InLeaf \cup {"childDone", "childFailed"} /\ ~OwnsRow(stage)
    /\ event' = TRUE
    /\ UNCHANGED << rows, apiVars, admin, pc, stage, exit, severity, serving, terminating, forced >>

(* Where the worker awaits something, an exception may come out of it.     *)
Break(kind) ==
    \/ pc \in {"adopt", "unwind", "return"} /\ Goto("over")
    \/ pc \in {"insert", "announce", "report", "clean"} /\ Leave(kind)
    \/ pc \in {"claim", "childDone", "childFailed"} /\ Raise(kind)
    \/ pc \in InLeaf /\ FailChild(kind)

(* A write is refused, a loader finds bad data. *)
Fails ==
    /\ Break("error")
    /\ UNCHANGED << rows, apiVars, admin, stage, event, severity, serving, terminating, forced >>

Interrupt ==
    /\ terminating
    /\ Break("cancelled")
    /\ UNCHANGED << rows, apiVars, admin, stage, event, severity, serving, terminating, forced >>

Crash ==
    /\ pc \notin {"idle"} \cup Over
    /\ Goto("dead")
    /\ UNCHANGED << rows, apiVars, admin, stage, event, severity, serving, terminating, forced >>

----------------------------------------------------------------------------
(* The reconciler and the stale sweep *)

(* Faulty: the children are left to their root. *)
RootScanned(n) == n = Root /\ rows[n].state = "running"

Scanned(n) == rows[n].state = "running"

(* The run is over, as a failure or a cancel. *)
Converge(n) ==
    /\ Scanned(n)
    /\ pc \in Over
    /\ \E s \in {"failed", "cancelled"} : SetRow(n, Ended(rows[n], s))
    /\ UNCHANGED << apiVars, admin, workerVars, terminating, forced >>

(* The run record is missing and the lease has expired, worker or not. *)
Evict(n) ==
    /\ Scanned(n)
    /\ SetRow(n, Ended(rows[n], "failed"))
    /\ UNCHANGED << apiVars, admin, workerVars, terminating, forced >>

(* A live run behind a row that ended is terminated. *)
FlagOrphan(n) ==
    /\ rows[n].state \in {"failed", "cancelled"}
    /\ rows[n].run = BatchRun
    /\ pc \notin Over
    /\ terminating' = TRUE
    /\ UNCHANGED << rows, apiVars, admin, workerVars, forced >>

(* _sweep_stale_jobs: a running root without a heartbeat, and everything   *)
(* open below it, fails.                                                   *)
SweepStale ==
    /\ rows[Root].state = "running"
    /\ rows' = [n \in Nodes |-> IF rows[n].state \in ActiveStates
                                THEN Ended(rows[n], "failed") ELSE rows[n]]
    /\ UNCHANGED << apiVars, admin, workerVars, terminating, forced >>

----------------------------------------------------------------------------
ApiNext == InsertBatch \/ SendLaunch \/ LaunchAnswered \/ SettleLaunchError
           \/ CleanRejected \/ ApiStops

AdminNext == (\E n \in Nodes : AdminCancel(n)) \/ AdminClean \/ AdminTerminate

StageNext == Check \/ InsertChild \/ Announce \/ Report \/ ClaimChild \/ LoadSource
             \/ CheckConsistency \/ PrepareMv \/ SwapMv \/ RefreshParts \/ RecordRelease
             \/ LeafStops \/ ChildDone \/ ChildFailed

EndNext == Clean \/ Unwind \/ Return \/ Fails \/ Interrupt \/ Crash

WorkerNext == StartRun \/ AdoptRoot \/ StageNext \/ EndNext \/ NoticeLoss

ReconcilerNext ==
    \/ \E n \in Nodes : Converge(n) \/ Evict(n) \/ FlagOrphan(n)
    \/ SweepStale

Next == ApiNext \/ AdminNext \/ WorkerNext \/ ReconcilerNext

Spec == Init /\ [][Next]_vars

(* The reconciler runs on a timer and, by LoadJobs, in the end converges   *)
(* each running row whose run is over.  A handler or a worker that has     *)
(* begun to end something goes on.                                         *)
Fairness ==
    /\ \A n \in Nodes : WF_vars(Converge(n))
    /\ WF_vars(SettleLaunchError) /\ WF_vars(CleanRejected)
    /\ WF_vars(AdminClean) /\ WF_vars(AdminTerminate)
    /\ WF_vars(Clean) /\ WF_vars(Unwind)

FairSpec == Spec /\ Fairness

----------------------------------------------------------------------------
(* Properties *)

TypeOK ==
    /\ rows \in [Nodes -> Row]
    /\ api \in ApiPC
    /\ sent \in BOOLEAN
    /\ admin \in [pc : {"idle", "written", "cleaned"}, node : Nodes]
    /\ pc \in WorkerPC
    /\ stage \in Stages
    /\ exit \in Exits
    /\ event \in BOOLEAN
    /\ terminating \in BOOLEAN
    /\ severity \in Severity
    /\ forced \in BOOLEAN
    /\ serving \in Serving

(* The stages go one after the other: while a stage is running, and once   *)
(* it is done, every stage before it is done, whoever else writes the rows *)
(* and whichever exception was on its way.                                 *)
InOrder ==
    \A k \in Stages : rows[k].state \in {"running", "done"} =>
        \A j \in 1 .. (k - 1) : rows[j].state = "done"

(* Nothing is published that was not loaded and vetted: from the swap on,  *)
(* every source and the consistency check are done, and the check found no *)
(* ERROR or the promotion was forced.                                      *)
PublishedIsVetted ==
    serving # "old" =>
        /\ \A k \in Sources \cup {Consistency} : rows[k].state = "done"
        /\ severity = "OK" \/ (severity = "ERROR" /\ forced)

(* The root of a batch is done only when every row of it is. *)
DoneBatchIsWhole ==
    rows[Root].state = "done" => \A k \in Stages : rows[k].state = "done"

(* Publication goes step by step and only while the root is running: no    *)
(* cancel, eviction or sweep of the root is followed by a swap, a refresh  *)
(* of the region parts or a release; and a done root has a release.        *)
Publications == INSTANCE BatchPublication WITH phase <- rows[Root].state

ImplementsPublication == Publications!Spec

(* When the process of the batch is gone none of its rows stays running,   *)
(* the children's no more than the root's.                                 *)
RunningRowsEnd == (pc \in Over) ~> (\A n \in Nodes : rows[n].state # "running")

(* "so a failed batch never leaves child rows no worker will ever claim",  *)
(* as cancel_queued_batch_children in infra/admin_repo.py has it.          *)
NoStrandedChildren ==
    (rows[Root].state \in {"failed", "cancelled"} /\ pc \in Over)
        ~> (\A n \in Nodes : rows[n].state # "queued")
=============================================================================
