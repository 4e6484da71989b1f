------------------------------ MODULE LoadJobs ------------------------------
(***************************************************************************)
(* The control plane of the long-running jobs (backup, restore, loaders,   *)
(* MV refresh, rebuild): the API inserts a load_jobs row and launches a    *)
(* Dagster run, the run's worker adopts the row and drives it, the admin   *)
(* may cancel it, and the API's reconciler converges rows whose run is     *)
(* gone and runs whose row has ended.                                      *)
(*                                                                         *)
(* Each action is one transaction, one RPC outcome or one step of a        *)
(* process outside the database, so every interleaving of the API, the     *)
(* workers, Dagster and the reconciler is a behaviour.  Time is the clock  *)
(* `now`; leases are absolute expiries.                                    *)
(*                                                                         *)
(* Dagster itself (the run store, the process that hosts a run, its        *)
(* operator console) is external: it is modelled from what the client in   *)
(* api/_dagster_client.py and the bridge in load_job_bridge.py rely on.    *)
(***************************************************************************)
EXTENDS LoadJobRow, FiniteSets

CONSTANTS
    Job,          \* job ids
    NoJob,        \* a run that was not created yet
    MaxTime,      \* bound: leases are renewed before this time only
    MaxRestart    \* bound: how often the API process restarts

ASSUME LoadJobsAssumption ==
    /\ NoJob \notin Job
    /\ MaxTime \in Nat
    /\ MaxRestart \in Nat

VARIABLES
    now,          \* the database and process clocks (UTC), in ticks
    rows,         \* [Job -> Row]: the load_jobs table
    api,          \* [Job -> ApiPC]: the request that launches the job
    requests,     \* launchRun requests that have reached the network
    cancel,       \* [Job -> CancelReq]: the admin cancel request of the job
    runJob,       \* [Run -> Job \cup {NoJob}]: the job a run was created for
    status,       \* [Run -> Status]: Dagster's run store
    worker,       \* [Run -> WorkerPC]: the process executing the run's op
    cancelEvent,  \* runs whose leaf has been asked to stop
    ran,          \* history: runs that adopted their row and entered the leaf
    rec,          \* the reconciler: page, row in hand and decision
    restarts      \* how often the API process has restarted

vars == << now, rows, api, requests, cancel, runJob, status, worker,
           cancelEvent, ran, rec, restarts >>

apiVars     == << api, requests >>
dagsterVars == << runJob, status >>
workerVars  == << worker, cancelEvent, ran >>

----------------------------------------------------------------------------
(* Types *)

ApiPC == {"idle", "inserted", "launching", "launchError", "accepted",
          "rejected", "lost"}

CancelReq == [pc : {"idle", "read", "written", "closed"}, run : Run \cup {NoRun}]

LiveStatus  == {"queued", "started", "canceling"}
FinalStatus == {"success", "failure", "canceled"}
Status      == {"none", "purged"} \cup LiveStatus \cup FinalStatus

(* "completing", "failing", "cancelling": the leaf returned, raised, or    *)
(* was cancelled, and the bridge has still to write the row.  A final      *)
(* status: the op ended that way, whether Dagster has recorded it or not.  *)
InOp     == {"leaf", "completing", "failing", "cancelling"}
Over     == {"dead"} \cup FinalStatus
WorkerPC == {"idle", "adopting"} \cup InOp \cup Over

Observation == [job : Job, state : RowStates, run : Run \cup {NoRun},
                lease : Nat, valid : BOOLEAN]

(* item is the row in hand, with the outcome decided for it: empty or a    *)
(* singleton.                                                              *)
Decision   == [obs : Observation, outcome : Outcomes]
Reconciler == [scanTerminal : BOOLEAN, page : SUBSET Observation,
               item : SUBSET Decision]

RecInit == [scanTerminal |-> FALSE, page |-> {}, item |-> {}]

Init ==
    /\ now = 1
    /\ rows = [j \in Job |-> AbsentRow]
    /\ api = [j \in Job |-> "idle"]
    /\ requests = {}
    /\ cancel = [j \in Job |-> [pc |-> "idle", run |-> NoRun]]
    /\ runJob = [r \in Run |-> NoJob]
    /\ status = [r \in Run |-> "none"]
    /\ worker = [r \in Run |-> "idle"]
    /\ cancelEvent = {}
    /\ ran = {}
    /\ rec = RecInit
    /\ restarts = 0

SetRow(j, row) == rows' = [rows EXCEPT ![j] = row]

----------------------------------------------------------------------------
(* The API: _launch_control_job *)

InsertJob(j) ==
    /\ api[j] = "idle"
    /\ SetRow(j, QueuedRow)
    /\ api' = [api EXCEPT ![j] = "inserted"]
    /\ UNCHANGED << now, requests, cancel, dagsterVars, workerVars, rec, restarts >>

(* launchRun is sent; nothing is known of its effect until it answers. *)
SendLaunch(j) ==
    /\ api[j] = "inserted"
    /\ api' = [api EXCEPT ![j] = "launching"]
    /\ requests' = requests \cup {j}
    /\ UNCHANGED << now, rows, cancel, dagsterVars, workerVars, rec, restarts >>

(* LaunchRunSuccess arrives: the run exists. *)
LaunchAnswered(j) ==
    /\ api[j] = "launching"
    /\ \E r \in Run : runJob[r] = j
    /\ api' = [api EXCEPT ![j] = "accepted"]
    /\ UNCHANGED << now, rows, requests, cancel, dagsterVars, workerVars, rec, restarts >>

(* A timeout, a transport error or a refusal.  The request may still be on *)
(* its way, and Dagster may have created the run.                          *)
LaunchFails(j) ==
    /\ api[j] = "launching"
    /\ api' = [api EXCEPT ![j] = "launchError"]
    /\ UNCHANGED << now, rows, requests, cancel, dagsterVars, workerVars, rec, restarts >>

(* mark_launch_failed, and the 502 when it did fail the row; otherwise a   *)
(* run owns the row (or the row has ended) and the job id is returned.     *)
SettleLaunchError(j) ==
    /\ api[j] = "launchError"
    /\ IF CanMarkLaunchFailed(rows[j])
       THEN /\ SetRow(j, Ended(rows[j], "failed"))
            /\ api' = [api EXCEPT ![j] = "rejected"]
       ELSE /\ api' = [api EXCEPT ![j] = "accepted"]
            /\ UNCHANGED rows
    /\ UNCHANGED << now, requests, cancel, dagsterVars, workerVars, rec, restarts >>

----------------------------------------------------------------------------
(* The API: cancel_load_job_converged *)

(* _executor_ref: the run id is read in a transaction before the cancel. *)
CancelRead(j) ==
    /\ cancel[j].pc = "idle"
    /\ rows[j].state # "absent"
    /\ cancel' = [cancel EXCEPT ![j] = [pc |-> "read", run |-> rows[j].run]]
    /\ UNCHANGED << now, rows, apiVars, dagsterVars, workerVars, rec, restarts >>

CancelWrite(j) ==
    /\ cancel[j].pc = "read"
    /\ IF CanCancel(rows[j]) THEN SetRow(j, Ended(rows[j], "cancelled"))
                             ELSE UNCHANGED rows
    /\ cancel' = [cancel EXCEPT ![j].pc = "written"]
    /\ UNCHANGED << now, apiVars, dagsterVars, workerVars, rec, restarts >>

(* Dagster's run status after terminateRun reached it. *)
Terminated(s) == CASE s = "queued"  -> "canceled"
                   [] s = "started" -> "canceling"
                   [] OTHER         -> s

TerminateRun(r) ==
    status' = IF r = NoRun THEN status
              ELSE [status EXCEPT ![r] = Terminated(@)]

(* The termination hook: it does nothing without a run id, and a failure   *)
(* of the RPC is logged and forgotten.                                     *)
CancelPropagate(j) ==
    /\ cancel[j].pc = "written"
    /\ cancel' = [cancel EXCEPT ![j].pc = "closed"]
    /\ TerminateRun(cancel[j].run) \/ UNCHANGED status
    /\ UNCHANGED << now, rows, apiVars, runJob, workerVars, rec, restarts >>

----------------------------------------------------------------------------
(* Dagster (external): the run store and its operators *)

CreateRun(j, r) ==
    /\ runJob[r] = NoJob
    /\ runJob' = [runJob EXCEPT ![r] = j]
    /\ status' = [status EXCEPT ![r] = "queued"]

AcceptLaunch(j, r) ==
    /\ j \in requests
    /\ CreateRun(j, r)
    /\ requests' = requests \ {j}
    /\ UNCHANGED << now, rows, api, cancel, workerVars, rec, restarts >>

(* The request is refused, or it never arrives. *)
DropLaunch(j) ==
    /\ j \in requests
    /\ requests' = requests \ {j}
    /\ UNCHANGED << now, rows, api, cancel, dagsterVars, workerVars, rec, restarts >>

(* An operator re-executes a run from the Dagster console: another run     *)
(* with the same op config, that is for the same job.                      *)
Reexecute(j, r) ==
    /\ \E q \in Run : runJob[q] = j
    /\ CreateRun(j, r)
    /\ UNCHANGED << now, rows, apiVars, cancel, workerVars, rec, restarts >>

(* The console's terminate, or max_runtime. *)
OperatorTerminate(r) ==
    /\ status[r] \in {"queued", "started"}
    /\ TerminateRun(r)
    /\ UNCHANGED << now, rows, apiVars, cancel, runJob, workerVars, rec, restarts >>

(* The run record disappears: history purged or storage rebuilt. *)
PurgeRun(r) ==
    /\ status[r] \in LiveStatus \cup FinalStatus
    /\ status' = [status EXCEPT ![r] = "purged"]
    /\ UNCHANGED << now, rows, apiVars, cancel, runJob, workerVars, rec, restarts >>

StartRun(r) ==
    /\ status[r] = "queued"
    /\ status' = [status EXCEPT ![r] = "started"]
    /\ worker' = [worker EXCEPT ![r] = "adopting"]
    /\ UNCHANGED << now, rows, apiVars, cancel, runJob, cancelEvent, ran, rec, restarts >>

(* Dagster records how the op ended.  A cancelled op is recorded as        *)
(* canceled or as a failure.                                               *)
RecordEnd(r) ==
    /\ worker[r] \in FinalStatus
    /\ status[r] \in LiveStatus
    /\ \E s \in {worker[r]} \cup {x \in {"failure"} : worker[r] = "canceled"} :
          status' = [status EXCEPT ![r] = s]
    /\ UNCHANGED << now, rows, apiVars, cancel, runJob, workerVars, rec, restarts >>

(* Run monitoring finds that the process of a run has died. *)
RecordDeath(r) ==
    /\ worker[r] = "dead"
    /\ status[r] \in LiveStatus
    /\ status' = [status EXCEPT ![r] = IF @ = "canceling" THEN "canceled" ELSE "failure"]
    /\ UNCHANGED << now, rows, apiVars, cancel, runJob, workerVars, rec, restarts >>

----------------------------------------------------------------------------
(* The worker: execute_load_job.  RowOf(r) is the row its op was given.  *)

RowOf(r) == rows[runJob[r]]

BecomeWorker(r, pc) == worker' = [worker EXCEPT ![r] = pc]

Adopt(r) ==
    /\ worker[r] = "adopting"
    /\ CanAdopt(RowOf(r), r)
    /\ SetRow(runJob[r], Adopted(RowOf(r), r, LeaseExpiry(now)))
    /\ BecomeWorker(r, "leaf")
    /\ ran' = ran \cup {r}
    /\ UNCHANGED << now, apiVars, cancel, dagsterVars, cancelEvent, rec, restarts >>

(* LoadJobAdoptionError: the op fails before the leaf is entered. *)
AdoptRejected(r) ==
    /\ worker[r] = "adopting"
    /\ ~CanAdopt(RowOf(r), r)
    /\ BecomeWorker(r, "failure")
    /\ UNCHANGED << now, rows, apiVars, cancel, dagsterVars, cancelEvent, ran, rec, restarts >>

(* renew_lease, from the progress reporter of the leaf or from the         *)
(* heartbeat task, which lives until the terminal write is over.           *)
RenewLease(r) ==
    /\ worker[r] \in InOp
    /\ Owns(RowOf(r), r)
    /\ now < MaxTime
    /\ SetRow(runJob[r], Renewed(RowOf(r), LeaseExpiry(now)))
    /\ UNCHANGED << now, apiVars, cancel, dagsterVars, workerVars, rec, restarts >>

(* The heartbeat finds the ownership lost, or the cancel poll finds the    *)
(* row no longer running under this run.                                   *)
NoticeLoss(r) ==
    /\ worker[r] \in InOp
    /\ CancelRequested(RowOf(r), r)
    /\ cancelEvent' = cancelEvent \cup {r}
    /\ UNCHANGED << now, rows, apiVars, cancel, dagsterVars, worker, ran, rec, restarts >>

(* LoadJobLeaseLostError out of a progress report: the op fails and writes *)
(* nothing.                                                                *)
LeaseLost(r) ==
    /\ worker[r] = "leaf"
    /\ ~Owns(RowOf(r), r)
    /\ BecomeWorker(r, "failure")
    /\ cancelEvent' = cancelEvent \cup {r}
    /\ UNCHANGED << now, rows, apiVars, cancel, dagsterVars, ran, rec, restarts >>

(* The leaf ends by itself.  It may return although it was asked to stop:  *)
(* it only polls the event between its steps.                              *)
LeafEnds(r) ==
    /\ worker[r] = "leaf"
    /\ \E pc \in {"completing", "failing"} : BecomeWorker(r, pc)
    /\ UNCHANGED << now, rows, apiVars, cancel, dagsterVars, cancelEvent, ran, rec, restarts >>

(* The leaf sees the cancel event: some leaves raise CancelledError, some  *)
(* LoadJobLeaseLostError, some an error of their own.                      *)
LeafStops(r) ==
    /\ worker[r] = "leaf"
    /\ r \in cancelEvent
    /\ \E pc \in {"cancelling", "failing", "failure"} : BecomeWorker(r, pc)
    /\ UNCHANGED << now, rows, apiVars, cancel, dagsterVars, cancelEvent, ran, rec, restarts >>

(* Dagster interrupts the process of a run it is canceling.  Only an       *)
(* interruption of the leaf is turned into mark_cancelled; one of adopt or *)
(* of a terminal write leaves the op with the row as it was.               *)
Interrupt(r) ==
    /\ status[r] = "canceling"
    /\ worker[r] \in {"adopting", "leaf", "completing", "failing"}
    /\ BecomeWorker(r, IF worker[r] = "leaf" THEN "cancelling" ELSE "canceled")
    /\ UNCHANGED << now, rows, apiVars, cancel, dagsterVars, cancelEvent, ran, rec, restarts >>

(* mark_done; it raises out of the op when the ownership is lost. *)
MarkDone(r) ==
    /\ worker[r] = "completing"
    /\ IF CanMarkDone(RowOf(r), r)
       THEN /\ SetRow(runJob[r], Ended(RowOf(r), "done"))
            /\ BecomeWorker(r, "success")
       ELSE /\ BecomeWorker(r, "failure")
            /\ UNCHANGED rows
    /\ UNCHANGED << now, apiVars, cancel, dagsterVars, cancelEvent, ran, rec, restarts >>

(* mark_failed and mark_cancelled; neither complains when the row is not   *)
(* the run's any more.                                                     *)
MarkEnded(r, pc, state, final) ==
    /\ worker[r] = pc
    /\ IF CanMarkTerminal(RowOf(r), r)
       THEN SetRow(runJob[r], Ended(RowOf(r), state))
       ELSE UNCHANGED rows
    /\ BecomeWorker(r, final)
    /\ UNCHANGED << now, apiVars, cancel, dagsterVars, cancelEvent, ran, rec, restarts >>

MarkFailed(r)    == MarkEnded(r, "failing", "failed", "failure")
MarkCancelled(r) == MarkEnded(r, "cancelling", "cancelled", "canceled")

(* The database refuses a write (lock_timeout, statement_timeout, lost     *)
(* connection): the op fails and the row stays.                            *)
WriteFails(r) ==
    /\ worker[r] \in {"adopting", "completing", "failing", "cancelling"}
    /\ BecomeWorker(r, "failure")
    /\ UNCHANGED << now, rows, apiVars, cancel, dagsterVars, cancelEvent, ran, rec, restarts >>

Crash(r) ==
    /\ worker[r] \in {"adopting"} \cup InOp
    /\ BecomeWorker(r, "dead")
    /\ UNCHANGED << now, rows, apiVars, cancel, dagsterVars, cancelEvent, ran, rec, restarts >>

----------------------------------------------------------------------------
(* The reconciler: DagsterJobReconciler *)

Observed(j) == [job |-> j, state |-> rows[j].state, run |-> rows[j].run,
                lease |-> rows[j].lease,
                valid |-> IsLeaseValid(rows[j].lease, now)]

(* Faulty: the terminal pages leave out the cancelled rows. *)
FailedOnlyScan(scanTerminal) ==
    {j \in Job : rows[j].state = IF scanTerminal THEN "failed" ELSE "running"}

(* _reconcile_rows: running rows on one tick, ended rows that have a run   *)
(* on the next.                                                            *)
Scanned(scanTerminal) ==
    IF scanTerminal
    THEN {j \in Job : rows[j].state \in {"failed", "cancelled"} /\ rows[j].run # NoRun}
    ELSE {j \in Job : rows[j].state = "running"}

RecIdle == rec.page = {} /\ rec.item = {}

(* The rest of the page: when nothing is left the tick is over and the     *)
(* next one scans the other rows.                                          *)
LeavePage(page) ==
    rec' = [scanTerminal |-> IF page = {} THEN ~rec.scanTerminal ELSE rec.scanTerminal,
            page |-> page, item |-> {}]

FetchPage ==
    /\ RecIdle
    /\ LET page == {Observed(j) : j \in Scanned(rec.scanTerminal)} IN
          IF page = {} THEN LeavePage({}) ELSE rec' = [rec EXCEPT !.page = page]
    /\ UNCHANGED << now, rows, apiVars, cancel, dagsterVars, workerVars, restarts >>

(* Faulty: a run that Dagster does not know counts as a success ...        *)
OptimisticState(s) ==
    CASE s = "failure"       -> "failed"
      [] s = "canceled"       -> "cancelled"
      [] s \in LiveStatus     -> "running"
      [] OTHER                -> "success"

(* ... or as still running.                                                *)
StickyState(s) ==
    CASE s = "success"  -> "success"
      [] s = "failure"  -> "failed"
      [] s = "canceled" -> "cancelled"
      [] OTHER          -> "running"

(* fetch_run_state, _RUN_STATUS_MAP *)
RunStateOf(s) ==
    CASE s = "success"      -> "success"
      [] s = "failure"      -> "failed"
      [] s = "canceled"     -> "cancelled"
      [] s \in LiveStatus   -> "running"
      [] OTHER              -> "missing"

ProbeKnown(run) == IF run = NoRun THEN "missing" ELSE RunStateOf(status[run])

Decide(o, runState) ==
    rec' = [rec EXCEPT !.page = @ \ {o},
                       !.item = {[obs |-> o,
                                  outcome |-> ReconcileOutcome(runState, o.state, o.valid)]}]

(* The liveness probe answers from the run store ...                       *)
Probe(o) ==
    /\ rec.item = {}
    /\ o \in rec.page
    /\ Decide(o, ProbeKnown(o.run))
    /\ UNCHANGED << now, rows, apiVars, cancel, dagsterVars, workerVars, restarts >>

(* ... or Dagster cannot be reached, or its answer is incomplete.          *)
ProbeDegraded(o) ==
    /\ rec.item = {}
    /\ o \in rec.page
    /\ o.run # NoRun
    /\ Decide(o, "unknown")
    /\ UNCHANGED << now, rows, apiVars, cancel, dagsterVars, workerVars, restarts >>

ApplyKeep ==
    /\ \E d \in rec.item : d.outcome \in {"keep_running", "noop"}
    /\ LeavePage(rec.page)
    /\ UNCHANGED << now, rows, apiVars, cancel, dagsterVars, workerVars, restarts >>

(* reconcile_transition *)
ApplyConverge(j) ==
    /\ \E d \in rec.item :
          /\ d.obs.job = j
          /\ Converges(d.outcome)
          /\ IF StillAsObserved(rows[j], d.obs)
             THEN SetRow(j, Ended(rows[j], TargetState[d.outcome]))
             ELSE UNCHANGED rows
    /\ LeavePage(rec.page)
    /\ UNCHANGED << now, apiVars, cancel, dagsterVars, workerVars, restarts >>

(* A live run behind an ended row: terminate it. *)
ApplyOrphan(j) ==
    /\ \E d \in rec.item :
          d.obs.job = j /\ d.outcome = "flag_orphan" /\ TerminateRun(d.obs.run)
    /\ LeavePage(rec.page)
    /\ UNCHANGED << now, rows, apiVars, cancel, runJob, workerVars, restarts >>

(* The write or the terminate RPC fails; the next tick looks again. *)
ApplyFails ==
    /\ \E d \in rec.item : d.outcome \notin {"keep_running", "noop"}
    /\ LeavePage(rec.page)
    /\ UNCHANGED << now, rows, apiVars, cancel, dagsterVars, workerVars, restarts >>

(* The five seconds of the tick are over before the page is. *)
BudgetExhausted ==
    /\ rec.page # {}
    /\ LeavePage({})
    /\ UNCHANGED << now, rows, apiVars, cancel, dagsterVars, workerVars, restarts >>

----------------------------------------------------------------------------
(* The API process stops and starts again: requests in progress are lost,  *)
(* rows and runs are not, and the reconciler starts afresh.                *)
ApiRestart ==
    /\ restarts < MaxRestart
    /\ restarts' = restarts + 1
    /\ api' = [j \in Job |-> IF api[j] \in {"inserted", "launching", "launchError"}
                             THEN "lost" ELSE api[j]]
    /\ cancel' = [j \in Job |-> IF cancel[j].pc \in {"read", "written"}
                                THEN [cancel[j] EXCEPT !.pc = "closed"] ELSE cancel[j]]
    /\ rec' = RecInit
    /\ UNCHANGED << now, rows, requests, dagsterVars, workerVars >>

(* Time passes up to MaxTime, and after it until the leases have expired. *)
Tick ==
    /\ \/ now < MaxTime
       \/ \E j \in Job : rows[j].state = "running" /\ IsLeaseValid(rows[j].lease, now)
    /\ now' = now + 1
    /\ UNCHANGED << rows, apiVars, cancel, dagsterVars, workerVars, rec, restarts >>

----------------------------------------------------------------------------
ApiNext(j) ==
    \/ InsertJob(j) \/ SendLaunch(j) \/ LaunchAnswered(j) \/ LaunchFails(j)
    \/ SettleLaunchError(j)
    \/ CancelRead(j) \/ CancelWrite(j) \/ CancelPropagate(j)

DagsterNext(r) ==
    \/ \E j \in Job : AcceptLaunch(j, r) \/ Reexecute(j, r)
    \/ OperatorTerminate(r) \/ PurgeRun(r) \/ StartRun(r)
    \/ RecordEnd(r) \/ RecordDeath(r)

WorkerNext(r) ==
    \/ Adopt(r) \/ AdoptRejected(r) \/ RenewLease(r) \/ NoticeLoss(r)
    \/ LeaseLost(r) \/ LeafEnds(r) \/ LeafStops(r) \/ Interrupt(r)
    \/ MarkDone(r) \/ MarkFailed(r) \/ MarkCancelled(r)
    \/ WriteFails(r) \/ Crash(r)

ReconcilerNext ==
    \/ FetchPage
    \/ \E o \in rec.page : Probe(o) \/ ProbeDegraded(o)
    \/ ApplyKeep
    \/ \E j \in Job : ApplyConverge(j) \/ ApplyOrphan(j)
    \/ ApplyFails \/ BudgetExhausted

Next ==
    \/ \E j \in Job : ApiNext(j) \/ DropLaunch(j)
    \/ \E r \in Run : DagsterNext(r) \/ WorkerNext(r)
    \/ ReconcilerNext
    \/ ApiRestart
    \/ Tick

Spec == Init /\ [][Next]_vars

----------------------------------------------------------------------------
(* Fairness.  The reconciler runs on a timer for as long as the API        *)
(* process lives, a request handler that has begun goes on, and Dagster    *)
(* records how its processes end: weak fairness.                           *)
(* Dagster may be unreachable and a write may fail, but not for ever: a    *)
(* row that is looked at again and again is, in the end, looked at with a  *)
(* known run state and its decision applied.  Nothing is assumed of the    *)
(* leaf: it may hang.                                                      *)
ProbeKnownOf(j) == \E o \in rec.page : o.job = j /\ Probe(o)

LaunchStep(j) == SendLaunch(j) \/ LaunchFails(j) \/ SettleLaunchError(j)
CancelStep(j) == CancelWrite(j) \/ CancelPropagate(j)

Fairness ==
    /\ WF_vars(Tick)
    /\ WF_vars(ReconcilerNext)
    /\ \A j \in Job : SF_vars(ProbeKnownOf(j)) /\ SF_vars(ApplyConverge(j))
                      /\ SF_vars(ApplyOrphan(j))
                      /\ WF_vars(LaunchStep(j)) /\ WF_vars(CancelStep(j))
    /\ \A r \in Run : WF_vars(RecordEnd(r)) /\ WF_vars(RecordDeath(r))
                      /\ WF_vars(Interrupt(r)) /\ WF_vars(MarkCancelled(r))

FairSpec == Spec /\ Fairness

----------------------------------------------------------------------------
(* Properties *)

TypeOK ==
    /\ now \in Nat
    /\ rows \in [Job -> Row]
    /\ api \in [Job -> ApiPC]
    /\ requests \subseteq Job
    /\ cancel \in [Job -> CancelReq]
    /\ runJob \in [Run -> Job \cup {NoJob}]
    /\ status \in [Run -> Status]
    /\ worker \in [Run -> WorkerPC]
    /\ cancelEvent \subseteq Run
    /\ ran \subseteq Run
    /\ rec \in Reconciler
    /\ restarts \in Nat

(* One executor: however often a launch is repeated, however late a run    *)
(* starts and whatever became of the run before it, at most one run ever   *)
(* enters the leaf of a job; backup, restore and full load are not         *)
(* idempotent and have no retry.                                           *)
OneExecutor ==
    \A q, r \in ran : runJob[q] = runJob[r] => q = r

(* A launch that the API reported as failed (502) never does any work, not *)
(* even when it was Dagster's answer that got lost and the run starts      *)
(* afterwards.                                                             *)
RejectedNeverRuns ==
    \A j \in Job : api[j] = "rejected" => \A r \in ran : runJob[r] # j

(* The row is the ledger of the run: a row says `done' only when the run   *)
(* it names entered the leaf, came back from it and ended as a success.    *)
DoneIsSuccess ==
    \A j \in Job : rows[j].state = "done" =>
        \E r \in ran :
            /\ runJob[r] = j
            /\ rows[j].run = r
            /\ worker[r] = "success"

(* A row that has ended stays as it ended, and keeps naming the run that   *)
(* had it: no late worker, reconciler or cancel overwrites a verdict.      *)
VerdictIsFinal ==
    [][\A j \in Job : rows[j].state \in TerminalStates =>
          rows'[j].state = rows[j].state /\ rows'[j].run = rows[j].run]_vars

(* The reconciler takes a running row away only for a reason that still    *)
(* holds when it writes: the run is over in Dagster with that very         *)
(* verdict, or Dagster does not know the run and the process is gone or    *)
(* its lease has run out.  In particular a Dagster outage, a slow probe,   *)
(* or a lease renewed in the meantime never takes the row of a live worker.*)
EvictionJustified ==
    [][\A j \in Job :
          (rec # rec' /\ rows[j].state = "running"
            /\ rows'[j] # rows[j]) =>
          LET r == rows[j].run IN
             \/ rows'[j].state = "done"      /\ status[r] = "success"
             \/ rows'[j].state = "cancelled" /\ status[r] = "canceled"
             \/ rows'[j].state = "failed"    /\ status[r] = "failure"
             \/ /\ status[r] = "purged"
                /\ rows'[j].state # "done"
                /\ worker[r] \in Over \/ ~IsLeaseValid(rows[j].lease, now)]_vars

(* Recovery: a running row whose process has died or whose op is over      *)
(* without having written it does not stay running.                        *)
AbandonedRowEnds ==
    \A j \in Job : \A r \in Run :
        (Owns(rows[j], r) /\ worker[r] \in Over)
            ~> rows[j].state \in TerminalStates

(* The abstract lifecycle that the rows and the runs implement. *)
Lifecycle == INSTANCE JobLifecycle WITH
    phase <- [j \in Job |-> rows[j].state],
    owner <- [j \in Job |-> rows[j].run],
    executors <- [j \in Job |-> {r \in ran : runJob[r] = j}]

(* Whatever the API, Dagster, the workers and the reconciler do in         *)
(* whichever order, a job is claimed at most once, by one run, and decided *)
(* once.                                                                   *)
ImplementsLifecycle == Lifecycle!Spec

(* No one-sided cancel: a run that is live in Dagster behind a row that    *)
(* ended as failed or cancelled does not stay live, even when the leaf     *)
(* hangs, the cancel read the row before the run adopted it, or the        *)
(* terminate call was lost.                                                *)
OrphanRunEnds ==
    \A j \in Job : \A r \in Run :
        (rows[j].run = r /\ rows[j].state \in {"failed", "cancelled"}
            /\ status[r] \in LiveStatus)
            ~> status[r] \notin LiveStatus

(* "Dagster failure or cancel -> load_jobs terminal", as                   *)
(* docs/architecture/dagster-boundary.md:123 has it: once every run of a   *)
(* job is over in Dagster without success, the row does not stay open.     *)
DagsterEndReachesRow ==
    \A j \in Job :
        (/\ \E r \in Run : runJob[r] = j
         /\ \A r \in Run : runJob[r] = j /\ status[r] \in {"failure", "canceled"})
            ~> rows[j].state \in TerminalStates
=============================================================================
