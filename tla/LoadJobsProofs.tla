--------------------------- MODULE LoadJobsProofs ---------------------------
(***************************************************************************)
(* Proofs about LoadJobs, for every set of jobs and runs, every lease and  *)
(* every bound.  IInv is the inductive invariant; the safety properties of *)
(* LoadJobs follow from it.                                                *)
(***************************************************************************)
EXTENDS LoadJobs, TLAPS

----------------------------------------------------------------------------
(* The inductive invariant *)

(* What the run store and the worker processes know of each other. *)
RunsInv ==
    \A r \in Run :
        /\ runJob[r] = NoJob => status[r] = "none" /\ r \notin ran
        /\ status[r] = "none" \/ status[r] = "queued" => worker[r] = "idle"
        /\ worker[r] # "idle" => runJob[r] \in Job
        /\ worker[r] \in InOp => r \in ran
        /\ r \in ran => worker[r] \in InOp \cup Over
        /\ worker[r] = "success" => r \in ran /\ rows[runJob[r]].state = "done"
        /\ status[r] = "success" => worker[r] = "success"
        /\ status[r] \in FinalStatus => worker[r] \in {"idle"} \cup Over

(* A run that entered the leaf is the run its row names, and conversely. *)
OwnerInv ==
    /\ \A r \in ran : runJob[r] \in Job /\ rows[runJob[r]].run = r
    /\ \A j \in Job :
        /\ rows[j].run # NoRun => rows[j].run \in ran /\ runJob[rows[j].run] = j
        /\ rows[j].state \in {"absent", "queued"} => rows[j].run = NoRun
        /\ rows[j].state \in {"running", "done"} => rows[j].run # NoRun
        /\ rows[j].state = "done" => worker[rows[j].run] = "success"

(* What a launch request that is over, or has not begun, says of the row. *)
ApiInv ==
    \A j \in Job :
        /\ api[j] = "idle" => rows[j].state = "absent"
        /\ api[j] = "rejected" => rows[j].state \in TerminalStates /\ rows[j].run = NoRun

(* What the reconciler saw is still true in so far as it cannot change. *)
ObsInv(o) ==
    /\ o.run # NoRun => o.run \in ran /\ runJob[o.run] = o.job
    /\ o.state = "running" => o.run # NoRun
    /\ ~o.valid => ~IsLeaseValid(o.lease, now)

DecisionInv(d) ==
    /\ ObsInv(d.obs)
    /\ Converges(d.outcome) => d.obs.run # NoRun
    /\ d.outcome = "converge_done" => rows[d.obs.job].state = "done"
    /\ d.outcome = "converge_cancelled" =>
        \/ status[d.obs.run] = "canceled"
        \/ status[d.obs.run] = "purged" /\ worker[d.obs.run] \in Over
    /\ d.outcome = "converge_failed" =>
        \/ status[d.obs.run] = "failure"
        \/ /\ status[d.obs.run] = "purged"
           /\ worker[d.obs.run] \in Over \/ ~IsLeaseValid(d.obs.lease, now)

RecInv ==
    /\ \A o \in rec.page : ObsInv(o)
    /\ \A d \in rec.item : DecisionInv(d)

IInv == TypeOK /\ RunsInv /\ OwnerInv /\ ApiInv /\ RecInv

----------------------------------------------------------------------------
(* Types *)

(* Ending a row gives a row.                                              *)
LEMMA EndedType ==
  ASSUME NEW row \in Row, NEW s \in RowStates PROVE Ended(row, s) \in Row
BY DEF Row, Ended

(* Adopting a row, or renewing its lease, gives a row.                    *)
LEMMA AdoptedType ==
  ASSUME NEW row \in Row, NEW r \in Run, NEW expiry \in Nat
  PROVE  Adopted(row, r, expiry) \in Row /\ Renewed(row, expiry) \in Row
BY DEF Row, Adopted, Renewed, RowStates, ActiveStates

(* A lease that is granted at t expires after t.                          *)
LEMMA ExpiryType ==
  ASSUME NEW t \in Nat PROVE LeaseExpiry(t) \in Nat /\ LeaseExpiry(t) > t
BY RowAssumption DEF LeaseExpiry

(* The absent and the freshly inserted row are rows.                      *)
LEMMA ConstantRows == AbsentRow \in Row /\ QueuedRow \in Row
BY DEF AbsentRow, QueuedRow, Row, NoLease, RowStates, ActiveStates

(* terminateRun leaves a run with a status of the run store.              *)
LEMMA TerminatedType ==
  ASSUME NEW s \in Status PROVE Terminated(s) \in Status
BY DEF Terminated, Status, LiveStatus, FinalStatus

(* The decision table is total on what a probe and a row can say.         *)
LEMMA OutcomeType ==
  ASSUME NEW s \in RunStates, NEW js \in RowStates, NEW v \in BOOLEAN
  PROVE  ReconcileOutcome(s, js, v) \in Outcomes
BY DEF ReconcileOutcome, Outcomes, RunStates

(* A converging outcome writes a terminal state.                          *)
LEMMA TargetType ==
  ASSUME NEW c, Converges(c)
  PROVE  TargetState[c] \in TerminalStates /\ TargetState[c] \in RowStates
BY DEF Converges, TargetState, TerminalStates, RowStates

(* A probe that is answered gives one of the states of the table.         *)
LEMMA ProbeType ==
  ASSUME TypeOK, NEW run \in Run \cup {NoRun} PROVE ProbeKnown(run) \in RunStates
BY DEF TypeOK, ProbeKnown, RunStateOf, RunStates

(* What the reconciler reads of a row is an observation.                  *)
LEMMA ObservedType ==
  ASSUME TypeOK, NEW j \in Job PROVE Observed(j) \in Observation
BY DEF TypeOK, Observed, Observation, Row, IsLeaseValid

(* The initial state is well typed.                                       *)
LEMMA TypeInit == Init => TypeOK
BY ConstantRows, LoadJobsAssumption
DEF Init, TypeOK, ApiPC, CancelReq, Status, WorkerPC, RecInit, Reconciler

(* Launch and cancel requests keep the types.                             *)
LEMMA TypeApi ==
  ASSUME TypeOK, NEW j \in Job, ApiNext(j) \/ DropLaunch(j)
  PROVE  TypeOK'
<1>1. rows[j] \in Row BY DEF TypeOK
<1>2. "failed" \in RowStates /\ "cancelled" \in RowStates
  BY DEF RowStates, TerminalStates
<1>3. \A s \in {"failed", "cancelled"} : Ended(rows[j], s) \in Row
  BY <1>1, <1>2, EndedType
<1>4. CASE InsertJob(j)
  BY <1>4, ConstantRows
  DEF TypeOK, InsertJob, SetRow, ApiPC, dagsterVars, workerVars
<1>5. CASE SendLaunch(j) \/ LaunchAnswered(j) \/ LaunchFails(j)
  BY <1>5 DEF TypeOK, SendLaunch, LaunchAnswered, LaunchFails, ApiPC, dagsterVars, workerVars
<1>6. CASE SettleLaunchError(j)
  BY <1>6, <1>3 DEF TypeOK, SettleLaunchError, SetRow, ApiPC, dagsterVars, workerVars
<1>7. CASE CancelRead(j)
  BY <1>7, <1>1 DEF TypeOK, CancelRead, CancelReq, Row, apiVars, dagsterVars, workerVars
<1>8. CASE CancelWrite(j)
  <2>1. rows' \in [Job -> Row]
    BY <1>8, <1>3 DEF TypeOK, CancelWrite, SetRow
  <2>2. cancel' \in [Job -> CancelReq]
    BY <1>8 DEF TypeOK, CancelWrite, CancelReq
  <2> QED BY <1>8, <2>1, <2>2 DEF TypeOK, CancelWrite, apiVars, dagsterVars, workerVars
<1>9. CASE CancelPropagate(j)
  <2>1. cancel' \in [Job -> CancelReq]
    BY <1>9 DEF TypeOK, CancelPropagate, CancelReq
  <2>2. status' \in [Run -> Status]
    BY <1>9, TerminatedType DEF TypeOK, CancelPropagate, TerminateRun
  <2> QED BY <1>9, <2>1, <2>2 DEF TypeOK, CancelPropagate, apiVars, workerVars
<1>10. CASE DropLaunch(j)
  BY <1>10 DEF TypeOK, DropLaunch, dagsterVars, workerVars
<1> QED BY <1>4, <1>5, <1>6, <1>7, <1>8, <1>9, <1>10 DEF ApiNext

(* The run store and its operators keep the types.                        *)
LEMMA TypeDagster ==
  ASSUME TypeOK, NEW r \in Run, DagsterNext(r)
  PROVE  TypeOK'
<1>1. ASSUME NEW j \in Job, AcceptLaunch(j, r) \/ Reexecute(j, r) PROVE TypeOK'
  BY <1>1 DEF TypeOK, AcceptLaunch, Reexecute, CreateRun, Status, LiveStatus, apiVars, workerVars
<1>2. CASE OperatorTerminate(r)
  BY <1>2, TerminatedType DEF TypeOK, OperatorTerminate, TerminateRun, apiVars, workerVars
<1>3. CASE PurgeRun(r)
  BY <1>3 DEF TypeOK, PurgeRun, Status, apiVars, workerVars
<1>4. CASE StartRun(r)
  BY <1>4 DEF TypeOK, StartRun, Status, LiveStatus, WorkerPC, apiVars
<1>5. CASE RecordEnd(r) \/ RecordDeath(r)
  BY <1>5 DEF TypeOK, RecordEnd, RecordDeath, Status, FinalStatus, apiVars, workerVars
<1> QED BY <1>1, <1>2, <1>3, <1>4, <1>5 DEF DagsterNext

(* The worker processes keep the types.                                   *)
LEMMA TypeWorker ==
  ASSUME TypeOK, NEW r \in Run, runJob[r] \in Job, WorkerNext(r)
  PROVE  TypeOK'
<1>1. RowOf(r) \in Row BY DEF TypeOK, RowOf
<1>2. \A s \in TerminalStates : Ended(RowOf(r), s) \in Row
  BY <1>1, EndedType DEF RowStates
<1>3. LeaseExpiry(now) \in Nat BY ExpiryType DEF TypeOK
<1>4. CASE Adopt(r)
  <2>1. rows' \in [Job -> Row]
    BY <1>4, <1>1, <1>3, AdoptedType DEF TypeOK, Adopt, SetRow
  <2> QED BY <1>4, <2>1
    DEF TypeOK, Adopt, BecomeWorker, WorkerPC, InOp, apiVars, dagsterVars
<1>5. CASE RenewLease(r)
  BY <1>5, <1>1, <1>3, AdoptedType
  DEF TypeOK, RenewLease, SetRow, apiVars, dagsterVars, workerVars
<1>6. CASE AdoptRejected(r) \/ WriteFails(r) \/ Crash(r) \/ LeafEnds(r) \/ LeafStops(r) \/ Interrupt(r)
  BY <1>6 DEF TypeOK, AdoptRejected, WriteFails, Crash, LeafEnds, LeafStops, Interrupt,
    BecomeWorker, WorkerPC, InOp, Over, FinalStatus, apiVars, dagsterVars
<1>7. CASE NoticeLoss(r) \/ LeaseLost(r)
  BY <1>7 DEF TypeOK, NoticeLoss, LeaseLost, BecomeWorker, WorkerPC, InOp, Over, FinalStatus,
    apiVars, dagsterVars
<1>8. CASE MarkDone(r)
  BY <1>8, <1>2 DEF TypeOK, MarkDone, SetRow, BecomeWorker, WorkerPC, Over, FinalStatus,
    TerminalStates, apiVars, dagsterVars
<1>9. CASE MarkFailed(r) \/ MarkCancelled(r)
  BY <1>9, <1>2 DEF TypeOK, MarkFailed, MarkCancelled, MarkEnded, SetRow, BecomeWorker, WorkerPC,
    Over, FinalStatus, TerminalStates, apiVars, dagsterVars
<1> QED BY <1>4, <1>5, <1>6, <1>7, <1>8, <1>9 DEF WorkerNext

(* Leaving a row of the page, or the page, keeps the reconciler typed.    *)
LEMMA LeavePageType ==
  ASSUME TypeOK, NEW page \in SUBSET rec.page, LeavePage(page)
  PROVE  rec' \in Reconciler
BY DEF TypeOK, Reconciler, LeavePage

(* The reconciler keeps the types.                                        *)
LEMMA TypeReconciler ==
  ASSUME TypeOK, ReconcilerNext
  PROVE  TypeOK'
<1>1. CASE FetchPage
  <2> DEFINE page == {Observed(j) : j \in Scanned(rec.scanTerminal)}
  <2>1. page \in SUBSET Observation
    BY ObservedType DEF Scanned
  <2>2. rec' \in Reconciler
    <3>1. CASE page = {} BY <3>1, <1>1, LeavePageType DEF FetchPage
    <3>2. CASE page # {} BY <3>2, <2>1, <1>1 DEF FetchPage, TypeOK, Reconciler
    <3> QED BY <3>1, <3>2
  <2> QED BY <2>2, <1>1 DEF FetchPage, TypeOK, apiVars, dagsterVars, workerVars
<1>2. ASSUME NEW o \in rec.page, Probe(o) \/ ProbeDegraded(o) PROVE TypeOK'
  <2>1. o \in Observation BY DEF TypeOK, Reconciler
  <2>2. \A s \in RunStates : Decide(o, s) => rec' \in Reconciler
    <3> SUFFICES ASSUME NEW s \in RunStates, Decide(o, s) PROVE rec' \in Reconciler
      OBVIOUS
    <3> DEFINE d == [obs |-> o, outcome |-> ReconcileOutcome(s, o.state, o.valid)]
    <3>1. o.state \in RowStates /\ o.valid \in BOOLEAN BY <2>1 DEF Observation
    <3>2. d \in Decision BY <2>1, <3>1, OutcomeType DEF Decision
    <3>3. rec' = [rec EXCEPT !.page = @ \ {o}, !.item = {d}] BY DEF Decide, d
    <3> HIDE DEF d
    <3> QED BY <3>2, <3>3 DEF TypeOK, Reconciler
  <2>3. rec' \in Reconciler
    BY <1>2, <2>1, <2>2, ProbeType DEF Probe, ProbeDegraded, Observation, RunStates
  <2> QED BY <1>2, <2>3 DEF Probe, ProbeDegraded, TypeOK, apiVars, dagsterVars, workerVars
<1>3. CASE ApplyKeep \/ ApplyFails \/ BudgetExhausted
  BY <1>3, LeavePageType
  DEF ApplyKeep, ApplyFails, BudgetExhausted, TypeOK, apiVars, dagsterVars, workerVars
<1>4. ASSUME NEW j \in Job, ApplyConverge(j) PROVE TypeOK'
  <2>1. PICK d \in rec.item :
          /\ Converges(d.outcome)
          /\ IF StillAsObserved(rows[j], d.obs)
             THEN SetRow(j, Ended(rows[j], TargetState[d.outcome]))
             ELSE UNCHANGED rows
    BY <1>4 DEF ApplyConverge
  <2>2. Ended(rows[j], TargetState[d.outcome]) \in Row
    BY <2>1, TargetType, EndedType DEF TypeOK
  <2>3. rows' \in [Job -> Row] BY <2>1, <2>2 DEF TypeOK, SetRow
  <2>4. rec' \in Reconciler BY <1>4, LeavePageType DEF ApplyConverge
  <2> QED BY <1>4, <2>3, <2>4 DEF ApplyConverge, TypeOK, apiVars, dagsterVars, workerVars
<1>5. ASSUME NEW j \in Job, ApplyOrphan(j) PROVE TypeOK'
  <2>1. rec' \in Reconciler BY <1>5, LeavePageType DEF ApplyOrphan
  <2>2. PICK d \in rec.item : TerminateRun(d.obs.run) BY <1>5 DEF ApplyOrphan
  <2>3. status' \in [Run -> Status]
    <3>1. CASE d.obs.run \in Run
      BY <3>1, <2>2, TerminatedType DEF TerminateRun, TypeOK
    <3>2. CASE d.obs.run \notin Run
      BY <3>2, <2>2 DEF TerminateRun, TypeOK
    <3> QED BY <3>1, <3>2
  <2> QED BY <1>5, <2>1, <2>3 DEF ApplyOrphan, TypeOK, apiVars, workerVars
<1> QED BY <1>1, <1>2, <1>3, <1>4, <1>5 DEF ReconcilerNext

(* An API restart and the clock keep the types.                           *)
LEMMA TypeRestartTick ==
  ASSUME TypeOK, ApiRestart \/ Tick
  PROVE  TypeOK'
<1>1. CASE ApiRestart
  <2>1. api' \in [Job -> ApiPC] BY <1>1 DEF ApiRestart, TypeOK, ApiPC
  <2>2. cancel' \in [Job -> CancelReq] BY <1>1 DEF ApiRestart, TypeOK, CancelReq
  <2>3. rec' \in Reconciler BY <1>1 DEF ApiRestart, RecInit, Reconciler
  <2> QED BY <1>1, <2>1, <2>2, <2>3 DEF ApiRestart, TypeOK, dagsterVars, workerVars
<1>2. CASE Tick
  BY <1>2 DEF Tick, TypeOK, apiVars, dagsterVars, workerVars
<1> QED BY <1>1, <1>2

----------------------------------------------------------------------------
(* What no step takes back.  Everything that the reconciler and a failed   *)
(* launch rely on between two of their own steps is of this kind.          *)

Persists ==
    /\ now' \in Nat /\ now' >= now
    /\ \A j \in Job : rows[j].state \in TerminalStates => rows'[j] = rows[j]
    /\ \A r \in ran : r \in ran' /\ runJob'[r] = runJob[r]
    /\ \A r \in Run : worker[r] \in Over => worker'[r] = worker[r]
    /\ \A r \in Run : status[r] \in FinalStatus => status'[r] \in {status[r], "purged"}
    /\ \A r \in Run : status[r] = "purged" => status'[r] = "purged"

(* Which fields the writers of a row change, and to what.                 *)
LEMMA RowFields ==
  ASSUME NEW row \in Row, NEW s, NEW r, NEW expiry
  PROVE  /\ Ended(row, s).state = s
         /\ Ended(row, s).run = row.run
         /\ Ended(row, s).lease = row.lease
         /\ Adopted(row, r, expiry).state = "running"
         /\ Adopted(row, r, expiry).run = r
         /\ Adopted(row, r, expiry).lease = expiry
         /\ Renewed(row, expiry).state = row.state
         /\ Renewed(row, expiry).run = row.run
         /\ Renewed(row, expiry).lease = expiry
BY DEF Row, Ended, Adopted, Renewed

LEMMA RecPersists ==
  ASSUME IInv, Persists,
         rec'.page \subseteq rec.page, rec'.item \subseteq rec.item
  PROVE  RecInv'
<1>1. ASSUME NEW o \in Observation, ObsInv(o) PROVE ObsInv(o)'
  <2>1. o.lease \in Nat BY DEF Observation
  <2>2. ~o.valid => ~IsLeaseValid(o.lease, now)'
    BY <1>1, <2>1 DEF IInv, TypeOK, Persists, ObsInv, IsLeaseValid, NoLease
  <2>3. o.run # NoRun => o.run \in ran' /\ runJob'[o.run] = o.job
    BY <1>1 DEF Persists, ObsInv
  <2>4. o.state = "running" => o.run # NoRun BY <1>1 DEF ObsInv
  <2> QED BY <2>2, <2>3, <2>4 DEF ObsInv
<1>2. ASSUME NEW d \in Decision, DecisionInv(d) PROVE DecisionInv(d)'
  <2>1. d.obs \in Observation BY DEF Decision
  <2>2. ObsInv(d.obs)' BY <1>1, <1>2, <2>1 DEF DecisionInv
  <2>3. d.obs.run \in Run \cup {NoRun} /\ d.obs.job \in Job BY <2>1 DEF Observation
  <2>4. Converges(d.outcome) => d.obs.run \in ran /\ d.obs.run \in Run
    BY <1>2, <2>3 DEF DecisionInv, ObsInv
  <2>5. d.outcome = "converge_done" => rows'[d.obs.job].state = "done"
    BY <1>2, <2>3 DEF DecisionInv, Persists, TerminalStates
  <2>6. d.outcome = "converge_cancelled" =>
          \/ status'[d.obs.run] = "canceled"
          \/ status'[d.obs.run] = "purged" /\ worker'[d.obs.run] \in Over
    BY <1>2, <2>4 DEF DecisionInv, Persists, IInv, RunsInv, InOp, Over, FinalStatus, Converges, TargetState
  <2>7. d.obs.lease \in Nat BY <2>1 DEF Observation
  <2>8. ~IsLeaseValid(d.obs.lease, now) => ~IsLeaseValid(d.obs.lease, now)'
    BY <2>7 DEF IInv, TypeOK, Persists, IsLeaseValid
  <2>9. d.outcome = "converge_failed" =>
          \/ status'[d.obs.run] = "failure"
          \/ /\ status'[d.obs.run] = "purged"
             /\ worker'[d.obs.run] \in Over \/ ~IsLeaseValid(d.obs.lease, now)'
    BY <1>2, <2>4, <2>8 DEF DecisionInv, Persists, IInv, RunsInv, InOp, Over, FinalStatus, Converges, TargetState
  <2> QED BY <1>2, <2>2, <2>5, <2>6, <2>9 DEF DecisionInv
<1>3. rec.page \subseteq Observation /\ rec.item \subseteq Decision
  BY DEF IInv, TypeOK, Reconciler
<1> QED BY <1>1, <1>2, <1>3 DEF IInv, RecInv

(* A step that leaves the launches alone keeps what they say of the rows,  *)
(* if it makes no row out of nothing.                                      *)
LEMMA ApiPersists ==
  ASSUME IInv, Persists, UNCHANGED api,
         \A j \in Job : rows[j].state = "absent" => rows'[j] = rows[j]
  PROVE  ApiInv'
BY DEF IInv, ApiInv, Persists

----------------------------------------------------------------------------
(* Every step preserves IInv and is persistent: the API *)

Ledger == RunsInv /\ OwnerInv

(* A step that leaves rows, runs and workers alone keeps the ledger.      *)
LEMMA LedgerFrame ==
  ASSUME Ledger, UNCHANGED << rows, runJob, status, worker, ran >>
  PROVE  Ledger'
BY DEF Ledger, RunsInv, OwnerInv

(* A row that is given up keeps naming its run. *)
LEMMA LedgerEnded ==
  ASSUME TypeOK, Ledger, NEW j \in Job, rows[j].state \in ActiveStates,
         NEW s \in {"failed", "cancelled"}, SetRow(j, Ended(rows[j], s)),
         UNCHANGED << runJob, status, worker, ran >>
  PROVE  Ledger'
<1>1. rows[j] \in Row /\ rows \in [Job -> Row] BY DEF TypeOK
<1>2. rows'[j].state = s /\ rows'[j].run = rows[j].run
  BY <1>1, RowFields DEF SetRow
<1>3. \A i \in Job : i # j => rows'[i] = rows[i] BY <1>1 DEF SetRow
<1>4. RunsInv' BY <1>2, <1>3 DEF Ledger, RunsInv, ActiveStates
<1>5. OwnerInv' BY <1>2, <1>3 DEF Ledger, OwnerInv, ActiveStates
<1> QED BY <1>4, <1>5 DEF Ledger

(* Neither does a terminate call take anything back: it ends a run only    *)
(* before the run has a process.                                           *)
LEMMA TerminatePersists ==
  ASSUME TypeOK, Ledger, NEW r \in Run \cup {NoRun}, TerminateRun(r),
         UNCHANGED << now, rows, runJob, worker, ran >>
  PROVE  Persists /\ Ledger'
<1>1. CASE r = NoRun
  BY <1>1, LedgerFrame DEF TerminateRun, TypeOK, Persists
<1>2. CASE r \in Run /\ r # NoRun
  <2>1. status' = [status EXCEPT ![r] = Terminated(status[r])]
    BY <1>2 DEF TerminateRun
  <2>2. /\ status[r] = "queued" => status'[r] = "canceled"
        /\ status[r] = "started" => status'[r] = "canceling"
        /\ status[r] \notin {"queued", "started"} => status'[r] = status[r]
    BY <1>2, <2>1 DEF Terminated, TypeOK
  <2>3. \A q \in Run : q # r => status'[q] = status[q] BY <2>1 DEF TypeOK
  <2>4. Persists BY <1>2, <2>2, <2>3 DEF Persists, TypeOK, FinalStatus
  <2>5. RunsInv'
    BY <1>2, <2>2, <2>3 DEF Ledger, RunsInv, TypeOK, FinalStatus, InOp, Over
  <2>6. OwnerInv' BY DEF Ledger, OwnerInv
  <2> QED BY <2>4, <2>5, <2>6 DEF Ledger
<1> QED BY <1>1, <1>2

(* A step of a launch or of a cancel keeps the invariant.                 *)
LEMMA ApiStep ==
  ASSUME IInv, NEW j \in Job, ApiNext(j) \/ DropLaunch(j)
  PROVE  Persists /\ Ledger' /\ ApiInv' /\ rec' = rec
<1> USE DEF apiVars, dagsterVars, workerVars
<1>1. TypeOK /\ Ledger /\ ApiInv BY DEF IInv, Ledger
<1>2. rows[j] \in Row /\ rows \in [Job -> Row] /\ now \in Nat BY <1>1 DEF TypeOK
<1>3. CASE InsertJob(j)
  <2>1. rows[j].state = "absent" BY <1>3, <1>1 DEF InsertJob, ApiInv
  <2>2. rows' = [rows EXCEPT ![j] = QueuedRow] BY <1>3 DEF InsertJob, SetRow
  <2>3. QueuedRow.state = "queued" /\ QueuedRow.run = NoRun BY DEF QueuedRow
  <2>4. Persists BY <1>2, <1>3, <2>1, <2>2 DEF InsertJob, Persists, TerminalStates
  <2>5. rows[j].run = NoRun BY <1>1, <2>1 DEF Ledger, OwnerInv
  <2>6. RunsInv' BY <1>1, <1>2, <1>3, <2>1, <2>2, <2>3 DEF InsertJob, Ledger, RunsInv
  <2>7. OwnerInv'
    BY <1>1, <1>2, <1>3, <2>1, <2>2, <2>3, <2>5, RowAssumption
    DEF InsertJob, Ledger, OwnerInv, TypeOK
  <2>8. ApiInv'
    BY <1>1, <1>2, <1>3, <2>1, <2>2 DEF InsertJob, ApiInv, TypeOK, TerminalStates
  <2> QED BY <1>3, <2>4, <2>6, <2>7, <2>8 DEF InsertJob, Ledger
<1>4. CASE SendLaunch(j) \/ LaunchAnswered(j) \/ LaunchFails(j)
  <2>1. Persists BY <1>2, <1>4 DEF SendLaunch, LaunchAnswered, LaunchFails, Persists
  <2>2. ApiInv' BY <1>1, <1>4 DEF SendLaunch, LaunchAnswered, LaunchFails, ApiInv, TypeOK
  <2> QED BY <1>1, <1>4, <2>1, <2>2, LedgerFrame DEF SendLaunch, LaunchAnswered, LaunchFails
<1>5. CASE SettleLaunchError(j)
  <2>1. CASE CanMarkLaunchFailed(rows[j])
    <3>1. rows[j].state = "queued" BY <2>1 DEF CanMarkLaunchFailed
    <3>2. SetRow(j, Ended(rows[j], "failed")) /\ api' = [api EXCEPT ![j] = "rejected"]
      BY <1>5, <2>1 DEF SettleLaunchError
    <3>3. Persists
      BY <1>2, <1>5, <3>1, <3>2 DEF SettleLaunchError, Persists, SetRow, TerminalStates
    <3>4. Ledger'
      BY <1>1, <1>5, <3>1, <3>2, LedgerEnded DEF SettleLaunchError, ActiveStates
    <3>5. rows[j].run = NoRun BY <1>1, <3>1 DEF Ledger, OwnerInv
    <3>6. rows'[j].state = "failed" /\ rows'[j].run = NoRun
      BY <1>2, <3>2, <3>5, RowFields DEF SetRow
    <3>7. ApiInv'
      BY <1>1, <1>2, <3>2, <3>6 DEF ApiInv, TypeOK, SetRow, TerminalStates
    <3> QED BY <1>5, <3>3, <3>4, <3>7 DEF SettleLaunchError
  <2>2. CASE ~CanMarkLaunchFailed(rows[j])
    <3>1. Persists BY <1>2, <1>5, <2>2 DEF SettleLaunchError, Persists
    <3>2. ApiInv' BY <1>1, <1>5, <2>2 DEF SettleLaunchError, ApiInv, TypeOK
    <3> QED BY <1>1, <1>5, <2>2, <3>1, <3>2, LedgerFrame DEF SettleLaunchError
  <2> QED BY <2>1, <2>2
<1>6. CASE CancelWrite(j)
  <2>1. Persists
    BY <1>2, <1>6 DEF CancelWrite, CanCancel, Persists, SetRow, ActiveStates, TerminalStates
  <2>2. Ledger'
    BY <1>1, <1>6, LedgerEnded, LedgerFrame DEF CancelWrite, CanCancel
  <2>3. \A i \in Job : rows[i].state = "absent" => rows'[i] = rows[i]
    BY <1>2, <1>6 DEF CancelWrite, CanCancel, SetRow, ActiveStates
  <2>4. ApiInv' BY <1>6, <2>1, <2>3, ApiPersists DEF CancelWrite
  <2> QED BY <1>6, <2>1, <2>2, <2>4 DEF CancelWrite
<1>7. CASE CancelRead(j) \/ DropLaunch(j)
  <2>1. Persists BY <1>2, <1>7 DEF CancelRead, DropLaunch, Persists
  <2> QED BY <1>1, <1>7, <2>1, ApiPersists, LedgerFrame DEF CancelRead, DropLaunch
<1>8. CASE CancelPropagate(j)
  <2>1. Persists /\ Ledger'
    <3>1. CASE TerminateRun(cancel[j].run)
      <4>1. cancel[j].run \in Run \cup {NoRun} BY <1>1 DEF TypeOK, CancelReq
      <4> QED BY <1>1, <1>8, <3>1, <4>1, TerminatePersists DEF CancelPropagate
    <3>2. CASE UNCHANGED status
      BY <1>1, <1>2, <1>8, <3>2, LedgerFrame DEF CancelPropagate, Persists
    <3> QED BY <1>8, <3>1, <3>2 DEF CancelPropagate
  <2> QED BY <1>8, <2>1, ApiPersists DEF CancelPropagate
<1> QED BY <1>3, <1>4, <1>5, <1>6, <1>7, <1>8 DEF ApiNext

----------------------------------------------------------------------------
(* ... Dagster *)

(* A step of Dagster or of its operators keeps the invariant.             *)
LEMMA DagsterStep ==
  ASSUME IInv, NEW r \in Run, DagsterNext(r)
  PROVE  Persists /\ Ledger' /\ ApiInv' /\ rec' = rec
<1> USE DEF apiVars, workerVars
<1>1. TypeOK /\ Ledger BY DEF IInv, Ledger
<1>2. now \in Nat /\ runJob \in [Run -> Job \cup {NoJob}] /\ status \in [Run -> Status]
        /\ worker \in [Run -> WorkerPC] /\ ran \subseteq Run
  BY <1>1 DEF TypeOK
<1>3. UNCHANGED << api, rows, rec, ran, now >>
  BY DEF DagsterNext, AcceptLaunch, Reexecute, OperatorTerminate, PurgeRun, StartRun,
    RecordEnd, RecordDeath
<1>4. ASSUME NEW j \in Job, CreateRun(j, r), UNCHANGED worker PROVE Persists /\ Ledger'
  <2>1. runJob[r] = NoJob /\ status[r] = "none" /\ r \notin ran /\ worker[r] = "idle"
    BY <1>1, <1>4, LoadJobsAssumption DEF CreateRun, Ledger, RunsInv
  <2>2. Persists
    BY <1>2, <1>3, <1>4, <2>1 DEF CreateRun, Persists, FinalStatus
  <2>3. RunsInv'
    BY <1>1, <1>2, <1>3, <1>4, <2>1, LoadJobsAssumption
    DEF CreateRun, Ledger, RunsInv, FinalStatus, InOp, Over
  <2>4. OwnerInv' BY <1>1, <1>2, <1>3, <1>4, <2>1 DEF CreateRun, Ledger, OwnerInv
  <2> QED BY <2>2, <2>3, <2>4 DEF Ledger
<1>5. CASE OperatorTerminate(r)
  BY <1>1, <1>3, <1>5, TerminatePersists, ApiPersists DEF OperatorTerminate
<1>6. CASE PurgeRun(r)
  <2>1. Persists BY <1>2, <1>3, <1>6 DEF PurgeRun, Persists, FinalStatus
  <2>2. RunsInv'
    BY <1>1, <1>2, <1>3, <1>6 DEF PurgeRun, Ledger, RunsInv, LiveStatus, FinalStatus
  <2>3. OwnerInv' BY <1>1, <1>3, <1>6 DEF PurgeRun, Ledger, OwnerInv
  <2> QED BY <1>3, <2>1, <2>2, <2>3, ApiPersists DEF Ledger
<1>7. CASE StartRun(r)
  <2>1. worker[r] = "idle" /\ r \notin ran /\ runJob[r] \in Job
    BY <1>1, <1>2, <1>7 DEF StartRun, Ledger, RunsInv, InOp, Over, FinalStatus
  <2>2. Persists BY <1>2, <1>3, <1>7, <2>1 DEF StartRun, Persists, FinalStatus, Over
  <2>3. RunsInv'
    BY <1>1, <1>2, <1>3, <1>7, <2>1 DEF StartRun, Ledger, RunsInv, FinalStatus, InOp
  <2>4. OwnerInv'
    <3>1. \A q \in Run : worker[q] = "success" => worker'[q] = "success"
      BY <1>2, <1>7, <2>1 DEF StartRun
    <3> QED BY <1>1, <1>2, <1>3, <1>7, <3>1 DEF StartRun, Ledger, OwnerInv
  <2> QED BY <1>3, <2>2, <2>3, <2>4, ApiPersists DEF Ledger
<1>8. CASE RecordEnd(r)
  <2>1. Persists
    BY <1>2, <1>3, <1>8 DEF RecordEnd, Persists, LiveStatus, FinalStatus
  <2>2. RunsInv'
    BY <1>1, <1>2, <1>3, <1>8
    DEF RecordEnd, Ledger, RunsInv, LiveStatus, FinalStatus, InOp, Over
  <2>3. OwnerInv' BY <1>1, <1>3, <1>8 DEF RecordEnd, Ledger, OwnerInv
  <2> QED BY <1>3, <2>1, <2>2, <2>3, ApiPersists DEF Ledger
<1>9. CASE RecordDeath(r)
  <2>1. Persists
    BY <1>2, <1>3, <1>9 DEF RecordDeath, Persists, LiveStatus, FinalStatus
  <2>2. RunsInv'
    BY <1>1, <1>2, <1>3, <1>9
    DEF RecordDeath, Ledger, RunsInv, LiveStatus, FinalStatus, InOp, Over
  <2>3. OwnerInv' BY <1>1, <1>3, <1>9 DEF RecordDeath, Ledger, OwnerInv
  <2> QED BY <1>3, <2>1, <2>2, <2>3, ApiPersists DEF Ledger
<1>10. ASSUME NEW j \in Job, AcceptLaunch(j, r) \/ Reexecute(j, r)
       PROVE  Persists /\ Ledger' /\ ApiInv' /\ rec' = rec
  BY <1>3, <1>4, <1>10, ApiPersists DEF AcceptLaunch, Reexecute
<1> QED BY <1>5, <1>6, <1>7, <1>8, <1>9, <1>10 DEF DagsterNext

----------------------------------------------------------------------------
(* ... the worker *)

(* A step of the worker that writes no row and does not end as a success. *)
LEMMA WorkerMoves ==
  ASSUME TypeOK, Ledger, NEW r \in Run, worker[r] \in {"adopting"} \cup InOp,
         NEW pc \in (InOp \cup Over) \ {"success"}, worker[r] = "adopting" => pc \in Over,
         BecomeWorker(r, pc), UNCHANGED << now, rows, runJob, status, ran >>
  PROVE  Persists /\ Ledger'
<1>1. worker \in [Run -> WorkerPC] /\ now \in Nat BY DEF TypeOK
<1>2. worker'[r] = pc /\ \A q \in Run : q # r => worker'[q] = worker[q]
  BY <1>1 DEF BecomeWorker
<1>3. Persists BY <1>1, <1>2 DEF Persists, Over, InOp, FinalStatus
<1>4. RunsInv'
  BY <1>1, <1>2 DEF Ledger, RunsInv, InOp, Over, FinalStatus
<1>5. OwnerInv'
  <2>1. worker[r] # "success" BY DEF InOp
  <2>2. ran \subseteq Run BY DEF TypeOK
  <2> QED BY <1>2, <2>1, <2>2, RowAssumption DEF Ledger, OwnerInv
<1> QED BY <1>3, <1>4, <1>5 DEF Ledger

(* A terminal write of the run that owns the row. *)
LEMMA OwnerDecides ==
  ASSUME TypeOK, Ledger, NEW r \in Run, worker[r] \in InOp, Owns(RowOf(r), r),
         NEW s \in TerminalStates, SetRow(runJob[r], Ended(RowOf(r), s)),
         NEW pc \in Over, BecomeWorker(r, pc), s = "done" <=> pc = "success",
         UNCHANGED << now, runJob, status, ran >>
  PROVE  /\ Persists /\ Ledger'
         /\ \A j \in Job : rows[j].state = "absent" => rows'[j] = rows[j]
<1> DEFINE j == runJob[r]
<1>1. worker \in [Run -> WorkerPC] /\ now \in Nat /\ rows \in [Job -> Row] /\ ran \subseteq Run
  BY DEF TypeOK
<1>2. j \in Job /\ r \in ran BY DEF Ledger, RunsInv, InOp
<1>3. worker'[r] = pc /\ \A q \in Run : q # r => worker'[q] = worker[q]
  BY <1>1 DEF BecomeWorker
<1>4. rows[j].state = "running" /\ rows[j].run = r BY DEF Owns, RowOf
<1>5. rows'[j].state = s /\ rows'[j].run = r
  BY <1>1, <1>2, <1>4, RowFields DEF SetRow, RowOf
<1>6. \A i \in Job : i # j => rows'[i] = rows[i] BY <1>1 DEF SetRow
<1>7. Persists BY <1>1, <1>3, <1>4, <1>6 DEF Persists, TerminalStates, InOp, Over, FinalStatus
<1>8. RunsInv'
  BY <1>1, <1>2, <1>3, <1>4, <1>5, <1>6
  DEF Ledger, RunsInv, OwnerInv, InOp, Over, FinalStatus
<1>9. OwnerInv'
  BY <1>1, <1>2, <1>3, <1>4, <1>5, <1>6, RowAssumption
  DEF Ledger, OwnerInv, TerminalStates, InOp
<1> QED BY <1>4, <1>6, <1>7, <1>8, <1>9 DEF Ledger

(* A step of a worker process keeps the invariant.                        *)
LEMMA WorkerStep ==
  ASSUME IInv, NEW r \in Run, WorkerNext(r)
  PROVE  Persists /\ Ledger' /\ ApiInv' /\ rec' = rec
<1> USE DEF apiVars, dagsterVars, workerVars
<1>1. TypeOK /\ Ledger BY DEF IInv, Ledger
<1>2. now \in Nat /\ runJob \in [Run -> Job \cup {NoJob}] /\ status \in [Run -> Status]
        /\ worker \in [Run -> WorkerPC] /\ ran \subseteq Run /\ rows \in [Job -> Row]
  BY <1>1 DEF TypeOK
<1>3. UNCHANGED << api, rec >>
  BY DEF WorkerNext, Adopt, AdoptRejected, RenewLease, NoticeLoss, LeaseLost, LeafEnds,
    LeafStops, Interrupt, MarkDone, MarkFailed, MarkCancelled, MarkEnded, WriteFails, Crash
<1> DEFINE Kept == \A j \in Job : rows[j].state = "absent" => rows'[j] = rows[j]
<1>4. CASE Adopt(r)
  <2> DEFINE j == runJob[r]
  <2>1. j \in Job /\ r \notin ran
    BY <1>1, <1>4 DEF Adopt, Ledger, RunsInv, InOp, Over, FinalStatus
  <2>2. rows[j].state = "queued" /\ rows[j].run = NoRun
    BY <1>1, <1>4, <2>1, RowAssumption DEF Adopt, CanAdopt, Owns, RowOf, Ledger, OwnerInv
  <2>3. rows'[j].state = "running" /\ rows'[j].run = r
    BY <1>2, <1>4, <2>1, RowFields DEF Adopt, SetRow, RowOf
  <2>4. \A i \in Job : i # j => rows'[i] = rows[i] BY <1>2, <1>4 DEF Adopt, SetRow
  <2>5. worker'[r] = "leaf" /\ \A q \in Run : q # r => worker'[q] = worker[q]
    BY <1>2, <1>4 DEF Adopt, BecomeWorker
  <2>6. UNCHANGED << now, runJob, status >> /\ ran' = ran \cup {r} /\ worker[r] = "adopting"
    BY <1>4 DEF Adopt
  <2>7. Persists
    BY <1>2, <2>2, <2>4, <2>5, <2>6 DEF Persists, TerminalStates, Over, FinalStatus
  <2>8. RunsInv'
    BY <1>1, <1>2, <2>1, <2>2, <2>3, <2>4, <2>5, <2>6
    DEF Ledger, RunsInv, InOp, Over, FinalStatus
  <2>9. OwnerInv'
    BY <1>1, <1>2, <2>1, <2>2, <2>3, <2>4, <2>5, <2>6, RowAssumption DEF Ledger, OwnerInv
  <2>10. Kept BY <2>2, <2>4
  <2> QED BY <1>3, <2>7, <2>8, <2>9, <2>10, ApiPersists DEF Ledger
<1>5. CASE RenewLease(r)
  <2> DEFINE j == runJob[r]
  <2>1. j \in Job BY <1>1, <1>5 DEF RenewLease, Ledger, RunsInv, InOp
  <2>2. rows[j].state = "running" BY <1>5 DEF RenewLease, Owns, RowOf
  <2>3. rows'[j].state = rows[j].state /\ rows'[j].run = rows[j].run
    BY <1>2, <1>5, <2>1, RowFields DEF RenewLease, SetRow, RowOf
  <2>4. \A i \in Job : i # j => rows'[i] = rows[i] BY <1>2, <1>5 DEF RenewLease, SetRow
  <2>5. UNCHANGED << now, runJob, status, worker, ran >> BY <1>5 DEF RenewLease
  <2>6. Persists BY <1>2, <2>2, <2>4, <2>5 DEF Persists, TerminalStates
  <2>7. RunsInv' BY <1>1, <2>3, <2>4, <2>5 DEF Ledger, RunsInv
  <2>8. OwnerInv' BY <1>1, <2>3, <2>4, <2>5 DEF Ledger, OwnerInv
  <2>9. Kept BY <2>2, <2>4
  <2> QED BY <1>3, <2>6, <2>7, <2>8, <2>9, ApiPersists DEF Ledger
<1>6. CASE NoticeLoss(r)
  <2>1. Persists BY <1>2, <1>6 DEF NoticeLoss, Persists
  <2>2. Ledger' BY <1>1, <1>6, LedgerFrame DEF NoticeLoss
  <2>3. ApiInv' BY <1>3, <1>6, <2>1, ApiPersists DEF NoticeLoss
  <2> QED BY <1>3, <2>1, <2>2, <2>3
<1>7. ASSUME NEW pc \in (InOp \cup Over) \ {"success"}, BecomeWorker(r, pc),
             worker[r] \in {"adopting"} \cup InOp, worker[r] = "adopting" => pc \in Over,
             UNCHANGED << now, rows, runJob, status, ran >>
      PROVE  Persists /\ Ledger' /\ ApiInv' /\ rec' = rec
  BY <1>1, <1>3, <1>7, WorkerMoves, ApiPersists
<1>8. CASE AdoptRejected(r) \/ WriteFails(r)
  <2>1. "failure" \in Over BY DEF Over, FinalStatus
  <2> QED BY <1>7, <1>8, <2>1 DEF AdoptRejected, WriteFails, InOp
<1>9. CASE Crash(r)
  <2>1. "dead" \in Over BY DEF Over
  <2> QED BY <1>7, <1>9, <2>1 DEF Crash
<1>10. CASE LeafEnds(r) \/ LeafStops(r) \/ LeaseLost(r)
  <2>1. \E pc \in {"completing", "failing", "cancelling", "failure"} : BecomeWorker(r, pc)
    BY <1>10 DEF LeafEnds, LeafStops, LeaseLost
  <2>2. {"completing", "failing", "cancelling", "failure"} \subseteq (InOp \cup Over) \ {"success"}
    BY DEF InOp, Over, FinalStatus
  <2>3. worker[r] = "leaf" /\ UNCHANGED << now, rows, runJob, status, ran >>
    BY <1>10 DEF LeafEnds, LeafStops, LeaseLost
  <2> QED BY <1>7, <2>1, <2>2, <2>3 DEF InOp
<1>11. CASE Interrupt(r)
  <2>1. "cancelling" \in InOp /\ "canceled" \in Over BY DEF InOp, Over, FinalStatus
  <2>2. worker[r] \in {"adopting"} \cup InOp BY <1>11 DEF Interrupt, InOp
  <2>3. UNCHANGED << now, rows, runJob, status, ran >> BY <1>11 DEF Interrupt
  <2>4. CASE worker[r] = "leaf"
    <3>1. BecomeWorker(r, "cancelling") BY <1>11, <2>4 DEF Interrupt
    <3> QED BY <1>7, <2>1, <2>2, <2>3, <2>4, <3>1
  <2>5. CASE worker[r] # "leaf"
    <3>1. BecomeWorker(r, "canceled") BY <1>11, <2>5 DEF Interrupt
    <3> QED BY <1>7, <2>1, <2>2, <2>3, <3>1
  <2> QED BY <2>4, <2>5
<1>12. CASE MarkDone(r)
  <2>1. worker[r] = "completing" /\ UNCHANGED << now, runJob, status, ran >>
    BY <1>12 DEF MarkDone
  <2>2. "success" \in Over /\ "failure" \in Over BY DEF Over, FinalStatus
  <2>3. CASE CanMarkDone(RowOf(r), r)
    <3>1. SetRow(runJob[r], Ended(RowOf(r), "done")) /\ BecomeWorker(r, "success")
      BY <1>12, <2>3 DEF MarkDone
    <3>2. Persists /\ Ledger' /\ Kept
      BY <1>1, <2>1, <2>2, <2>3, <3>1, OwnerDecides DEF CanMarkDone, TerminalStates, InOp
    <3> QED BY <1>3, <3>2, ApiPersists
  <2>4. CASE ~CanMarkDone(RowOf(r), r)
    BY <1>7, <1>12, <2>1, <2>2, <2>4 DEF MarkDone, InOp
  <2> QED BY <2>3, <2>4
<1>13. ASSUME NEW pc \in InOp, NEW s \in {"failed", "cancelled"},
              NEW final \in {"failure", "canceled"}, MarkEnded(r, pc, s, final)
       PROVE  Persists /\ Ledger' /\ ApiInv' /\ rec' = rec
  <2>1. /\ worker[r] = pc /\ BecomeWorker(r, final)
        /\ UNCHANGED << now, runJob, status, ran >>
    BY <1>13 DEF MarkEnded
  <2>2. final \in Over /\ final # "success" BY DEF Over, FinalStatus
  <2>3. CASE CanMarkTerminal(RowOf(r), r)
    <3>1. SetRow(runJob[r], Ended(RowOf(r), s)) BY <1>13, <2>3 DEF MarkEnded
    <3>2. s \in TerminalStates /\ s # "done" BY DEF TerminalStates
    <3>3. Persists /\ Ledger' /\ Kept
      BY <1>1, <2>1, <2>2, <2>3, <3>1, <3>2, OwnerDecides DEF CanMarkTerminal
    <3> QED BY <1>3, <3>3, ApiPersists
  <2>4. CASE ~CanMarkTerminal(RowOf(r), r)
    BY <1>7, <1>13, <2>1, <2>2, <2>4 DEF MarkEnded, InOp
  <2> QED BY <2>3, <2>4
<1>14. CASE MarkFailed(r) \/ MarkCancelled(r)
  <2>1. "failing" \in InOp /\ "cancelling" \in InOp BY DEF InOp
  <2> QED BY <1>13, <1>14, <2>1 DEF MarkFailed, MarkCancelled
<1> QED
  BY <1>4, <1>5, <1>6, <1>8, <1>9, <1>10, <1>11, <1>12, <1>14 DEF WorkerNext

----------------------------------------------------------------------------
(* ... the reconciler *)

(* What the reconciler reads in a row holds when it is read.              *)
LEMMA ObservedInv ==
  ASSUME IInv, NEW j \in Job PROVE ObsInv(Observed(j))
BY DEF IInv, OwnerInv, ObsInv, Observed

(* What the reconciler decides is justified when it decides.              *)
LEMMA DecidedInv ==
  ASSUME IInv, NEW o \in Observation, ObsInv(o), NEW s \in {ProbeKnown(o.run), "unknown"},
         NEW d, d = [obs |-> o, outcome |-> ReconcileOutcome(s, o.state, o.valid)]
  PROVE  DecisionInv(d)
<1>1. d.obs = o /\ d.outcome = ReconcileOutcome(s, o.state, o.valid) OBVIOUS
<1>2. o.run \in Run \cup {NoRun} /\ o.valid \in BOOLEAN BY DEF Observation
<1>3. CASE o.state # "running"
  BY <1>1, <1>3 DEF ReconcileOutcome, DecisionInv, Converges, TargetState
<1>4. CASE o.state = "running"
  <2>1. o.run \in Run /\ o.run \in ran /\ runJob[o.run] = o.job
    BY <1>2, <1>4 DEF ObsInv
  <2>2. status[o.run] # "none"
    BY <2>1 DEF IInv, RunsInv, InOp, Over, FinalStatus
  <2>3. d.outcome = "converge_done" => status[o.run] = "success"
    BY <1>1, <1>4, <2>1, RowAssumption DEF ReconcileOutcome, ProbeKnown, RunStateOf
  <2>4. d.outcome = "converge_cancelled" => status[o.run] = "canceled"
    BY <1>1, <1>4, <2>1, RowAssumption DEF ReconcileOutcome, ProbeKnown, RunStateOf
  <2>5. d.outcome = "converge_failed" =>
          status[o.run] = "failure" \/ (status[o.run] = "purged" /\ ~o.valid)
    BY <1>1, <1>4, <2>1, <2>2, RowAssumption
    DEF ReconcileOutcome, ProbeKnown, RunStateOf, IInv, TypeOK, Status, LiveStatus, FinalStatus
  <2>6. d.outcome = "converge_done" => rows[o.job].state = "done"
    BY <2>1, <2>3 DEF IInv, RunsInv
  <2> QED BY <1>1, <2>1, <2>4, <2>5, <2>6, RowAssumption DEF DecisionInv, ObsInv
<1> QED BY <1>3, <1>4

(* Observations and decisions that are left in hand stay justified.       *)
LEMMA LeavePageInv ==
  ASSUME IInv, Persists, NEW page \in SUBSET rec.page, LeavePage(page)
  PROVE  RecInv'
BY RecPersists DEF LeavePage

(* What the reconciler writes: the row it observed, still running, ends as *)
(* failed or cancelled.                                                    *)
LEMMA ConvergeWrites ==
  ASSUME IInv, NEW j \in Job, NEW d \in rec.item, d.obs.job = j, Converges(d.outcome),
         StillAsObserved(rows[j], d.obs)
  PROVE  /\ rows[j].state = "running" /\ rows[j].run = d.obs.run /\ rows[j].run \in Run
         /\ rows[j].lease = d.obs.lease
         /\ \/ d.outcome = "converge_failed" /\ TargetState[d.outcome] = "failed"
            \/ d.outcome = "converge_cancelled" /\ TargetState[d.outcome] = "cancelled"
<1>1. DecisionInv(d) BY DEF IInv, RecInv
<1>2. rows[j].state = "running" /\ rows[j].run = d.obs.run /\ rows[j].lease = d.obs.lease
  BY DEF StillAsObserved
<1>3. rows[j].run \in Run BY <1>2 DEF IInv, OwnerInv, TypeOK
<1>4. d.outcome # "converge_done" BY <1>1, <1>2 DEF DecisionInv
<1>5. d.outcome \in {"converge_failed", "converge_cancelled"}
  BY <1>4 DEF Converges, TargetState
<1> QED BY <1>2, <1>3, <1>5 DEF TargetState

(* A step of the reconciler keeps the invariant.                          *)
LEMMA ReconcilerStep ==
  ASSUME IInv, ReconcilerNext
  PROVE  Persists /\ Ledger' /\ ApiInv' /\ RecInv'
<1> USE DEF apiVars, dagsterVars, workerVars
<1>1. TypeOK /\ Ledger BY DEF IInv, Ledger
<1>2. now \in Nat /\ rows \in [Job -> Row] /\ rec \in Reconciler BY <1>1 DEF TypeOK
<1>3. ASSUME UNCHANGED << now, rows, api, runJob, status, worker, ran >>
      PROVE  Persists /\ Ledger' /\ ApiInv'
  <2>1. Persists BY <1>2, <1>3 DEF Persists
  <2> QED BY <1>1, <1>3, <2>1, LedgerFrame, ApiPersists
<1>4. CASE FetchPage
  <2> DEFINE page == {Observed(j) : j \in Scanned(rec.scanTerminal)}
  <2>1. Persists /\ Ledger' /\ ApiInv' BY <1>3, <1>4 DEF FetchPage
  <2>2. CASE page = {}
    BY <1>4, <2>1, <2>2, LeavePageInv DEF FetchPage
  <2>3. CASE page # {}
    <3>1. rec'.page = page /\ rec'.item = rec.item
      BY <1>2, <1>4, <2>3 DEF FetchPage, Reconciler
    <3>2. \A o \in page : ObsInv(o) BY ObservedInv DEF Scanned
    <3>3. \A o \in page : ObsInv(o)'
      BY <1>4, <3>2 DEF FetchPage, ObsInv, IsLeaseValid
    <3>4. rec.item = {} BY <1>4 DEF FetchPage, RecIdle
    <3> QED BY <2>1, <3>1, <3>3, <3>4 DEF RecInv
  <2> QED BY <2>2, <2>3
<1>5. ASSUME NEW o \in rec.page, Probe(o) \/ ProbeDegraded(o)
      PROVE  Persists /\ Ledger' /\ ApiInv' /\ RecInv'
  <2>1. Persists /\ Ledger' /\ ApiInv' BY <1>3, <1>5 DEF Probe, ProbeDegraded
  <2>2. o \in Observation BY <1>2 DEF Reconciler
  <2>3. ObsInv(o) BY DEF IInv, RecInv
  <2>4. PICK s \in {ProbeKnown(o.run), "unknown"} : Decide(o, s)
    BY <1>5 DEF Probe, ProbeDegraded
  <2> DEFINE d == [obs |-> o, outcome |-> ReconcileOutcome(s, o.state, o.valid)]
  <2>5. DecisionInv(d) BY <2>2, <2>3, DecidedInv
  <2>6. rec'.page = rec.page \ {o} /\ rec'.item = {d}
    BY <1>2, <2>4 DEF Decide, Reconciler
  <2>7. UNCHANGED << now, rows, runJob, status, worker, ran >>
    BY <1>5 DEF Probe, ProbeDegraded
  <2> HIDE DEF d
  <2>8. DecisionInv(d)'
    BY <2>5, <2>6, <2>7 DEF DecisionInv, ObsInv, IsLeaseValid
  <2>9. \A q \in rec'.page : ObsInv(q)'
    BY <2>6, <2>7 DEF IInv, RecInv, ObsInv, IsLeaseValid
  <2> QED BY <2>1, <2>6, <2>8, <2>9 DEF RecInv
<1>6. CASE ApplyKeep \/ ApplyFails \/ BudgetExhausted
  <2>1. Persists /\ Ledger' /\ ApiInv'
    BY <1>3, <1>6 DEF ApplyKeep, ApplyFails, BudgetExhausted
  <2> QED BY <1>6, <2>1, LeavePageInv DEF ApplyKeep, ApplyFails, BudgetExhausted
<1>7. ASSUME NEW j \in Job, ApplyConverge(j)
      PROVE  Persists /\ Ledger' /\ ApiInv' /\ RecInv'
  <2>1. PICK d \in rec.item :
          /\ d.obs.job = j
          /\ Converges(d.outcome)
          /\ IF StillAsObserved(rows[j], d.obs)
             THEN SetRow(j, Ended(rows[j], TargetState[d.outcome]))
             ELSE UNCHANGED rows
    BY <1>7 DEF ApplyConverge
  <2>2. LeavePage(rec.page) /\ UNCHANGED << now, api, runJob, status, worker, ran >>
    BY <1>7 DEF ApplyConverge
  <2>3. CASE StillAsObserved(rows[j], d.obs)
    <3>1. rows[j].state = "running" /\ TargetState[d.outcome] \in {"failed", "cancelled"}
      BY <2>1, <2>3, ConvergeWrites
    <3>2. SetRow(j, Ended(rows[j], TargetState[d.outcome])) BY <2>1, <2>3
    <3>3. Persists
      BY <1>2, <2>2, <3>1, <3>2 DEF Persists, SetRow, TerminalStates
    <3>4. Ledger' BY <1>1, <2>2, <3>1, <3>2, LedgerEnded DEF ActiveStates
    <3>5. \A i \in Job : rows[i].state = "absent" => rows'[i] = rows[i]
      BY <1>2, <3>1, <3>2 DEF SetRow
    <3> QED BY <2>2, <3>3, <3>4, <3>5, ApiPersists, LeavePageInv
  <2>4. CASE ~StillAsObserved(rows[j], d.obs)
    BY <1>3, <2>1, <2>2, <2>4, LeavePageInv
  <2> QED BY <2>3, <2>4
<1>8. ASSUME NEW j \in Job, ApplyOrphan(j)
      PROVE  Persists /\ Ledger' /\ ApiInv' /\ RecInv'
  <2>1. PICK d \in rec.item : TerminateRun(d.obs.run) BY <1>8 DEF ApplyOrphan
  <2>2. d.obs.run \in Run \cup {NoRun}
    BY <1>2 DEF Reconciler, Decision, Observation
  <2>3. LeavePage(rec.page) /\ UNCHANGED << now, rows, api, runJob, worker, ran >>
    BY <1>8 DEF ApplyOrphan
  <2>4. Persists /\ Ledger' BY <1>1, <2>1, <2>2, <2>3, TerminatePersists
  <2> QED BY <2>3, <2>4, ApiPersists, LeavePageInv
<1> QED BY <1>4, <1>5, <1>6, <1>7, <1>8 DEF ReconcilerNext

(* An API restart and the clock keep the invariant.                       *)
LEMMA RestartTickStep ==
  ASSUME IInv, ApiRestart \/ Tick
  PROVE  Persists /\ Ledger' /\ ApiInv' /\ RecInv'
<1> USE DEF dagsterVars, workerVars, apiVars
<1>1. TypeOK /\ Ledger BY DEF IInv, Ledger
<1>2. now \in Nat BY <1>1 DEF TypeOK
<1>3. Persists /\ Ledger' /\ rows' = rows
  BY <1>1, <1>2, LedgerFrame DEF ApiRestart, Tick, Persists
<1>4. CASE ApiRestart
  <2>1. \A j \in Job : api'[j] \in {"idle", "rejected"} => api'[j] = api[j]
    BY <1>4 DEF ApiRestart
  <2>2. ApiInv' BY <1>3, <2>1 DEF IInv, ApiInv
  <2>3. RecInv' BY <1>4 DEF ApiRestart, RecInit, RecInv
  <2> QED BY <1>3, <2>2, <2>3
<1>5. CASE Tick
  BY <1>3, <1>5, ApiPersists, RecPersists DEF Tick
<1> QED BY <1>4, <1>5

----------------------------------------------------------------------------
(* The theorems *)

(* Every step keeps the invariant and takes nothing back.                 *)
LEMMA StepPersists ==
  ASSUME IInv, Next
  PROVE  Persists /\ IInv'
<1>1. TypeOK'
  <2>1. ASSUME NEW r \in Run, WorkerNext(r) PROVE runJob[r] \in Job
    BY <2>1 DEF IInv, RunsInv, WorkerNext, Adopt, AdoptRejected, RenewLease, NoticeLoss,
      LeaseLost, LeafEnds, LeafStops, Interrupt, MarkDone, MarkFailed, MarkCancelled,
      MarkEnded, WriteFails, Crash, InOp
  <2> QED BY <2>1, TypeApi, TypeDagster, TypeWorker, TypeReconciler, TypeRestartTick
    DEF Next, IInv
<1>2. CASE \/ \E j \in Job : ApiNext(j) \/ DropLaunch(j)
           \/ \E r \in Run : DagsterNext(r) \/ WorkerNext(r)
  <2>1. Persists /\ Ledger' /\ ApiInv' /\ rec' = rec
    BY <1>2, ApiStep, DagsterStep, WorkerStep
  <2> QED BY <1>1, <2>1, RecPersists DEF IInv, Ledger
<1>3. CASE ReconcilerNext \/ ApiRestart \/ Tick
  BY <1>1, <1>3, ReconcilerStep, RestartTickStep DEF IInv, Ledger
<1> QED BY <1>2, <1>3 DEF Next

(* The initial state satisfies the invariant.                             *)
LEMMA InitInv == Init => IInv
<1> SUFFICES ASSUME Init PROVE IInv OBVIOUS
<1>1. \A j \in Job : rows[j].state = "absent" /\ rows[j].run = NoRun
  BY DEF Init, AbsentRow
<1>2. RunsInv BY DEF Init, RunsInv, InOp
<1>3. OwnerInv BY <1>1 DEF Init, OwnerInv
<1>4. ApiInv BY <1>1 DEF Init, ApiInv
<1>5. RecInv BY DEF Init, RecInit, RecInv
<1> QED BY <1>2, <1>3, <1>4, <1>5, TypeInit DEF IInv

(* A stuttering step keeps the invariant.                                 *)
LEMMA StutterInv ==
  ASSUME IInv, UNCHANGED vars PROVE IInv'
BY DEF IInv, vars, TypeOK, RunsInv, OwnerInv, ApiInv, RecInv, DecisionInv, ObsInv, IsLeaseValid

(* The inductive invariant holds of every behaviour of the control plane.  *)
THEOREM Inductive == Spec => []IInv
<1>1. IInv /\ [Next]_vars => IInv' BY StepPersists, StutterInv
<1> QED BY <1>1, InitInv, PTL DEF Spec

(* Every state of the control plane is well typed, for any number of jobs  *)
(* and runs and any lease.                                                 *)
THEOREM TypeCorrect == Spec => []TypeOK
<1>1. IInv => TypeOK BY DEF IInv
<1> QED BY <1>1, Inductive, PTL

(* At most one run ever enters the leaf of a job, however many runs were   *)
(* launched or re-executed for it.                                         *)
THEOREM OneExecutorHolds == Spec => []OneExecutor
<1>1. IInv => OneExecutor BY DEF IInv, OwnerInv, OneExecutor
<1> QED BY <1>1, Inductive, PTL

(* A job whose launch was answered with a 502 is never executed.           *)
THEOREM RejectedNeverRunsHolds == Spec => []RejectedNeverRuns
<1>1. IInv => RejectedNeverRuns
  BY RowAssumption DEF IInv, TypeOK, OwnerInv, ApiInv, RejectedNeverRuns
<1> QED BY <1>1, Inductive, PTL

(* A row says done only after the run it names has returned from the leaf  *)
(* and ended as a success.                                                 *)
THEOREM DoneIsSuccessHolds == Spec => []DoneIsSuccess
<1>1. IInv => DoneIsSuccess
  BY DEF IInv, OwnerInv, DoneIsSuccess
<1> QED BY <1>1, Inductive, PTL

(* No step of any process changes the verdict or the owner of a row that   *)
(* has ended.                                                              *)
THEOREM VerdictIsFinalHolds == Spec => VerdictIsFinal
<1> DEFINE Final == \A j \in Job : rows[j].state \in TerminalStates =>
                       rows'[j].state = rows[j].state /\ rows'[j].run = rows[j].run
<1>1. IInv /\ [Next]_vars => [Final]_vars
  <2>1. IInv /\ Next => Final BY StepPersists DEF Persists
  <2> QED BY <2>1
<1> QED BY <1>1, Inductive, PTL DEF Spec, VerdictIsFinal

(* The reconciler takes a running row only for a reason that holds at the  *)
(* moment it writes.                                                       *)
THEOREM EvictionJustifiedHolds == Spec => EvictionJustified
<1> DEFINE Justified(j) ==
      (rec # rec' /\ rows[j].state = "running" /\ rows'[j] # rows[j]) =>
      LET r == rows[j].run IN
         \/ rows'[j].state = "done"      /\ status[r] = "success"
         \/ rows'[j].state = "cancelled" /\ status[r] = "canceled"
         \/ rows'[j].state = "failed"    /\ status[r] = "failure"
         \/ /\ status[r] = "purged"
            /\ rows'[j].state # "done"
            /\ worker[r] \in Over \/ ~IsLeaseValid(rows[j].lease, now)
<1>1. IInv /\ Next => \A j \in Job : Justified(j)
  <2> SUFFICES ASSUME IInv, Next, NEW j \in Job,
                      rec # rec', rows[j].state = "running", rows'[j] # rows[j]
               PROVE  Justified(j)
    OBVIOUS
  <2>1. ReconcilerNext
    BY ApiStep, DagsterStep, WorkerStep DEF Next, ApiRestart, Tick
  <2>2. ASSUME NEW i \in Job, ApplyConverge(i) PROVE Justified(j)
    <3>1. PICK d \in rec.item :
            /\ d.obs.job = i
            /\ Converges(d.outcome)
            /\ IF StillAsObserved(rows[i], d.obs)
               THEN SetRow(i, Ended(rows[i], TargetState[d.outcome]))
               ELSE UNCHANGED rows
      BY <2>2 DEF ApplyConverge
    <3>2. i = j /\ StillAsObserved(rows[j], d.obs)
            /\ SetRow(j, Ended(rows[j], TargetState[d.outcome]))
      BY <3>1 DEF SetRow, IInv, TypeOK
    <3>3. /\ rows[j].run = d.obs.run /\ rows[j].lease = d.obs.lease
          /\ \/ d.outcome = "converge_failed" /\ TargetState[d.outcome] = "failed"
             \/ d.outcome = "converge_cancelled" /\ TargetState[d.outcome] = "cancelled"
      BY <3>1, <3>2, ConvergeWrites
    <3>4. rows'[j].state = TargetState[d.outcome]
      BY <3>2, RowFields DEF SetRow, IInv, TypeOK
    <3>5. DecisionInv(d) BY DEF IInv, RecInv
    <3> QED BY <3>3, <3>4, <3>5 DEF DecisionInv
  <2> QED
    BY <2>1, <2>2
    DEF ReconcilerNext, FetchPage, Probe, ProbeDegraded, ApplyKeep, ApplyOrphan, ApplyFails,
      BudgetExhausted
<1>2. IInv /\ [Next]_vars => [\A j \in Job : Justified(j)]_vars
  <2> HIDE DEF Justified
  <2> QED BY <1>1
<1> QED BY <1>2, Inductive, PTL DEF Spec, EvictionJustified

----------------------------------------------------------------------------
(* The detailed specification implements JobLifecycle *)

(* The executors of a job change only when a run adopts the row. *)
LEMMA ExecutorsKept ==
  ASSUME Persists, ran' = ran
  PROVE  UNCHANGED [j \in Job |-> {r \in ran : runJob[r] = j}]
BY DEF Persists

(* A step that changes no state or run of a row is a stutter of the lifecycle. *)
LEMMA StutterMaps ==
  ASSUME Persists, ran' = ran,
         \A j \in Job : rows'[j].state = rows[j].state /\ rows'[j].run = rows[j].run
  PROVE  UNCHANGED Lifecycle!vars
BY ExecutorsKept DEF Lifecycle!vars

(* A step that ends an open row is a Withdraw or a Decide.                *)
LEMMA VerdictMaps ==
  ASSUME TypeOK, Persists, ran' = ran, NEW j \in Job, NEW s \in TerminalStates,
         rows[j].state = "running" \/ (rows[j].state = "queued" /\ s # "done"),
         SetRow(j, Ended(rows[j], s))
  PROVE  Lifecycle!Next
<1>1. rows \in [Job -> Row] BY DEF TypeOK
<1>2. rows'[j].state = s /\ rows'[j].run = rows[j].run
  BY <1>1, RowFields DEF SetRow
<1>3. \A i \in Job : i # j => rows'[i] = rows[i] BY <1>1 DEF SetRow
<1>4. [i \in Job |-> rows'[i].state] = [[i \in Job |-> rows[i].state] EXCEPT ![j] = s]
  BY <1>2, <1>3
<1>5. [i \in Job |-> rows'[i].run] = [i \in Job |-> rows[i].run] BY <1>2, <1>3
<1>6. s \in Lifecycle!Verdicts BY DEF TerminalStates, Lifecycle!Verdicts
<1>7. Lifecycle!Withdraw(j) \/ Lifecycle!Decide(j)
  BY <1>4, <1>5, <1>6, ExecutorsKept DEF Lifecycle!Withdraw, Lifecycle!Decide
<1> QED BY <1>7 DEF Lifecycle!Next

(* The insertion of a row is a Submit.                                    *)
LEMMA SubmitMaps ==
  ASSUME IInv, Persists, NEW j \in Job, InsertJob(j)
  PROVE  Lifecycle!Next
<1>1. rows \in [Job -> Row] BY DEF IInv, TypeOK
<1>2. rows[j].state = "absent" /\ rows[j].run = NoRun
  BY DEF IInv, ApiInv, OwnerInv, InsertJob
<1>3. rows' = [rows EXCEPT ![j] = QueuedRow] BY DEF InsertJob, SetRow
<1>4. QueuedRow.state = "queued" /\ QueuedRow.run = NoRun BY DEF QueuedRow
<1>5. [i \in Job |-> rows'[i].state] = [[i \in Job |-> rows[i].state] EXCEPT ![j] = "queued"]
  BY <1>1, <1>3, <1>4
<1>6. [i \in Job |-> rows'[i].run] = [i \in Job |-> rows[i].run]
  BY <1>1, <1>2, <1>3, <1>4
<1>7. ran' = ran BY DEF InsertJob, workerVars
<1>8. Lifecycle!Submit(j)
  BY <1>2, <1>5, <1>6, <1>7, ExecutorsKept DEF Lifecycle!Submit
<1> QED BY <1>8 DEF Lifecycle!Next

(* The adoption of a row is a Claim, unless the run claimed it before.    *)
LEMMA ClaimMaps ==
  ASSUME IInv, Persists, NEW r \in Run, NEW j \in Job, j = runJob[r], Adopt(r)
  PROVE  Lifecycle!Next
<1>1. rows \in [Job -> Row] /\ ran \subseteq Run BY DEF IInv, TypeOK
<1>2. r \notin ran BY DEF IInv, RunsInv, Adopt, InOp, Over, FinalStatus
<1>3. rows[j].state = "queued"
  BY <1>2, RowAssumption DEF Adopt, CanAdopt, Owns, RowOf, IInv, OwnerInv
<1>4. rows'[j].state = "running" /\ rows'[j].run = r
  BY <1>1, <1>2, RowFields DEF Adopt, SetRow, RowOf
<1>5. \A i \in Job : i # j => rows'[i] = rows[i] BY <1>1 DEF Adopt, SetRow
<1>6. ran' = ran \cup {r} /\ runJob' = runJob BY DEF Adopt, dagsterVars
<1>7. [i \in Job |-> rows'[i].state] = [[i \in Job |-> rows[i].state] EXCEPT ![j] = "running"]
  BY <1>4, <1>5
<1>8. [i \in Job |-> rows'[i].run] = [[i \in Job |-> rows[i].run] EXCEPT ![j] = r]
  BY <1>4, <1>5
<1>9. [i \in Job |-> {q \in ran' : runJob'[q] = i}] =
        [[i \in Job |-> {q \in ran : runJob[q] = i}] EXCEPT ![j] = @ \cup {r}]
  BY <1>2, <1>6
<1>10. Lifecycle!Claim(j, r)
  BY <1>2, <1>3, <1>7, <1>8, <1>9 DEF Lifecycle!Claim
<1> QED BY <1>10 DEF Lifecycle!Next

(* Every step of the control plane is a step or a stutter of the lifecycle. *)
LEMMA LifecycleStep ==
  ASSUME IInv, Next
  PROVE  [Lifecycle!Next]_(Lifecycle!vars)
<1> USE DEF apiVars, dagsterVars, workerVars
<1>1. Persists /\ TypeOK BY StepPersists DEF IInv
<1>2. ASSUME UNCHANGED << rows, ran >> PROVE UNCHANGED Lifecycle!vars
  BY <1>1, <1>2, StutterMaps
<1>3. ASSUME NEW j \in Job, ApiNext(j) \/ DropLaunch(j)
      PROVE  [Lifecycle!Next]_(Lifecycle!vars)
  <2>1. CASE InsertJob(j) BY <1>1, <2>1, SubmitMaps
  <2>2. CASE SettleLaunchError(j)
    <3>1. CASE CanMarkLaunchFailed(rows[j])
      BY <1>1, <2>2, <3>1, VerdictMaps
      DEF SettleLaunchError, CanMarkLaunchFailed, TerminalStates
    <3> QED BY <1>2, <2>2, <3>1 DEF SettleLaunchError
  <2>3. CASE CancelWrite(j)
    <3>1. CASE CanCancel(rows[j])
      BY <1>1, <2>3, <3>1, VerdictMaps DEF CancelWrite, CanCancel, ActiveStates, TerminalStates
    <3> QED BY <1>2, <2>3, <3>1 DEF CancelWrite
  <2> QED
    BY <1>2, <1>3, <2>1, <2>2, <2>3
    DEF ApiNext, DropLaunch, SendLaunch, LaunchAnswered, LaunchFails, CancelRead, CancelPropagate
<1>4. ASSUME NEW r \in Run, DagsterNext(r) PROVE UNCHANGED Lifecycle!vars
  BY <1>2, <1>4
  DEF DagsterNext, AcceptLaunch, Reexecute, OperatorTerminate, PurgeRun, StartRun, RecordEnd,
    RecordDeath
<1>5. ASSUME NEW r \in Run, WorkerNext(r) PROVE [Lifecycle!Next]_(Lifecycle!vars)
  <2>1. CASE Adopt(r)
    <3>1. runJob[r] \in Job BY <2>1 DEF IInv, RunsInv, Adopt
    <3> QED BY <1>1, <2>1, <3>1, ClaimMaps
  <2>2. CASE RenewLease(r)
    <3>1. rows \in [Job -> Row] BY <1>1 DEF TypeOK
    <3>2. \A j \in Job : rows'[j].state = rows[j].state /\ rows'[j].run = rows[j].run
      BY <2>2, <3>1, RowFields DEF RenewLease, SetRow, RowOf
    <3> QED BY <1>1, <2>2, <3>2, StutterMaps DEF RenewLease
  <2>3. ASSUME worker[r] \in InOp PROVE runJob[r] \in Job
    BY <2>3 DEF IInv, RunsInv, InOp
  <2>4. ASSUME NEW s \in TerminalStates, worker[r] \in InOp, Owns(RowOf(r), r), ran' = ran,
               SetRow(runJob[r], Ended(RowOf(r), s))
        PROVE  Lifecycle!Next
    BY <1>1, <2>3, <2>4, VerdictMaps DEF Owns, RowOf
  <2>5. CASE MarkDone(r)
    <3>1. CASE CanMarkDone(RowOf(r), r)
      BY <2>4, <2>5, <3>1 DEF MarkDone, CanMarkDone, TerminalStates, InOp
    <3> QED BY <1>2, <2>5, <3>1 DEF MarkDone
  <2>6. CASE MarkFailed(r) \/ MarkCancelled(r)
    <3>1. CASE CanMarkTerminal(RowOf(r), r)
      BY <2>4, <2>6, <3>1
      DEF MarkFailed, MarkCancelled, MarkEnded, CanMarkTerminal, TerminalStates, InOp
    <3> QED BY <1>2, <2>6, <3>1 DEF MarkFailed, MarkCancelled, MarkEnded
  <2> QED
    BY <1>2, <1>5, <2>1, <2>2, <2>5, <2>6
    DEF WorkerNext, AdoptRejected, NoticeLoss, LeaseLost, LeafEnds, LeafStops, Interrupt,
      WriteFails, Crash
<1>6. CASE ReconcilerNext
  <2>1. ASSUME NEW j \in Job, ApplyConverge(j) PROVE [Lifecycle!Next]_(Lifecycle!vars)
    <3>1. PICK d \in rec.item :
            /\ d.obs.job = j
            /\ Converges(d.outcome)
            /\ IF StillAsObserved(rows[j], d.obs)
               THEN SetRow(j, Ended(rows[j], TargetState[d.outcome]))
               ELSE UNCHANGED rows
      BY <2>1 DEF ApplyConverge
    <3>2. ran' = ran BY <2>1 DEF ApplyConverge
    <3>3. CASE StillAsObserved(rows[j], d.obs)
      <4>1. TargetState[d.outcome] \in TerminalStates BY <3>1, TargetType
      <4>2. rows[j].state = "running" BY <3>3 DEF StillAsObserved
      <4> QED BY <1>1, <3>1, <3>2, <3>3, <4>1, <4>2, VerdictMaps
    <3> QED BY <1>2, <3>1, <3>2, <3>3
  <2> QED
    BY <1>2, <1>6, <2>1
    DEF ReconcilerNext, FetchPage, Probe, ProbeDegraded, ApplyKeep, ApplyOrphan, ApplyFails,
      BudgetExhausted
<1>7. CASE ApiRestart \/ Tick BY <1>2, <1>7 DEF ApiRestart, Tick
<1> QED BY <1>3, <1>4, <1>5, <1>6, <1>7 DEF Next

(* The initial state maps to the initial state of the lifecycle.          *)
LEMMA LifecycleInit == Init => Lifecycle!Init
BY DEF Init, Lifecycle!Init, AbsentRow

(* Every behaviour of the API, Dagster, the workers and the reconciler is a *)
(* behaviour of JobLifecycle: a job is claimed at most once, by one run,    *)
(* and decided once.                                                        *)
THEOREM RefinesLifecycle == Spec => ImplementsLifecycle
<1>1. IInv /\ [Next]_vars => [Lifecycle!Next]_(Lifecycle!vars)
  <2>1. IInv /\ UNCHANGED vars => UNCHANGED Lifecycle!vars
    BY DEF vars, Lifecycle!vars
  <2> QED BY <2>1, LifecycleStep
<1> QED BY <1>1, LifecycleInit, Inductive, PTL DEF Spec, ImplementsLifecycle, Lifecycle!Spec
=============================================================================
