------------------------ MODULE FullLoadBatchProofs ------------------------
(***************************************************************************)
(* Proofs about FullLoadBatch, for every number of sources (none for a     *)
(* batch that resumes).  The argument is about `stage': the stages before  *)
(* it are done and stay done, those after it have not begun; the worker    *)
(* goes on only from a stage that it has written as done itself.           *)
(***************************************************************************)
EXTENDS FullLoadBatch, TLAPS

StageInv ==
    /\ \A k \in Stages : k < stage => rows[k].state = "done"
    /\ \A k \in Stages : k > stage => rows[k].state \notin {"running", "done"}
    /\ pc = "report" => rows[stage].state = "done" /\ stage # Consistency
    /\ pc \in {"idle", "adopt"} => stage = 1
    /\ pc = "return" => stage = Mv /\ rows[Mv].state = "done"
    /\ rows[Root].state = "done" => stage = Mv /\ rows[Mv].state = "done"

(* Before the swap nothing is published, and each step of the publication  *)
(* is where it says it is.                                                 *)
BeforeSwap == {"check", "insert", "announce", "claim", "leaf", "swap"}

PublishInv ==
    /\ stage # Mv => serving = "old" /\ pc \notin Publication
    /\ stage = Mv => severity # "none"
    /\ pc = "childDone" /\ stage = Consistency => severity # "none"
    /\ serving # "old" \/ pc \in Publication => GateOpen
    /\ pc \in BeforeSwap => serving = "old"
    /\ pc = "parts" => serving = "swapped"
    /\ pc = "release" => serving = "refreshed"
    /\ pc = "childDone" /\ stage = Mv => serving = "released"
    /\ rows[Mv].state = "done" => serving = "released"

LaunchInv ==
    /\ api = "idle" => ~sent /\ \A n \in Nodes : rows[n] = AbsentRow
    /\ ~sent => pc = "idle"

IInv == TypeOK /\ StageInv /\ PublishInv /\ LaunchInv

(* A step of another writer, or one that only gives rows up: a row that is *)
(* not open stays as it is, and none becomes running or done.              *)
Kept ==
    \A n \in Nodes :
        /\ rows'[n].state \in {rows[n].state, "failed", "cancelled"}
        /\ rows[n].state \notin ActiveStates => rows'[n] = rows[n]

----------------------------------------------------------------------------
(* Rows and stages *)

(* The root is no stage, and the stages of a batch are in the order        *)
(* sources, consistency check, refresh.                                    *)
LEMMA StageOrder ==
  /\ Nodes = {Root} \cup Stages /\ Root \notin Stages
  /\ Consistency \in Stages /\ Mv \in Stages /\ Consistency + 1 = Mv
  /\ 1 \in Stages /\ 1 # Mv
  /\ \A k \in Stages : k \in Nat /\ 1 <= k /\ k <= Mv
  /\ \A k \in Sources : k \in Stages /\ k < Consistency
  /\ \A k \in Stages : k \in Sources \/ k = Consistency \/ k = Mv
BY BatchAssumption DEF Nodes, Root, Stages, Consistency, Mv, Sources

(* The writers of a row leave a row. *)
LEMMA RowTypes ==
  /\ AbsentRow \in Row /\ QueuedRow \in Row
  /\ \A row \in Row : \A s \in TerminalStates :
        Ended(row, s) \in Row /\ Ended(row, s).state = s
  /\ \A row \in Row :
        /\ Adopted(row, BatchRun, LeaseTTL) \in Row
        /\ Adopted(row, BatchRun, LeaseTTL).state = "running"
BY BatchAssumption, RowAssumption
DEF AbsentRow, QueuedRow, Row, NoLease, RowStates, ActiveStates, TerminalStates, Ended, Adopted

(* What SetRow does to a row and to the others. *)
LEMMA SetRowIs ==
  ASSUME TypeOK, NEW n \in Nodes, NEW row \in Row, SetRow(n, row)
  PROVE  /\ rows' \in [Nodes -> Row]
         /\ rows'[n] = row
         /\ \A m \in Nodes \ {n} : rows'[m] = rows[m]
BY DEF TypeOK, SetRow

(* An open row that is given up. *)
LEMMA EndedKept ==
  ASSUME TypeOK, NEW n \in Nodes, rows[n].state \in ActiveStates,
         NEW s \in {"failed", "cancelled"}, SetRow(n, Ended(rows[n], s))
  PROVE  Kept /\ rows' \in [Nodes -> Row]
<1>1. Ended(rows[n], s) \in Row /\ Ended(rows[n], s).state = s
  BY RowTypes DEF TypeOK, TerminalStates
<1> QED BY <1>1, SetRowIs DEF Kept

(* cancel_queued_batch_children keeps every row that is not queued. *)
LEMMA CancelKept ==
  ASSUME TypeOK, CancelQueuedChildren
  PROVE  Kept /\ rows' \in [Nodes -> Row]
<1>1. \A n \in Nodes : /\ Ended(rows[n], "cancelled") \in Row
                       /\ Ended(rows[n], "cancelled").state = "cancelled"
  BY RowTypes DEF TypeOK, TerminalStates
<1> QED BY <1>1 DEF Kept, CancelQueuedChildren, ActiveStates, TypeOK

(* So does a step that writes no row. *)
LEMMA SameKept ==
  ASSUME TypeOK, UNCHANGED rows PROVE Kept /\ rows' \in [Nodes -> Row]
BY DEF Kept, TypeOK

(* Steps that only give rows up keep the invariant when the worker stays   *)
(* where it is, or leaves for good.                                        *)
Leaving == {"childFailed", "clean", "unwind"} \cup Over

LEMMA KeptInv ==
  ASSUME IInv, Kept, rows' \in [Nodes -> Row],
         UNCHANGED << stage, severity, serving, forced >>,
         pc' = pc \/ pc' \in Leaving
  PROVE  StageInv' /\ PublishInv'
<1>1. \A k \in Nodes : /\ rows[k].state = "done" => rows'[k].state = "done"
                       /\ rows'[k].state = "done" => rows[k].state = "done"
                       /\ rows'[k].state = "running" => rows[k].state = "running"
  BY DEF Kept, ActiveStates
<1>2. stage \in Stages BY DEF IInv, TypeOK
<1>3. StageInv' BY <1>1, <1>2, StageOrder DEF IInv, StageInv, Leaving, Over
<1>4. PublishInv'
  BY <1>1, StageOrder DEF IInv, PublishInv, Leaving, Over, Publication, BeforeSwap, GateOpen
<1> QED BY <1>3, <1>4

----------------------------------------------------------------------------
(* The API, the admin, the reconciler *)

(* A step of the launching request keeps the invariant. *)
LEMMA ApiStep ==
  ASSUME IInv, ApiNext PROVE IInv'
<1> USE DEF IInv
<1>1. CASE InsertBatch
  <2>1. pc = "idle" /\ stage = 1 /\ \A n \in Nodes : rows[n] = AbsentRow
    BY <1>1 DEF InsertBatch, LaunchInv, StageInv
  <2>2. rows' \in [Nodes -> Row] /\ \A n \in Nodes : rows'[n].state \notin {"running", "done"}
    BY <1>1, <2>1, RowTypes DEF InsertBatch, QueuedRow, AbsentRow
  <2>3. TypeOK' BY <1>1, <2>2 DEF InsertBatch, TypeOK, ApiPC, workerVars
  <2>4. StageInv' BY <1>1, <2>1, <2>2, StageOrder DEF InsertBatch, StageInv, workerVars
  <2>5. PublishInv'
    BY <1>1, <2>1, <2>2, StageOrder DEF InsertBatch, PublishInv, workerVars, GateOpen
  <2>6. LaunchInv' BY <1>1 DEF InsertBatch, LaunchInv, workerVars
  <2> QED BY <2>3, <2>4, <2>5, <2>6
<1>2. CASE SendLaunch \/ LaunchAnswered \/ ApiStops
  <2>1. Kept /\ rows' \in [Nodes -> Row]
    BY <1>2, SameKept DEF SendLaunch, LaunchAnswered, ApiStops
  <2>2. StageInv' /\ PublishInv'
    BY <1>2, <2>1, KeptInv DEF SendLaunch, LaunchAnswered, ApiStops, workerVars
  <2>3. TypeOK' /\ LaunchInv'
    <3>1. admin' \in [pc : {"idle", "written", "cleaned"}, node : Nodes]
      BY <1>2 DEF SendLaunch, LaunchAnswered, ApiStops, TypeOK
    <3>2. api' \in ApiPC /\ sent' \in BOOLEAN
      BY <1>2 DEF SendLaunch, LaunchAnswered, ApiStops, TypeOK, ApiPC
    <3>3. UNCHANGED << rows, workerVars, terminating, forced >>
      BY <1>2 DEF SendLaunch, LaunchAnswered, ApiStops
    <3>4. TypeOK' BY <2>1, <3>1, <3>2, <3>3 DEF TypeOK, workerVars
    <3>5. LaunchInv'
      BY <1>2, <3>3 DEF SendLaunch, LaunchAnswered, ApiStops, LaunchInv, workerVars
    <3> QED BY <3>4, <3>5
  <2> QED BY <2>2, <2>3
<1>3. CASE SettleLaunchError \/ CleanRejected
  <2>1. Root \in Nodes BY StageOrder
  <2>2. Kept /\ rows' \in [Nodes -> Row]
    BY <1>3, <2>1, EndedKept, CancelKept, SameKept
    DEF SettleLaunchError, CleanRejected, CanMarkLaunchFailed, ActiveStates
  <2>3. StageInv' /\ PublishInv'
    BY <1>3, <2>2, KeptInv DEF SettleLaunchError, CleanRejected, workerVars
  <2>4. TypeOK' /\ LaunchInv'
    BY <1>3, <2>2 DEF SettleLaunchError, CleanRejected, TypeOK, ApiPC, LaunchInv, workerVars
  <2> QED BY <2>3, <2>4
<1> QED BY <1>1, <1>2, <1>3 DEF ApiNext

(* A step that gives rows up and leaves worker and launch alone. *)
LEMMA OthersStep ==
  ASSUME IInv, Kept, rows' \in [Nodes -> Row], UNCHANGED << apiVars, workerVars, forced >>
  PROVE  StageInv' /\ PublishInv' /\ LaunchInv'
<1>1. StageInv' /\ PublishInv' BY KeptInv DEF workerVars
<1>2. LaunchInv'
  BY DEF IInv, LaunchInv, Kept, apiVars, workerVars, AbsentRow, ActiveStates
<1> QED BY <1>1, <1>2

(* A step of the admin keeps the invariant. *)
LEMMA AdminStep ==
  ASSUME IInv, AdminNext PROVE IInv'
<1> USE DEF IInv
<1>1. Kept /\ rows' \in [Nodes -> Row]
  <2>1. ASSUME NEW n \in Nodes, AdminCancel(n) PROVE Kept /\ rows' \in [Nodes -> Row]
    BY <2>1, EndedKept, SameKept DEF AdminCancel, CanCancel
  <2>2. CASE AdminClean \/ AdminTerminate
    BY <2>2, CancelKept, SameKept DEF AdminClean, AdminTerminate
  <2> QED BY <2>1, <2>2 DEF AdminNext
<1>2. UNCHANGED << apiVars, workerVars, forced >>
  BY DEF AdminNext, AdminCancel, AdminClean, AdminTerminate, workerVars
<1>3. TypeOK'
  <2>1. admin' \in [pc : {"idle", "written", "cleaned"}, node : Nodes]
    BY DEF TypeOK, AdminNext, AdminCancel, AdminClean, AdminTerminate
  <2>2. terminating' \in BOOLEAN
    BY DEF TypeOK, AdminNext, AdminCancel, AdminClean, AdminTerminate
  <2> QED BY <1>1, <1>2, <2>1, <2>2 DEF TypeOK, apiVars, workerVars
<1> QED BY <1>1, <1>2, <1>3, OthersStep

(* A step of the reconciler or of the stale sweep keeps the invariant. *)
LEMMA ReconcilerStep ==
  ASSUME IInv, ReconcilerNext PROVE IInv'
<1> USE DEF IInv
<1>1. Kept /\ rows' \in [Nodes -> Row]
  <2>1. ASSUME NEW n \in Nodes, Converge(n) \/ Evict(n) \/ FlagOrphan(n)
        PROVE  Kept /\ rows' \in [Nodes -> Row]
    BY <2>1, EndedKept, SameKept DEF Converge, Evict, FlagOrphan, Scanned, ActiveStates
  <2>2. ASSUME SweepStale PROVE Kept /\ rows' \in [Nodes -> Row]
    <3>1. \A n \in Nodes : Ended(rows[n], "failed") \in Row
                           /\ Ended(rows[n], "failed").state = "failed"
      BY RowTypes DEF TypeOK, TerminalStates
    <3> QED BY <2>2, <3>1 DEF SweepStale, Kept, TypeOK
  <2> QED BY <2>1, <2>2 DEF ReconcilerNext
<1>2. UNCHANGED << apiVars, workerVars, forced >> /\ TypeOK'
  <2>1. UNCHANGED << apiVars, workerVars, forced, admin >> /\ terminating' \in BOOLEAN
    BY DEF ReconcilerNext, Converge, Evict, FlagOrphan, SweepStale, TypeOK, workerVars
  <2> QED BY <1>1, <2>1 DEF TypeOK, apiVars, workerVars
<1> QED BY <1>1, <1>2, OthersStep

----------------------------------------------------------------------------
(* The worker *)

(* The worker steps keep the types. *)
LEMMA TypeWorker ==
  ASSUME TypeOK, WorkerNext PROVE TypeOK'
<1> USE DEF TypeOK
<1>1. stage \in Nodes /\ Root \in Nodes /\ stage \in Stages /\ stage + 1 \in Nat
  BY StageOrder
<1>2. rows' \in [Nodes -> Row]
  <2>1. \A n \in Nodes : \A s \in TerminalStates : Ended(rows[n], s) \in Row
    BY RowTypes
  <2>2. \A n \in Nodes : Adopted(rows[n], BatchRun, LeaseTTL) \in Row
    BY RowTypes
  <2>3. \A n \in Nodes : \A row \in Row : SetRow(n, row) => rows' \in [Nodes -> Row]
    BY SetRowIs
  <2>4. CASE AdoptRoot \/ InsertChild \/ ClaimChild
    BY <1>1, <2>2, <2>3, <2>4, RowTypes DEF AdoptRoot, InsertChild, ClaimChild
  <2>5. CASE ChildDone \/ ChildFailed \/ Unwind \/ Return
    BY <1>1, <2>1, <2>3, <2>5 DEF ChildDone, ChildFailed, Unwind, Return, TerminalStates
  <2>6. CASE Clean BY <2>6, CancelKept DEF Clean
  <2>7. CASE UNCHANGED rows BY <2>7
  <2> QED BY <2>4, <2>5, <2>6, <2>7 DEF WorkerNext, StageNext, EndNext, StartRun, Check, Announce,
       Report, LoadSource, CheckConsistency, PrepareMv, SwapMv, RefreshParts, RecordRelease,
       Publish, LeafStops, NoticeLoss, Fails, Interrupt, Crash
<1>3. pc' \in WorkerPC
  <2> USE DEF WorkerPC, InLeaf, Publication, Over, Goto, Leave, Raise, FailChild, Break
  <2>1. CASE StartRun \/ AdoptRoot \/ NoticeLoss
    BY <2>1 DEF StartRun, AdoptRoot, NoticeLoss
  <2>2. CASE Check \/ InsertChild \/ Announce \/ Report \/ ClaimChild \/ LoadSource
             \/ CheckConsistency
    BY <2>2 DEF Check, InsertChild, Announce, Report, ClaimChild, LoadSource, CheckConsistency
  <2>3. CASE PrepareMv \/ SwapMv \/ RefreshParts \/ RecordRelease \/ LeafStops \/ ChildDone
             \/ ChildFailed
    BY <2>3 DEF PrepareMv, SwapMv, RefreshParts, RecordRelease, Publish, LeafStops, ChildDone,
      ChildFailed
  <2>4. CASE EndNext
    BY <2>4 DEF EndNext, Clean, Unwind, Return, Fails, Interrupt, Crash
  <2> QED BY <2>1, <2>2, <2>3, <2>4 DEF WorkerNext, StageNext
<1>4. exit' \in Exits
  <2> USE DEF Exits, Goto, Leave, Raise, FailChild, Break
  <2>1. CASE StartRun \/ AdoptRoot \/ NoticeLoss \/ EndNext
    BY <2>1 DEF StartRun, AdoptRoot, NoticeLoss, EndNext, Clean, Unwind, Return, Fails,
      Interrupt, Crash
  <2>2. CASE StageNext
    BY <2>2 DEF StageNext, Check, InsertChild, Announce, Report, ClaimChild, LoadSource,
      CheckConsistency, PrepareMv, SwapMv, RefreshParts, RecordRelease, Publish, LeafStops,
      ChildDone, ChildFailed
  <2> QED BY <2>1, <2>2 DEF WorkerNext
<1>5. stage' \in Stages
  <2>1. CASE Report \/ ChildDone
    BY <2>1, <1>1, BatchAssumption DEF Report, ChildDone, Stages, Mv, Consistency
  <2>2. CASE UNCHANGED stage BY <2>2
  <2> QED BY <2>1, <2>2 DEF WorkerNext, StageNext, EndNext, StartRun, AdoptRoot, Check,
       InsertChild, Announce, ClaimChild, LoadSource, CheckConsistency, PrepareMv, SwapMv,
       RefreshParts, RecordRelease, Publish, LeafStops, ChildFailed, Clean, Unwind, Return,
       Fails, Interrupt, Crash, NoticeLoss
<1>6. UNCHANGED << apiVars, admin, terminating, forced >> /\ event' \in BOOLEAN
      /\ severity' \in Severity /\ serving' \in Serving
  BY DEF WorkerNext, StageNext, EndNext, StartRun, AdoptRoot, Check, Report, ChildDone,
       InsertChild, Announce, ClaimChild, LoadSource, CheckConsistency, PrepareMv, SwapMv,
       RefreshParts, RecordRelease, Publish, LeafStops, ChildFailed, Clean, Unwind, Return,
       Fails, Interrupt, Crash, NoticeLoss, Severity, Serving
<1> QED BY <1>2, <1>3, <1>4, <1>5, <1>6 DEF apiVars

(* The steps on which the worker gives up, or only looks, keep the rest of *)
(* the invariant.                                                          *)
LEMMA GiveUpStep ==
  ASSUME IInv, EndNext \/ LeafStops \/ ChildFailed \/ NoticeLoss, ~Return
  PROVE  StageInv' /\ PublishInv'
<1> USE DEF IInv
<1>1. Root \in Nodes /\ stage \in Nodes BY StageOrder DEF TypeOK
<1>2. Kept /\ rows' \in [Nodes -> Row]
  <2>1. CASE ChildFailed \/ Unwind
    BY <2>1, <1>1, EndedKept, SameKept DEF ChildFailed, Unwind, CanMarkTerminal
  <2>2. CASE Clean BY <2>2, CancelKept DEF Clean
  <2>3. CASE UNCHANGED rows BY <2>3, SameKept
  <2> QED BY <2>1, <2>2, <2>3 DEF EndNext, LeafStops, NoticeLoss, Fails, Interrupt, Crash
<1>3. pc' = pc \/ pc' \in Leaving
  BY DEF EndNext, LeafStops, ChildFailed, NoticeLoss, Clean, Unwind, Fails, Interrupt, Crash,
    Break, Goto, Leave, Raise, FailChild, Leaving, Over
<1>4. UNCHANGED << stage, severity, serving, forced >>
  BY DEF EndNext, LeafStops, ChildFailed, NoticeLoss, Clean, Unwind, Fails, Interrupt, Crash
<1> QED BY <1>2, <1>3, <1>4, KeptInv

(* The steps that go on without writing a row.                             *)
LEMMA GoOnStep ==
  ASSUME IInv, StartRun \/ Check \/ Announce \/ Report \/ LoadSource \/ CheckConsistency
               \/ PrepareMv \/ SwapMv \/ RefreshParts \/ RecordRelease
  PROVE  StageInv' /\ PublishInv'
<1> USE DEF IInv, Goto
<1>1. stage \in Stages /\ pc \in WorkerPC BY DEF TypeOK
<1>2. CASE pc' \in Leaving
  <2>1. UNCHANGED << rows, stage, severity, serving, forced >>
    BY <1>2 DEF StartRun, Check, Announce, Report, LoadSource, CheckConsistency, PrepareMv,
      SwapMv, RefreshParts, RecordRelease, Publish, Leaving, Over, Leave, FailChild
  <2> QED BY <1>2, <2>1, KeptInv, SameKept
<1>3. CASE StartRun /\ pc' \notin Leaving
  <2>1. pc = "idle" /\ pc' = "adopt" /\ UNCHANGED << rows, stage, severity, serving, forced >>
    BY <1>3 DEF StartRun, Leaving, Over
  <2> QED BY <2>1 DEF StageInv, PublishInv, Publication, BeforeSwap, GateOpen
<1>4. CASE (Check \/ Announce \/ LoadSource \/ PrepareMv) /\ pc' \notin Leaving
  <2>1. /\ UNCHANGED << rows, stage, severity, serving, forced >>
        /\ pc \in {"check", "announce", "leaf"}
        /\ \/ pc' \in {"claim", "insert"}
           \/ pc' = "childDone" /\ stage \in Sources
           \/ pc' = "swap" /\ stage = Mv /\ GateOpen
    BY <1>4 DEF Check, Announce, LoadSource, PrepareMv, Leaving, Leave, FailChild
  <2> QED BY <2>1, StageOrder DEF StageInv, PublishInv, Publication, BeforeSwap, GateOpen
<1>5. CASE Report /\ pc' \notin Leaving
  <2>1. CASE stage = Mv
    BY <2>1, <1>5, StageOrder
    DEF Report, Leave, Leaving, StageInv, PublishInv, Publication, BeforeSwap, GateOpen
  <2>2. CASE stage # Mv
    <3>1. /\ stage' = stage + 1 /\ pc' = "check" /\ rows[stage].state = "done"
          /\ UNCHANGED << rows, severity, serving, forced >>
      BY <2>2, <1>5 DEF Report, Leave, Leaving, StageInv
    <3>2. stage' # Mv BY <3>1, <1>1, <1>5, StageOrder DEF Report, StageInv
    <3>3. StageInv'
      BY <3>1, <2>2, <1>1, StageOrder DEF StageInv
    <3>4. PublishInv'
      BY <3>1, <3>2, <2>2 DEF PublishInv, Publication, BeforeSwap, GateOpen
    <3> QED BY <3>3, <3>4
  <2> QED BY <2>1, <2>2
<1>6. CASE CheckConsistency
  BY <1>6, <1>1, StageOrder
  DEF CheckConsistency, StageInv, PublishInv, Publication, BeforeSwap, GateOpen
<1>7. CASE (SwapMv \/ RefreshParts \/ RecordRelease) /\ pc' \notin Leaving
  <2>1. /\ stage = Mv /\ GateOpen /\ UNCHANGED << rows, stage, severity, forced >>
        /\ rows[Mv].state = "running"
        /\ \/ pc' = "parts" /\ serving' = "swapped"
           \/ pc' = "release" /\ serving' = "refreshed"
           \/ pc' = "childDone" /\ serving' = "released"
    BY <1>7 DEF SwapMv, RefreshParts, RecordRelease, Publish, Leaving, FailChild, PublishInv,
      Publication, GuardHolds, OwnsRow, Owns
  <2> QED BY <2>1, StageOrder DEF StageInv, PublishInv, Publication, BeforeSwap, GateOpen
<1> QED BY <1>2, <1>3, <1>4, <1>5, <1>6, <1>7

(* The steps that go on with a row of the worker's own: the adoption of    *)
(* the root and of a child, the insertion of a child, the two mark_done.   *)
LEMMA OwnRowStep ==
  ASSUME IInv, AdoptRoot \/ InsertChild \/ ClaimChild \/ ChildDone \/ Return
  PROVE  StageInv' /\ PublishInv'
<1> USE DEF IInv, Goto
<1>1. /\ stage \in Stages /\ stage \in Nodes /\ Root \in Nodes /\ stage # Root
      /\ rows[Root] \in Row /\ rows[stage] \in Row
  BY StageOrder DEF TypeOK
<1>2. ASSUME UNCHANGED << rows, stage, severity, serving, forced >>, pc' \in Leaving
      PROVE  StageInv' /\ PublishInv'
  BY <1>2, SameKept, KeptInv
<1>3. \A n \in Nodes : \A row \in Row : SetRow(n, row) =>
        rows'[n] = row /\ \A m \in Nodes \ {n} : rows'[m] = rows[m]
  BY SetRowIs
<1>4. CASE AdoptRoot
  <2>1. CASE CanAdopt(rows[Root], BatchRun)
    <3>1. /\ rows'[Root].state = "running" /\ \A m \in Stages : rows'[m] = rows[m]
          /\ pc = "adopt" /\ pc' = "check" /\ UNCHANGED << stage, severity, serving, forced >>
      BY <1>4, <2>1, <1>1, <1>3, RowTypes, StageOrder DEF AdoptRoot
    <3> QED BY <3>1, <1>1, StageOrder DEF StageInv, PublishInv, Publication, BeforeSwap, GateOpen
  <2>2. CASE ~CanAdopt(rows[Root], BatchRun)
    BY <2>2, <1>2, <1>4 DEF AdoptRoot, Leaving, Over
  <2> QED BY <2>1, <2>2
<1>5. CASE InsertChild
  <2>1. /\ rows'[stage].state = "queued" /\ \A m \in Nodes \ {stage} : rows'[m] = rows[m]
        /\ pc = "insert" /\ pc' = "announce" /\ UNCHANGED << stage, severity, serving, forced >>
    BY <1>5, <1>1, <1>3, RowTypes DEF InsertChild, QueuedRow
  <2>2. rows[Mv].state # "done" /\ rows[Root].state # "done"
    BY <2>1 DEF StageInv, PublishInv, BeforeSwap
  <2> QED BY <2>1, <2>2, <1>1, StageOrder
       DEF StageInv, PublishInv, Publication, BeforeSwap, GateOpen
<1>6. CASE ClaimChild
  <2>1. CASE CanAdopt(rows[stage], BatchRun)
    <3>1. /\ rows'[stage].state = "running" /\ \A m \in Nodes \ {stage} : rows'[m] = rows[m]
          /\ pc = "claim" /\ pc' = "leaf" /\ UNCHANGED << stage, severity, serving, forced >>
      BY <1>6, <2>1, <1>1, <1>3, RowTypes DEF ClaimChild
    <3>2. rows[Mv].state # "done" /\ rows[Root].state # "done"
      BY <3>1 DEF StageInv, PublishInv, BeforeSwap
    <3> QED BY <3>1, <3>2, <1>1, StageOrder
         DEF StageInv, PublishInv, Publication, BeforeSwap, GateOpen
  <2>2. CASE ~CanAdopt(rows[stage], BatchRun)
    BY <2>2, <1>2, <1>6 DEF ClaimChild, Raise, Leaving
  <2> QED BY <2>1, <2>2
<1>7. CASE ChildDone
  <2>1. CASE CanMarkDone(rows[stage], BatchRun)
    <3>1. /\ rows'[stage].state = "done" /\ \A m \in Nodes \ {stage} : rows'[m] = rows[m]
          /\ rows[stage].state = "running" /\ pc = "childDone"
          /\ UNCHANGED << severity, serving, forced >>
      BY <1>7, <2>1, <1>1, <1>3, RowTypes DEF ChildDone, CanMarkDone, TerminalStates
    <3>2. rows[Root].state # "done" BY <3>1, StageOrder DEF StageInv
    <3>3. CASE stage = Consistency
      <4>1. pc' = "check" /\ stage' = Mv BY <3>3, <1>7, <2>1 DEF ChildDone
      <4>2. serving = "old" /\ severity # "none" BY <3>1, <3>3, StageOrder DEF PublishInv
      <4> QED BY <3>1, <3>2, <3>3, <4>1, <4>2, <1>1, StageOrder
           DEF StageInv, PublishInv, Publication, BeforeSwap, GateOpen
    <3>4. CASE stage # Consistency
      <4>1. pc' = "report" /\ stage' = stage BY <3>4, <1>7, <2>1 DEF ChildDone
      <4> QED BY <3>1, <3>2, <3>4, <4>1, <1>1, StageOrder
           DEF StageInv, PublishInv, Publication, BeforeSwap, GateOpen
    <3> QED BY <3>3, <3>4
  <2>2. CASE ~CanMarkDone(rows[stage], BatchRun)
    BY <2>2, <1>2, <1>7 DEF ChildDone, Raise, Leaving
  <2> QED BY <2>1, <2>2
<1>8. CASE Return
  <2>1. CASE CanMarkDone(rows[Root], BatchRun)
    <3>1. /\ rows'[Root].state = "done" /\ \A m \in Stages : rows'[m] = rows[m]
          /\ pc = "return" /\ pc' = "over" /\ UNCHANGED << stage, severity, serving, forced >>
      BY <1>8, <2>1, <1>1, <1>3, RowTypes, StageOrder DEF Return, TerminalStates
    <3> QED BY <3>1, <1>1, StageOrder DEF StageInv, PublishInv, Publication, BeforeSwap, GateOpen
  <2>2. CASE ~CanMarkDone(rows[Root], BatchRun)
    BY <2>2, <1>2, <1>8 DEF Return, Leaving, Over
  <2> QED BY <2>1, <2>2
<1> QED BY <1>4, <1>5, <1>6, <1>7, <1>8

(* A step of the worker keeps the invariant.                               *)
LEMMA WorkerStep ==
  ASSUME IInv, WorkerNext PROVE IInv'
<1>1. TypeOK' BY TypeWorker DEF IInv
<1>2. StageInv' /\ PublishInv'
  BY GiveUpStep, GoOnStep, OwnRowStep DEF WorkerNext, StageNext, EndNext, Return, LeafStops,
    ChildFailed, NoticeLoss
<1>3. LaunchInv'
  <2>1. sent /\ UNCHANGED apiVars
    BY DEF IInv, LaunchInv, WorkerNext, StageNext, EndNext, StartRun, AdoptRoot, Check, Report,
      ChildDone, InsertChild, Announce, ClaimChild, LoadSource, CheckConsistency, PrepareMv,
      SwapMv, RefreshParts, RecordRelease, Publish, LeafStops, ChildFailed, Clean, Unwind,
      Return, Fails, Interrupt, Crash, NoticeLoss, Break, InLeaf, Publication
  <2> QED BY <2>1 DEF IInv, LaunchInv, apiVars
<1> QED BY <1>1, <1>2, <1>3 DEF IInv

----------------------------------------------------------------------------
(* The theorems *)

(* The initial states satisfy the invariant.                               *)
LEMMA InitInv == Init => IInv
<1> SUFFICES ASSUME Init PROVE IInv OBVIOUS
<1>1. \A n \in Nodes : rows[n] = AbsentRow BY DEF Init
<1>2. TypeOK
  BY RowTypes, StageOrder
  DEF Init, TypeOK, ApiPC, WorkerPC, Exits, Severity, Serving
<1>3. StageInv BY <1>1, StageOrder DEF Init, StageInv, AbsentRow
<1>4. PublishInv
  BY <1>1, StageOrder DEF Init, PublishInv, AbsentRow, Publication, BeforeSwap
<1>5. LaunchInv BY <1>1 DEF Init, LaunchInv
<1> QED BY <1>2, <1>3, <1>4, <1>5 DEF IInv

(* A stuttering step keeps the invariant.                                  *)
LEMMA StutterInv ==
  ASSUME IInv, UNCHANGED vars PROVE IInv'
BY DEF IInv, vars, TypeOK, StageInv, PublishInv, LaunchInv, GateOpen

(* The inductive invariant holds of every behaviour of a batch.            *)
THEOREM BatchInductive == Spec => []IInv
<1>1. IInv /\ [Next]_vars => IInv'
  BY ApiStep, AdminStep, ReconcilerStep, WorkerStep, StutterInv DEF Next
<1> QED BY <1>1, InitInv, PTL DEF Spec

(* Every state of a batch is well typed, for any number of sources.        *)
THEOREM BatchTypeCorrect == Spec => []TypeOK
<1>1. IInv => TypeOK BY DEF IInv
<1> QED BY <1>1, BatchInductive, PTL

(* No stage runs or is done before every stage before it is done.          *)
THEOREM InOrderHolds == Spec => []InOrder
<1>1. IInv => InOrder
  <2> SUFFICES ASSUME IInv, NEW k \in Stages, rows[k].state \in {"running", "done"},
                      NEW j \in 1 .. (k - 1)
               PROVE  rows[j].state = "done"
    BY DEF InOrder
  <2>1. k <= stage /\ stage \in Stages BY StageOrder DEF IInv, StageInv, TypeOK
  <2>2. j \in Stages /\ j < stage BY <2>1, BatchAssumption DEF Stages, Mv
  <2> QED BY <2>2 DEF IInv, StageInv
<1> QED BY <1>1, BatchInductive, PTL

(* Nothing is published that was not loaded in full and vetted.            *)
THEOREM PublishedIsVettedHolds == Spec => []PublishedIsVetted
<1>1. IInv => PublishedIsVetted
  <2> SUFFICES ASSUME IInv, serving # "old" PROVE PublishedIsVetted
    BY DEF PublishedIsVetted
  <2>1. stage = Mv /\ GateOpen /\ severity \in {"OK", "ERROR"}
    BY DEF IInv, PublishInv, TypeOK, Severity
  <2>2. \A k \in Sources \cup {Consistency} : k \in Stages /\ k < Mv
    BY StageOrder
  <2> QED BY <2>1, <2>2 DEF IInv, StageInv, PublishedIsVetted, GateOpen
<1> QED BY <1>1, BatchInductive, PTL

(* A batch that is done has all its rows done.                             *)
THEOREM DoneBatchIsWholeHolds == Spec => []DoneBatchIsWhole
<1>1. IInv => DoneBatchIsWhole
  BY StageOrder DEF IInv, StageInv, DoneBatchIsWhole
<1> QED BY <1>1, BatchInductive, PTL

----------------------------------------------------------------------------
(* A batch implements BatchPublication *)

(* A step that only gives rows up is an Abandon or a stutter.              *)
LEMMA AbandonMaps ==
  ASSUME IInv, Kept, UNCHANGED serving
  PROVE  [Publications!Next]_(Publications!vars)
<1>1. Root \in Nodes BY StageOrder
<1>2. CASE rows'[Root].state = rows[Root].state BY <1>2 DEF Publications!vars
<1>3. CASE rows'[Root].state # rows[Root].state
  <2>1. rows'[Root].state \in {"failed", "cancelled"} /\ rows[Root].state \in ActiveStates
    BY <1>1, <1>3 DEF Kept
  <2> QED BY <2>1 DEF Publications!Next, Publications!Abandon, ActiveStates
<1> QED BY <1>2, <1>3

(* A step that leaves the root alone and publishes nothing is a stutter.   *)
LEMMA RootStutters ==
  ASSUME UNCHANGED << rows[Root].state, serving >>
  PROVE  [Publications!Next]_(Publications!vars)
BY DEF Publications!vars

(* Every step of the batch is a step or a stutter of the publication.      *)
LEMMA PublicationStep ==
  ASSUME IInv, Next PROVE [Publications!Next]_(Publications!vars)
<1> USE DEF IInv
<1>1. /\ stage \in Stages /\ stage \in Nodes /\ Root \in Nodes /\ stage # Root
      /\ rows[Root] \in Row /\ rows[stage] \in Row
  BY StageOrder DEF TypeOK
<1>2. \A n \in Nodes : \A row \in Row : SetRow(n, row) =>
        rows'[n] = row /\ \A m \in Nodes \ {n} : rows'[m] = rows[m]
  BY SetRowIs
<1>3. CASE InsertBatch
  <2>1. rows[Root].state = "absent" /\ rows'[Root].state = "queued" /\ UNCHANGED serving
    BY <1>1, <1>3 DEF InsertBatch, LaunchInv, AbsentRow, QueuedRow, workerVars
  <2> QED BY <2>1 DEF Publications!Next, Publications!Submit
<1>4. CASE ApiNext /\ ~InsertBatch
  <2>1. Kept
    BY <1>1, <1>4, EndedKept, CancelKept, SameKept
    DEF ApiNext, SendLaunch, LaunchAnswered, ApiStops, SettleLaunchError, CleanRejected,
      CanMarkLaunchFailed, ActiveStates
  <2>2. UNCHANGED serving
    BY <1>4 DEF ApiNext, SendLaunch, LaunchAnswered, ApiStops, SettleLaunchError,
      CleanRejected, workerVars
  <2> QED BY <2>1, <2>2, AbandonMaps
<1>5. CASE AdminNext
  <2>1. ASSUME NEW n \in Nodes, AdminCancel(n) PROVE Kept
    BY <2>1, EndedKept, SameKept DEF AdminCancel, CanCancel
  <2>2. Kept
    BY <1>5, <2>1, CancelKept, SameKept DEF AdminNext, AdminClean, AdminTerminate
  <2>3. UNCHANGED serving
    BY <1>5 DEF AdminNext, AdminCancel, AdminClean, AdminTerminate, workerVars
  <2> QED BY <2>2, <2>3, AbandonMaps
<1>6. CASE ReconcilerNext
  <2>1. ASSUME NEW n \in Nodes, Converge(n) \/ Evict(n) \/ FlagOrphan(n) PROVE Kept
    BY <2>1, EndedKept, SameKept DEF Converge, Evict, FlagOrphan, Scanned, ActiveStates
  <2>2. ASSUME SweepStale PROVE Kept
    BY <2>2, RowTypes DEF SweepStale, Kept, TypeOK, TerminalStates
  <2>3. Kept BY <1>6, <2>1, <2>2 DEF ReconcilerNext
  <2>4. UNCHANGED serving
    BY <1>6 DEF ReconcilerNext, Converge, Evict, FlagOrphan, SweepStale, workerVars
  <2> QED BY <2>3, <2>4, AbandonMaps
<1>7. CASE (EndNext \/ LeafStops \/ ChildFailed \/ NoticeLoss) /\ ~Return
  <2>1. CASE ChildFailed \/ Unwind
    <3>1. Kept
      BY <2>1, <1>1, EndedKept, SameKept DEF ChildFailed, Unwind, CanMarkTerminal
    <3> QED BY <2>1, <3>1, AbandonMaps DEF ChildFailed, Unwind
  <2>2. CASE Clean BY <2>2, CancelKept, AbandonMaps DEF Clean
  <2>3. CASE UNCHANGED << rows, serving >> BY <2>3, RootStutters
  <2> QED BY <1>7, <2>1, <2>2, <2>3 DEF EndNext, LeafStops, NoticeLoss, Fails, Interrupt, Crash
<1>8. CASE InsertChild \/ ClaimChild \/ ChildDone
  <2>1. rows'[Root] = rows[Root] /\ UNCHANGED serving
    BY <1>8, <1>1, <1>2, RowTypes DEF InsertChild, ClaimChild, ChildDone, TerminalStates
  <2> QED BY <2>1, RootStutters
<1>9. CASE AdoptRoot
  <2>1. CASE CanAdopt(rows[Root], BatchRun)
    <3>1. rows'[Root].state = "running" /\ UNCHANGED serving
      BY <1>9, <2>1, <1>1, <1>2, RowTypes DEF AdoptRoot
    <3> QED BY <3>1, <2>1, RootStutters
         DEF CanAdopt, Owns, Publications!Next, Publications!Start
  <2>2. CASE ~CanAdopt(rows[Root], BatchRun) BY <2>2, <1>9, RootStutters DEF AdoptRoot
  <2> QED BY <2>1, <2>2
<1>10. CASE Return
  <2>1. CASE CanMarkDone(rows[Root], BatchRun)
    <3>1. /\ rows[Root].state = "running" /\ rows'[Root].state = "done"
          /\ serving = "released" /\ UNCHANGED serving
      BY <1>10, <2>1, <1>1, <1>2, RowTypes
      DEF Return, CanMarkDone, TerminalStates, StageInv, PublishInv
    <3> QED BY <3>1 DEF Publications!Next, Publications!Complete
  <2>2. CASE ~CanMarkDone(rows[Root], BatchRun) BY <2>2, <1>10, RootStutters DEF Return
  <2> QED BY <2>1, <2>2
<1>11. CASE (SwapMv \/ RefreshParts \/ RecordRelease) /\ GuardHolds
  <2>1. rows[Root].state = "running" /\ UNCHANGED rows
    BY <1>11 DEF SwapMv, RefreshParts, RecordRelease, Publish, GuardHolds, OwnsRow, Owns
  <2>2. \/ serving = "old" /\ serving' = "swapped"
        \/ serving = "swapped" /\ serving' = "refreshed"
        \/ serving = "refreshed" /\ serving' = "released"
    BY <1>11 DEF SwapMv, RefreshParts, RecordRelease, Publish, PublishInv, BeforeSwap
  <2> QED BY <2>1, <2>2
       DEF Publications!Next, Publications!Publish, Publications!NextServing
<1>12. CASE (SwapMv \/ RefreshParts \/ RecordRelease) /\ ~GuardHolds
  BY <1>12, RootStutters DEF SwapMv, RefreshParts, RecordRelease, Publish
<1>13. CASE StartRun \/ Check \/ Announce \/ Report \/ LoadSource \/ CheckConsistency
            \/ PrepareMv
  BY <1>13, RootStutters
  DEF StartRun, Check, Announce, Report, LoadSource, CheckConsistency, PrepareMv
<1> QED BY <1>3, <1>4, <1>5, <1>6, <1>7, <1>8, <1>9, <1>10, <1>11, <1>12, <1>13
     DEF Next, WorkerNext, StageNext, EndNext, LeafStops, ChildFailed, NoticeLoss

(* However the worker, the admin, the reconciler and the sweep interleave, *)
(* a batch publishes step by step, only while it is running, and is done   *)
(* only after its release.                                                 *)
THEOREM RefinesPublication == Spec => ImplementsPublication
<1>1. Init => Publications!Init
  BY StageOrder DEF Init, Publications!Init, AbsentRow
<1>2. IInv /\ [Next]_vars => [Publications!Next]_(Publications!vars)
  <2>1. UNCHANGED vars => UNCHANGED Publications!vars BY DEF vars, Publications!vars
  <2> QED BY <2>1, PublicationStep
<1> QED BY <1>1, <1>2, BatchInductive, PTL DEF Spec, Publications!Spec, ImplementsPublication
=============================================================================
