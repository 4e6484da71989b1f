----------------------------- MODULE BackupsProofs ------------------------------
(***************************************************************************)
(* What the four actors guarantee each other, for any number of backups,   *)
(* of calls of run-due and of archives to keep.                            *)
(***************************************************************************)
EXTENDS Backups, FiniteSetTheorems, TLAPS

Busy(b) == job[b].pc \in Working \cup {"dead"}

\* Which stage a job, its row and the janitor can be at together.
StageInv ==
    /\ \A b \in Backups :
          /\ job[b].pc \in {"none", "queued"} => ~Exists(b)
          /\ job[b].pc = "none" => b \notin cron
          /\ Busy(b) => Exists(b)
          /\ row[b].path \in {Plain, b}
          /\ b \in excused => Exists(b)
          /\ row[b].state = "available" => b \in finished
          /\ b \in finished => Exists(b) /\ job[b].pc \in {"finalized", "failing", "dead", "over"}
    /\ doomed \subseteq finished
    /\ janitor.todo \subseteq finished
    /\ janitor.pc = "taken" => janitor.at \in finished
    /\ op # NoBackup => op \in Backups /\ Exists(op)

TInv == TypeOK /\ StageInv

--------------------------------------------------------------------------------
(* Type correctness.                                                       *)

LEMMA TypeInit == Init => TInv
<1> SUFFICES ASSUME Init PROVE TInv
  OBVIOUS
<1>1. 0 \in 0..Cardinality(Backups)
  BY BackupAssumption, FS_CardinalityType
<1>2. job \in [Backups -> Job] /\ row \in [Backups -> Row]
  BY <1>1 DEF Init, Job, Row, Held, Paths
<1> QED
  BY <1>2 DEF Init, TInv, TypeOK, StageInv, Held, NoJanitor, Exists, Busy, Working

\* A new artifact has a number of its own.
LEMMA MadeType ==
    ASSUME TypeOK, NEW b \in Backups, ~Exists(b)
    PROVE  Cardinality({c \in Backups : Exists(c)}) + 1 \in 0..Cardinality(Backups)
<1> DEFINE S == {c \in Backups : Exists(c)}
<1>1. S \subseteq Backups \ {b}
  OBVIOUS
<1>2. /\ IsFiniteSet(Backups \ {b})
      /\ Cardinality(Backups \ {b}) = Cardinality(Backups) - 1
      /\ Cardinality(Backups) \in Nat
  BY BackupAssumption, FS_RemoveElement, FS_CardinalityType
<1>3. Cardinality(S) \in Nat /\ Cardinality(S) <= Cardinality(Backups \ {b})
  BY <1>1, <1>2, FS_Subset, FS_CardinalityType
<1> QED
  BY <1>2, <1>3

LEMMA GoesType ==
    ASSUME TypeOK, NEW b \in Backups, NEW pc \in {"none", "queued", "over", "dead"} \cup Working,
           Goes(b, pc)
    PROVE  /\ job' \in [Backups -> Job]
           /\ job'[b].pc = pc /\ job'[b].class = job[b].class /\ job'[b].sum = job[b].sum
           /\ \A c \in Backups \ {b} : job'[c] = job[c]
<1>1. job[b] \in Job /\ job \in [Backups -> Job]
  BY DEF TypeOK
<1>2. [job[b] EXCEPT !.pc = pc] \in Job
  BY <1>1 DEF Job
<1> QED
  BY <1>1, <1>2 DEF Goes, Job

LEMMA TypeJob == ASSUME TInv, NEW b \in Backups, JobStep(b) PROVE TInv'
<1>1. /\ TypeOK /\ job[b] \in Job /\ row[b] \in Row /\ row[b].path \in Paths
      /\ job \in [Backups -> Job] /\ row \in [Backups -> Row]
      /\ file \in [Paths -> Held] /\ part \in [Paths -> Held]
  BY DEF TInv, TypeOK, Row
<1>2. CASE Submit(b)
  <2>1. PICK c \in {"default", "pinned", "scheduled"} :
          job' = [job EXCEPT ![b].pc = "queued", ![b].class = c]
    BY <1>2 DEF Submit
  <2>2. [job[b] EXCEPT !.pc = "queued", !.class = c] \in Job
    BY <1>1 DEF Job
  <2>3. /\ job' \in [Backups -> Job] /\ job'[b].pc = "queued"
        /\ \A d \in Backups \ {b} : job'[d] = job[d]
    BY <1>1, <2>1, <2>2 DEF Job
  <2> QED
    BY <1>2, <2>3 DEF TInv, TypeOK, StageInv, Submit, others, actors, Exists, Busy, Working
<1>3. CASE Begin(b)
  <2>1. PICK p \in {Plain, b} :
          /\ row' = [row EXCEPT ![b] = [state |-> "creating", path |-> p,
                              made |-> Cardinality({c \in Backups : Exists(c)}) + 1,
                              due |-> FALSE,
                              recent |-> job[b].class = "scheduled"]]
          /\ excused' = IF Rivals(p) = {} THEN excused ELSE excused \cup Rivals(p) \cup {b}
    BY <1>3 DEF Begin, FreePath
  <2>2. job[b].pc = "queued" /\ ~Exists(b)
    BY <1>3 DEF Begin, TInv, StageInv
  <2>3. [state |-> "creating", path |-> p,
         made |-> Cardinality({c \in Backups : Exists(c)}) + 1, due |-> FALSE,
         recent |-> job[b].class = "scheduled"] \in Row
    BY <1>1, <2>2, MadeType DEF Row, Paths
  <2>4. /\ row' \in [Backups -> Row] /\ row'[b].state = "creating" /\ row'[b].path = p
        /\ \A d \in Backups \ {b} : row'[d] = row[d]
    BY <1>1, <2>1, <2>3
  <2>5. /\ job' \in [Backups -> Job] /\ job'[b].pc = "begun"
        /\ \A d \in Backups \ {b} : job'[d] = job[d]
    BY <1>1, <1>3, GoesType DEF Begin, Working
  <2>6. excused' \subseteq Backups /\ \A d \in excused' \ {b} : Exists(d)
    BY <2>1 DEF Rivals, AtPath, TInv, TypeOK, StageInv
  <2> QED
    BY <1>3, <2>1, <2>2, <2>4, <2>5, <2>6
       DEF TInv, TypeOK, StageInv, Begin, others, actors, Exists, Busy, Working
<1>4. CASE Hash(b)
  <2>1. [job[b] EXCEPT !.pc = "hashed", !.sum = part[row[b].path]] \in Job
    BY <1>1 DEF Job, Working
  <2>2. /\ job' \in [Backups -> Job] /\ job'[b].pc = "hashed"
        /\ \A d \in Backups \ {b} : job'[d] = job[d]
    BY <1>1, <1>4, <2>1 DEF Hash, Job
  <2>3. job[b].pc = "archived"
    BY <1>4 DEF Hash
  <2> QED
    BY <1>4, <2>2, <2>3 DEF TInv, TypeOK, StageInv, Hash, others, actors, Exists, Busy, Working
<1>5. CASE Finalize(b)
  <2>1. [row[b] EXCEPT !.state = "available", !.due = FALSE] \in Row
    BY <1>1 DEF Row
  <2>2. /\ row' \in [Backups -> Row] /\ row'[b].state = "available" /\ row'[b].path = row[b].path
        /\ \A d \in Backups \ {b} : row'[d] = row[d]
    BY <1>1, <1>5, <2>1 DEF Finalize, Row
  <2>3. /\ job' \in [Backups -> Job] /\ job'[b].pc = "finalized"
        /\ \A d \in Backups \ {b} : job'[d] = job[d]
    BY <1>1, <1>5, GoesType DEF Finalize, Working
  <2>4. job[b].pc = "placed" /\ finished' = finished \cup {b}
    BY <1>5 DEF Finalize
  <2> QED
    BY <1>5, <2>2, <2>3, <2>4 DEF TInv, TypeOK, StageInv, Finalize, others, actors, Exists, Busy,
           Working
<1>6. CASE Fail(b)
  <2>1. [row[b] EXCEPT !.state = "failed"] \in Row
    BY <1>1 DEF Row
  <2>2. /\ row' \in [Backups -> Row] /\ row'[b].state = "failed" /\ row'[b].path = row[b].path
        /\ \A d \in Backups \ {b} : row'[d] = row[d]
    BY <1>1, <1>6, <2>1 DEF Fail, Row
  <2>3. /\ job' \in [Backups -> Job] /\ job'[b].pc = "failing"
        /\ \A d \in Backups \ {b} : job'[d] = job[d]
    BY <1>1, <1>6, GoesType DEF Fail, Working
  <2>4. job[b].pc \in Working /\ excused' \subseteq excused \cup {b}
    BY <1>6 DEF Fail
  <2> QED
    BY <1>6, <2>2, <2>3, <2>4 DEF TInv, TypeOK, StageInv, Fail, others, actors, Exists, Busy,
                              Working
<1>7. CASE EndQueued(b) \/ Archive(b) \/ Place(b) \/ CleanUp(b) \/ Die(b) \/ Reconcile(b)
  <2>1. PICK pc \in {"over", "archived", "placed", "dead"} :
          /\ Goes(b, pc) /\ UNCHANGED <<cron, row, actors, finished, doomed, excused>>
          /\ open' \in {open, open \ {b}}
          /\ pc = "over" => job[b].pc \in {"queued", "finalized", "failing", "dead"}
          /\ pc = "archived" => job[b].pc = "begun"
          /\ pc = "placed" => job[b].pc = "hashed"
          /\ pc = "dead" => job[b].pc \in Working
    BY <1>7 DEF EndQueued, Archive, Place, CleanUp, Die, Reconcile, others, actors
  <2>2. /\ job' \in [Backups -> Job] /\ job'[b].pc = pc
        /\ \A d \in Backups \ {b} : job'[d] = job[d]
    BY <1>1, <2>1, GoesType DEF Working
  <2>3. file' \in [Paths -> Held] /\ part' \in [Paths -> Held]
    BY <1>1, <1>7 DEF EndQueued, Archive, Place, CleanUp, Die, Reconcile, Held
  <2>4. TypeOK'
    BY <2>1, <2>2, <2>3 DEF TInv, TypeOK, actors
  <2>5. StageInv'
    BY <1>1, <2>1, <2>2 DEF TInv, StageInv, actors, Exists, Busy, Working
  <2> QED
    BY <2>4, <2>5 DEF TInv
<1>8. CASE EndRow(b)
  BY <1>8 DEF EndRow, TInv, TypeOK, StageInv, actors, Exists, Busy
<1> QED
  BY <1>2, <1>3, <1>4, <1>5, <1>6, <1>7, <1>8 DEF JobStep

\* Operators and the janitor.
LEMMA TypeRetention ==
    ASSUME TInv, (\E b \in Backups : Retention(b) \/ Age(b)) \/ List \/ MarkExpired
                 \/ MarkFails \/ JanitorDies
    PROVE  TInv'
<1>1. /\ TypeOK /\ job \in [Backups -> Job] /\ row \in [Backups -> Row]
      /\ file \in [Paths -> Held]
  BY DEF TInv, TypeOK
<1>3. ASSUME UNCHANGED <<jobs, row, part, trigger, lock, finished>>, file' \in [Paths -> Held],
             op' \in Held, op' # NoBackup => Exists(op'),
             janitor' \in [pc : {"idle", "listed", "taken"}, todo : SUBSET Backups, at : Held],
             janitor'.pc = "listed" => janitor'.todo # {},
             janitor'.pc = "taken" => janitor'.at \in finished,
             janitor'.todo \subseteq finished, doomed' \subseteq finished,
             excused' \subseteq Backups, \A d \in excused' : Exists(d)
      PROVE  TInv'
  BY <1>3, BackupAssumption DEF jobs, TInv, TypeOK, StageInv, Exists, Busy, Held
<1>4. ASSUME NEW b \in Backups, Unlink(b) PROVE TInv'
  <2>1. file' \in [Paths -> Held] /\ \A d \in AtPath(row[b].path) : d \in Backups /\ Exists(d)
    BY <1>1, <1>4 DEF jobs, Unlink, Held, AtPath
  <2> QED
    BY <1>3, <1>4, <2>1 DEF jobs, Unlink, TInv, TypeOK, StageInv, Held
<1>5. ASSUME NEW b \in Backups, MarkDeleted(b) PROVE TInv'
  <2>1. row[b] \in Row /\ Exists(b) /\ op = b /\ row' = [row EXCEPT ![b].state = "deleted"]
    BY <1>1, <1>5, BackupAssumption DEF jobs, MarkDeleted, TInv, StageInv
  <2>2. [row[b] EXCEPT !.state = "deleted"] \in Row
    BY <2>1 DEF Row
  <2>3. row' \in [Backups -> Row] /\ \A d \in Backups : Exists(d)' <=> Exists(d)
    BY <1>1, <2>1, <2>2 DEF Exists, Row
  <2>4. \A d \in Backups : /\ row'[d].path = row[d].path
                           /\ row'[d].state = "available" => row[d].state = "available"
    BY <1>1, <2>1 DEF Row
  <2> QED
    BY <1>5, <2>3, <2>4 DEF jobs, MarkDeleted, TInv, TypeOK, StageInv, Busy, Held
<1>6. ASSUME NEW b \in Backups, DeleteDies(b) PROVE TInv'
  BY <1>1, <1>3, <1>6 DEF jobs, DeleteDies, TInv, TypeOK, StageInv, Held
<1>7. ASSUME NEW b \in Backups, Take(b) PROVE TInv'
  <2>1. file' \in [Paths -> Held] /\ \A d \in AtPath(row[b].path) : d \in Backups /\ Exists(d)
    BY <1>1, <1>7 DEF jobs, Take, Held, AtPath
  <2>2. b \in finished /\ janitor' = [pc |-> "taken", todo |-> janitor.todo \ {b}, at |-> b]
    BY <1>7 DEF jobs, Take, TInv, StageInv
  <2> QED
    BY <1>3, <1>7, <2>1, <2>2 DEF jobs, Take, TInv, TypeOK, StageInv, Held
<1>8. ASSUME NEW b \in Backups, Age(b) PROVE TInv'
  <2>1. \/ Exists(b) /\ row' = [row EXCEPT ![b] = [row[b] EXCEPT !.due = TRUE]]
        \/ row[b].recent /\ row' = [row EXCEPT ![b] = [row[b] EXCEPT !.recent = FALSE]]
    BY <1>1, <1>8 DEF Age, Exists
  <2>2. PICK r \in Row : /\ row' = [row EXCEPT ![b] = r] /\ r.state = row[b].state
                         /\ r.path = row[b].path
    <3>1. row[b] \in Row
      BY <1>1
    <3>2. [row[b] EXCEPT !.due = TRUE] \in Row /\ [row[b] EXCEPT !.recent = FALSE] \in Row
      BY <3>1 DEF Row
    <3> QED
      BY <2>1, <3>1, <3>2 DEF Row
  <2>3. /\ row' \in [Backups -> Row]
        /\ \A d \in Backups : row'[d].state = row[d].state /\ row'[d].path = row[d].path
    BY <1>1, <2>2
  <2> QED
    BY <1>8, <2>3 DEF Age, others, actors, TInv, TypeOK, StageInv, Exists, Busy
<1>9. CASE List
  <2>1. Eligible \subseteq finished /\ Eligible # {} /\ Eligible \subseteq Backups
    BY <1>9 DEF jobs, List, Eligible, Available, TInv, StageInv
  <2> QED
    BY <1>1, <1>3, <1>9, <2>1 DEF jobs, List, TInv, TypeOK, StageInv, Held
<1>10. /\ NextPass \in [pc : {"idle", "listed", "taken"}, todo : SUBSET Backups, at : Held]
       /\ NextPass.pc \in {"idle", "listed"} /\ (NextPass.pc = "listed" => NextPass.todo # {})
       /\ NextPass.todo \subseteq finished
  BY <1>1 DEF NextPass, NoJanitor, TInv, TypeOK, StageInv, Held
<1>11. CASE MarkExpired
  <2>1. janitor.at \in Backups /\ row[janitor.at] \in Row /\ Exists(janitor.at)
    BY <1>1, <1>11 DEF jobs, MarkExpired, TInv, TypeOK, StageInv
  <2>2. [row[janitor.at] EXCEPT !.state = "expired"] \in Row
    BY <2>1 DEF Row
  <2>3. row' = [row EXCEPT ![janitor.at].state = "expired"]
    BY <1>11 DEF jobs, MarkExpired
  <2>4. row' \in [Backups -> Row] /\ \A d \in Backups : Exists(d)' <=> Exists(d)
    BY <1>1, <2>1, <2>2, <2>3 DEF Exists, Row
  <2>5. \A d \in Backups : /\ row'[d].path = row[d].path
                           /\ row'[d].state = "available" => row[d].state = "available"
    BY <1>1, <2>1, <2>3 DEF Row
  <2> QED
    BY <1>10, <1>11, <2>4, <2>5 DEF jobs, MarkExpired, TInv, TypeOK, StageInv, Busy
<1>12. CASE MarkFails \/ JanitorDies
  <2>1. /\ janitor' \in [pc : {"idle", "listed", "taken"}, todo : SUBSET Backups, at : Held]
        /\ janitor'.pc # "taken" /\ (janitor'.pc = "listed" => janitor'.todo # {})
        /\ janitor'.todo \subseteq finished
    BY <1>10, <1>12 DEF jobs, MarkFails, JanitorDies, NoJanitor, Held
  <2> QED
    BY <1>1, <1>3, <1>12, <2>1 DEF jobs, MarkFails, JanitorDies, TInv, TypeOK, StageInv
<1> QED
  BY <1>4, <1>5, <1>6, <1>7, <1>8, <1>9, <1>11, <1>12 DEF Retention

\* The calls of run-due.
LEMMA TypeSchedule == ASSUME TInv, NEW t \in Triggers, Schedule(t) PROVE TInv'
<1>1. TypeOK /\ job \in [Backups -> Job]
  BY DEF TInv, TypeOK
<1>2. /\ trigger' \in [Triggers -> {"idle", "locked", "asked", "due", "launching"}]
      /\ lock' \in Triggers \cup {NoTrigger} /\ UNCHANGED schedule
  BY <1>1 DEF jobs, Schedule, Trigger, ReadLast, ReadActive, Enqueue, EndTrigger, Release, TypeOK,
              schedule
<1>3. CASE UNCHANGED jobs
  BY <1>2, <1>3 DEF jobs, TInv, TypeOK, StageInv, schedule, Exists, Busy
<1>4. CASE Enqueue(t)
  <2>1. PICK b \in Backups :
          /\ job[b].pc = "none"
          /\ job' = [job EXCEPT ![b].pc = "queued", ![b].class = "scheduled"]
          /\ open' = open \cup {b} /\ cron' = cron \cup {b}
    BY <1>4 DEF Enqueue
  <2>2. [job[b] EXCEPT !.pc = "queued", !.class = "scheduled"] \in Job
    BY <1>1 DEF Job
  <2>3. /\ job' \in [Backups -> Job] /\ job'[b].pc = "queued"
        /\ \A d \in Backups \ {b} : job'[d] = job[d]
    BY <1>1, <2>1, <2>2 DEF Job
  <2> QED
    BY <1>2, <2>1, <2>3 DEF TInv, TypeOK, StageInv, schedule, Exists, Busy, Working
<1> QED
  BY <1>3, <1>4 DEF jobs, Schedule, Trigger, ReadLast, ReadActive, EndTrigger

\* What a job, its row and the janitor are at goes together: in particular the janitor
\* touches only what has once been available.
THEOREM BackupsInductive == Spec => []TInv
<1>1. TInv /\ [Next]_vars => TInv'
  <2> SUFFICES ASSUME TInv, [Next]_vars PROVE TInv'
    OBVIOUS
  <2>1. CASE UNCHANGED vars
    BY <2>1 DEF TInv, TypeOK, StageInv, vars, Exists, Busy
  <2> QED
    BY <2>1, TypeJob, TypeRetention, TypeSchedule DEF Next
<1> QED
  BY <1>1, TypeInit, PTL DEF Spec

\* The state of jobs, artifacts, archives, janitor and schedule is well typed.
THEOREM BackupsTypeCorrect == Spec => []TypeOK
<1>1. TInv => TypeOK
  BY DEF TInv
<1> QED
  BY <1>1, BackupsInductive, PTL
--------------------------------------------------------------------------------
(* The schedule.                                                           *)

\* The rows that the schedule has asked for and that have not ended.
CronRows == ScheduledJobs \cap cron

\* Only the holder of BACKUP_SCHEDULE is past its first decision, and nobody else has
\* enqueued for run-due since it found nothing queued or running.
ScheduleInv ==
    /\ \A t \in Triggers : trigger[t] # "idle" => lock = t
    /\ \A t \in Triggers : trigger[t] = "due" => CronRows = {}
    /\ \A b, c \in CronRows : b = c

LEMMA ScheduleInit == Init => ScheduleInv
  BY DEF Init, ScheduleInv, CronRows, ScheduledJobs

\* No step but the enqueueing adds to them: what is submitted is not asked for by
\* run-due, and a row that has ended does not open again.
LEMMA NoNewScheduled ==
    ASSUME TInv, [Next]_vars, \A t \in Triggers : ~Enqueue(t)
    PROVE  CronRows' \subseteq CronRows
<1>1. TypeOK /\ job \in [Backups -> Job]
  BY DEF TInv, TypeOK
<1>2. CASE UNCHANGED jobs
  BY <1>2 DEF CronRows, ScheduledJobs, jobs
<1>3. ASSUME NEW b \in Backups, JobStep(b) PROVE CronRows' \subseteq CronRows
  <2>1. \A d \in Backups \ {b} : job'[d] = job[d]
    BY <1>1, <1>3 DEF JobStep, Submit, EndQueued, EndRow, Begin, Archive, Hash, Place, Finalize,
                      Fail, CleanUp, Die, Reconcile, Goes
  <2>2. cron' = cron /\ open' \subseteq open \cup {b} /\ open \subseteq Backups
    BY <1>1, <1>3 DEF JobStep, Submit, EndQueued, EndRow, Begin, Archive, Hash, Place, Finalize,
                      Fail, CleanUp, Die, Reconcile, others, TypeOK
  <2>3. CASE Submit(b)
    <3>1. b \notin cron
      BY <2>3 DEF Submit, TInv, StageInv
    <3> QED
      BY <2>1, <2>2, <3>1 DEF CronRows, ScheduledJobs
  <2>4. CASE ~Submit(b)
    <3>1. job'[b].class = job[b].class
      BY <1>1, <1>3, <2>4 DEF JobStep, EndQueued, EndRow, Begin, Archive, Hash, Place, Finalize,
                              Fail, CleanUp, Die, Reconcile, Goes, Job
    <3>2. open' \subseteq open
      BY <1>3, <2>4 DEF JobStep, EndQueued, EndRow, Begin, Archive, Hash, Place, Finalize, Fail,
                        CleanUp, Die, Reconcile, others
    <3> QED
      BY <2>1, <2>2, <3>1, <3>2 DEF CronRows, ScheduledJobs
  <2> QED
    BY <2>3, <2>4
<1>4. ASSUME ~\E b \in Backups : JobStep(b) PROVE UNCHANGED jobs
  BY <1>4 DEF jobs, Next, Retention, Age, others, Unlink, MarkDeleted, DeleteDies, Take, List,
              MarkExpired, MarkFails, JanitorDies, Schedule, Trigger, ReadLast, ReadActive,
              EndTrigger, vars
<1> QED
  BY <1>2, <1>3, <1>4

LEMMA ScheduleStep == ASSUME TInv, ScheduleInv, [Next]_vars PROVE ScheduleInv'
<1>1. /\ trigger \in [Triggers -> {"idle", "locked", "asked", "due", "launching"}]
      /\ job \in [Backups -> Job] /\ TypeOK
  BY DEF TInv, TypeOK
<1>2. CASE UNCHANGED <<trigger, lock>> /\ \A t \in Triggers : ~Enqueue(t)
  BY <1>2, NoNewScheduled DEF ScheduleInv
<1>3. ASSUME NEW t \in Triggers, Enqueue(t) PROVE ScheduleInv'
  <2>1. /\ trigger[t] = "due" /\ lock = t /\ lock' = lock /\ CronRows = {}
        /\ trigger' = [trigger EXCEPT ![t] = "launching"]
    BY <1>3 DEF jobs, Enqueue, ScheduleInv
  <2>2. PICK b \in Backups :
          /\ job[b].pc = "none"
          /\ job' = [job EXCEPT ![b].pc = "queued", ![b].class = "scheduled"]
          /\ open' = open \cup {b} /\ cron' = cron \cup {b}
    BY <1>3 DEF Enqueue
  <2>3. \A d \in Backups \ {b} : job'[d] = job[d]
    BY <1>1, <2>2
  <2>4. CronRows' \subseteq {b}
    BY <1>1, <2>1, <2>2, <2>3 DEF CronRows, ScheduledJobs, TypeOK
  <2>5. \A u \in Triggers : trigger'[u] # "due" /\ (trigger'[u] # "idle" => lock' = u)
    BY <1>1, <2>1 DEF ScheduleInv
  <2> QED
    BY <2>4, <2>5 DEF ScheduleInv
<1>4. ASSUME NEW t \in Triggers, Schedule(t), ~Enqueue(t) PROVE ScheduleInv'
  <2>1. CronRows' = CronRows
    BY <1>4 DEF jobs, Schedule, Trigger, ReadLast, ReadActive, EndTrigger, CronRows,
                ScheduledJobs
  <2>2. /\ \A u \in Triggers \ {t} : trigger'[u] = trigger[u]
        /\ trigger'[t] # "idle" => lock' = t
        /\ trigger'[t] = "due" => CronRows = {}
        /\ lock = NoTrigger \/ lock = t \/ trigger[t] = "idle"
    BY <1>1, <1>4 DEF Schedule, Trigger, ReadLast, ReadActive, EndTrigger, Release, LockFree,
                      ScheduleInv, CronRows
  <2>3. ASSUME NEW u \in Triggers \ {t}, trigger'[u] # "idle" PROVE lock' = u
    <3>1. lock = u /\ u # NoTrigger
      BY <2>2, <2>3, BackupAssumption DEF ScheduleInv
    <3> QED
      BY <1>1, <1>4, <3>1 DEF jobs, Schedule, Trigger, ReadLast, ReadActive, EndTrigger, Release,
                              LockFree, ScheduleInv
  <2> QED
    BY <2>1, <2>2, <2>3 DEF ScheduleInv
<1>5. ASSUME ~\E t \in Triggers : Schedule(t)
      PROVE  UNCHANGED <<trigger, lock>> /\ \A t \in Triggers : ~Enqueue(t)
  BY <1>5 DEF Schedule, Next, JobStep, Submit, EndQueued, EndRow, Begin, Archive, Hash, Place,
              Finalize,
              Fail, CleanUp, Die, Reconcile, Retention, Age, Unlink, MarkDeleted, DeleteDies,
              Take, List, MarkExpired, MarkFails, JanitorDies, vars, others, actors
<1> QED
  BY <1>2, <1>3, <1>4, <1>5

\* However many calls of run-due come and die, and whenever rows are ended or backups are
\* submitted as scheduled ones beside them, they never have two of their backups queued or
\* running (api/routers/admin.py, run_due_scheduled_backup).
THEOREM OneScheduledHolds == Spec => []OneScheduledAtATime
<1>1. ScheduleInv => OneScheduledAtATime
  <2> SUFFICES ASSUME ScheduleInv PROVE Cardinality(CronRows) <= 1
    BY DEF OneScheduledAtATime, CronRows
  <2>1. CASE CronRows = {}
    BY <2>1, FS_EmptySet
  <2>2. CASE CronRows # {}
    <3>1. PICK b : CronRows = {b}
      BY <2>2 DEF ScheduleInv
    <3>2. Cardinality({b}) = 1
      BY FS_Singleton
    <3> QED
      BY <3>1, <3>2
  <2> QED
    BY <2>1, <2>2
<1> QED
  BY <1>1, ScheduleInit, ScheduleStep, BackupsInductive, PTL DEF Spec
--------------------------------------------------------------------------------
(* The archives.                                                           *)

\* b has a claim to what is at its path: it is at work there, or it is available, and
\* neither the janitor nor anything that excuses it has come between.
Claims(b) ==
    /\ b \notin excused
    /\ Busy(b) \/ (row[b].state = "available" /\ b \notin doomed)

\* Where there is a claim nobody else is at work.
ClaimInv ==
    \A b, c \in Backups :
        b # c /\ Exists(b) /\ Exists(c) /\ row[b].path = row[c].path /\ Claims(b) => ~Busy(c)

\* What a claim amounts to, stage by stage.
FileInv ==
    \A b \in Backups \ excused :
        /\ job[b].pc \in {"archived", "hashed"} => part[row[b].path] = b
        /\ job[b].pc \in {"hashed", "placed"} => job[b].sum = b
        /\ job[b].pc = "placed" => file[row[b].path] = b
        /\ row[b].state = "available" /\ b \notin doomed =>
              file[row[b].path] = b /\ job[b].sum = b

AInv == TInv /\ ClaimInv /\ FileInv

LEMMA ArchiveInit == Init => ClaimInv /\ FileInv
  BY DEF Init, ClaimInv, FileInv, Exists

\* A job that is at work leaves everything at its path to itself.
LEMMA OwnPath ==
    ASSUME AInv, NEW b \in Backups, Busy(b), NEW c \in Backups \ excused, c # b,
           row[b].path = row[c].path
    PROVE  /\ job[c].pc \notin {"archived", "hashed", "placed"}
           /\ row[c].state # "available" \/ c \in doomed
<1>1. Exists(b) /\ (Busy(c) => Exists(c)) /\ (row[c].state = "available" => Exists(c))
  BY DEF AInv, TInv, StageInv, Exists
<1>2. ~Claims(c)
  BY <1>1 DEF AInv, ClaimInv, Claims
<1> QED
  BY <1>2 DEF Claims, Busy, Working

\* A job begins: whoever works at its path is excused with it, and what is available
\* there keeps it from taking the path.
LEMMA BeginKeeps ==
    ASSUME AInv, NEW b \in Backups, Begin(b)
    PROVE  ClaimInv' /\ FileInv'
<1>1. /\ TypeOK /\ StageInv /\ row \in [Backups -> Row] /\ job \in [Backups -> Job]
      /\ job[b].pc = "queued" /\ ~Exists(b) /\ b \notin excused
      /\ UNCHANGED <<file, part, finished, doomed>>
  BY DEF AInv, TInv, TypeOK, StageInv, Begin
<1>2. PICK name \in {Plain, b} :
        /\ row' = [row EXCEPT ![b] = [state |-> "creating", path |-> FreePath(b, name),
                              made |-> Cardinality({c \in Backups : Exists(c)}) + 1,
                              due |-> FALSE,
                              recent |-> job[b].class = "scheduled"]]
        /\ excused' = IF Rivals(FreePath(b, name)) = {} THEN excused
                      ELSE excused \cup Rivals(FreePath(b, name)) \cup {b}
  BY DEF Begin
<1> DEFINE p == FreePath(b, name)
<1>3. /\ row'[b].state = "creating" /\ row'[b].path = p
      /\ \A d \in Backups \ {b} : row'[d] = row[d]
      /\ job'[b].pc = "begun" /\ \A d \in Backups \ {b} : job'[d] = job[d]
  BY <1>1, <1>2, GoesType DEF Begin, Working
<1>4. b \notin doomed
  BY <1>1 DEF StageInv
<1>5. ASSUME NEW c \in Backups, c # b, Exists(c), row[c].path = p, Claims(c)'
      PROVE  FALSE
  <2>1. c \notin excused' /\ c \notin Rivals(p)
    BY <1>2, <1>5 DEF Claims
  <2>2. ~Busy(c)
    BY <1>5, <2>1 DEF Rivals, AtPath, Busy
  <2>3. row[c].state = "available" /\ c \notin doomed /\ c \notin excused
    BY <1>1, <1>2, <1>3, <1>5, <2>2 DEF Claims, Busy
  <2>4. file[p] = c
    BY <1>5, <2>3 DEF AInv, FileInv
  <2>5. p = b
    BY <1>5, <2>4, BackupAssumption DEF FreePath
  <2>6. row[c].path \in {Plain, c}
    BY <1>1 DEF StageInv
  <2> QED
    BY <1>5, <2>5, <2>6, BackupAssumption
<1>6. ASSUME NEW c \in Backups, c # b, Exists(c), row[c].path = p, Claims(b)'
      PROVE  ~Busy(c)
  BY <1>2, <1>6 DEF Claims, Rivals, AtPath, Busy
<1>7. ClaimInv'
  <2> SUFFICES ASSUME NEW c \in Backups, NEW d \in Backups, c # d, Exists(c)', Exists(d)',
                      row'[c].path = row'[d].path, Claims(c)'
               PROVE  ~Busy(d)'
    BY DEF ClaimInv
  <2>1. CASE c = b
    BY <1>3, <1>6, <2>1 DEF Exists, Busy
  <2>2. CASE d = b
    BY <1>3, <1>5, <2>2 DEF Exists
  <2>3. CASE c # b /\ d # b
    <3>1. Claims(c)
      BY <1>1, <1>2, <1>3, <2>3 DEF Claims, Busy
    <3> QED
      BY <1>3, <2>3, <3>1 DEF AInv, ClaimInv, Exists, Busy
  <2> QED
    BY <2>1, <2>2, <2>3
<1>8. FileInv'
  BY <1>1, <1>2, <1>3 DEF AInv, FileInv
<1> QED
  BY <1>7, <1>8

\* The other steps of a job.
LEMMA JobKeeps ==
    ASSUME AInv, NEW b \in Backups, JobStep(b), ~Begin(b)
    PROVE  ClaimInv' /\ FileInv'
<1>1. /\ TypeOK /\ StageInv /\ row \in [Backups -> Row] /\ job \in [Backups -> Job]
      /\ file \in [Paths -> Held] /\ part \in [Paths -> Held] /\ row[b].path \in Paths
      /\ \A c \in Backups : row[c].path \in Paths
  BY DEF AInv, TInv, TypeOK, Row
<1>2. \A c \in Backups \ {b} : job'[c] = job[c] /\ row'[c] = row[c]
  BY <1>1 DEF JobStep, Submit, EndQueued, EndRow, Archive, Hash, Place, Finalize, Fail, CleanUp,
              Die,
              Reconcile, Goes
<1>3. /\ doomed' = doomed /\ excused \subseteq excused' /\ excused' \subseteq excused \cup {b}
      /\ row'[b].path = row[b].path
  BY <1>1 DEF JobStep, Submit, EndQueued, EndRow, Archive, Hash, Place, Finalize, Fail, CleanUp,
              Die,
              Reconcile, Row, others, actors
<1>4. /\ Busy(b)' => Busy(b)
      /\ Exists(b)' => Exists(b)
      /\ Claims(b)' => Claims(b)
  <2>1. CASE Submit(b)
    BY <1>1, <2>1 DEF Submit, Busy, Working, Exists, Claims
  <2>2. CASE Hash(b)
    BY <1>1, <2>2 DEF Hash, Busy, Working, Exists, Claims
  <2>3. CASE Finalize(b)
    <3>1. job[b].pc = "placed" /\ Busy(b) /\ Exists(b)
      BY <1>1, <2>3 DEF Finalize, Busy, Working, StageInv
    <3> QED
      BY <2>3, <3>1 DEF Finalize, Claims
  <2>4. CASE Fail(b)
    <3>1. job[b].pc \in Working /\ Busy(b) /\ Exists(b)
      BY <1>1, <2>4 DEF Fail, Busy, StageInv
    <3> QED
      BY <1>3, <3>1 DEF Claims
  <2>5. CASE EndQueued(b) \/ Archive(b) \/ Place(b) \/ CleanUp(b) \/ Die(b) \/ Reconcile(b)
    <3>1. /\ UNCHANGED <<row, doomed, excused>>
          /\ \E pc \in {"over", "archived", "placed", "dead"} :
                /\ Goes(b, pc)
                /\ pc # "over" => Busy(b)
      BY <2>5 DEF EndQueued, Archive, Place, CleanUp, Die, Reconcile, Busy, Working
    <3>2. Busy(b)' => Busy(b)
      BY <1>1, <3>1, GoesType DEF Busy, Working
    <3> QED
      BY <3>1, <3>2 DEF Exists, Claims
  <2>6. CASE EndRow(b)
    BY <2>6 DEF EndRow, Exists, Claims, Busy
  <2> QED
    BY <2>1, <2>2, <2>3, <2>4, <2>5, <2>6 DEF JobStep
<1>5. ClaimInv'
  <2> SUFFICES ASSUME NEW c \in Backups, NEW d \in Backups, c # d, Exists(c)', Exists(d)',
                      row'[c].path = row'[d].path, Claims(c)'
               PROVE  ~Busy(d)'
    BY DEF ClaimInv
  <2>1. Claims(c) /\ Exists(c) /\ Exists(d) /\ row[c].path = row[d].path
    BY <1>2, <1>3, <1>4 DEF Claims, Busy, Exists
  <2>2. ~Busy(d)
    BY <2>1 DEF AInv, ClaimInv
  <2> QED
    BY <1>2, <1>4, <2>2 DEF Busy
<1>6. ASSUME NEW c \in Backups \ excused, c # b
      PROVE  /\ job[c].pc \in {"archived", "hashed"} => part'[row[c].path] = c
             /\ job[c].pc = "placed" => file'[row[c].path] = c
             /\ row[c].state = "available" /\ c \notin doomed => file'[row[c].path] = c
  <2>1. CASE UNCHANGED <<file, part>>
    BY <2>1 DEF AInv, FileInv
  <2>2. CASE row[c].path # row[b].path
    <3>1. file'[row[c].path] = file[row[c].path] /\ part'[row[c].path] = part[row[c].path]
      BY <1>1, <2>2 DEF JobStep, Submit, EndQueued, EndRow, Archive, Hash, Place, Finalize, Fail,
                        CleanUp, Die, Reconcile
    <3> QED
      BY <3>1 DEF AInv, FileInv
  <2>3. CASE row[c].path = row[b].path /\ (Archive(b) \/ Place(b) \/ CleanUp(b))
    <3>1. Busy(b)
      BY <2>3 DEF Archive, Place, CleanUp, Busy, Working
    <3> QED
      BY <1>6, <2>3, <3>1, OwnPath
  <2> QED
    BY <2>1, <2>2, <2>3 DEF JobStep, Submit, EndQueued, EndRow, Hash, Finalize, Fail, Die,
                            Reconcile
<1>7. ASSUME NEW c \in Backups \ excused', c # b
      PROVE  /\ job'[c].pc \in {"archived", "hashed"} => part'[row'[c].path] = c
             /\ job'[c].pc \in {"hashed", "placed"} => job'[c].sum = c
             /\ job'[c].pc = "placed" => file'[row'[c].path] = c
             /\ row'[c].state = "available" /\ c \notin doomed' =>
                   file'[row'[c].path] = c /\ job'[c].sum = c
  BY <1>2, <1>3, <1>6, <1>7 DEF AInv, FileInv
<1>8. ASSUME b \notin excused'
      PROVE  /\ job'[b].pc \in {"archived", "hashed"} => part'[row'[b].path] = b
             /\ job'[b].pc \in {"hashed", "placed"} => job'[b].sum = b
             /\ job'[b].pc = "placed" => file'[row'[b].path] = b
             /\ row'[b].state = "available" /\ b \notin doomed' =>
                   file'[row'[b].path] = b /\ job'[b].sum = b
  <2>1. b \in Backups \ excused
    BY <1>3, <1>8
  <2>2. /\ job[b].pc \in {"archived", "hashed"} => part[row[b].path] = b
        /\ job[b].pc \in {"hashed", "placed"} => job[b].sum = b
        /\ job[b].pc = "placed" => file[row[b].path] = b
        /\ row[b].state = "available" /\ b \notin doomed =>
              file[row[b].path] = b /\ job[b].sum = b
    BY <2>1 DEF AInv, FileInv
  <2>3. row[b].state = "available" => job[b].pc \in {"finalized", "failing", "dead", "over"}
    BY <1>1 DEF StageInv
  <2>4. CASE Submit(b)
    BY <1>1, <2>2, <2>3, <2>4 DEF Submit, Job
  <2>5. CASE Hash(b)
    BY <1>1, <2>2, <2>3, <2>5 DEF Hash, Job
  <2>6. CASE Finalize(b)
    BY <1>1, <1>3, <2>2, <2>6, GoesType DEF Finalize, Working
  <2>7. CASE Fail(b)
    BY <1>1, <2>7, GoesType DEF Fail, Working, Row
  <2>8. CASE Archive(b)
    BY <1>1, <2>2, <2>3, <2>8, GoesType DEF Archive, Working
  <2>9. CASE Place(b)
    BY <1>1, <2>2, <2>3, <2>9, GoesType DEF Place, Working
  <2>10. CASE EndQueued(b) \/ CleanUp(b) \/ Die(b) \/ Reconcile(b)
    BY <1>1, <2>2, <2>3, <2>10, GoesType DEF EndQueued, CleanUp, Die, Reconcile, Working
  <2>11. CASE EndRow(b)
    BY <2>2, <2>11 DEF EndRow
  <2> QED
    BY <2>4, <2>5, <2>6, <2>7, <2>8, <2>9, <2>10, <2>11 DEF JobStep
<1>9. FileInv'
  BY <1>7, <1>8 DEF FileInv
<1> QED
  BY <1>5, <1>9

\* Operators and the janitor take archives away, and name whom they may have hit.
LEMMA RetentionKeeps ==
    ASSUME AInv, (\E b \in Backups : Retention(b) \/ Age(b)) \/ List \/ MarkExpired
                 \/ MarkFails \/ JanitorDies \/ (\E t \in Triggers : Schedule(t))
    PROVE  ClaimInv' /\ FileInv'
<1>1. /\ TypeOK /\ StageInv /\ row \in [Backups -> Row] /\ job \in [Backups -> Job]
      /\ file \in [Paths -> Held] /\ \A c \in Backups : row[c].path \in Paths
  BY DEF AInv, TInv, TypeOK, Row
<1>2. ASSUME UNCHANGED part, excused \subseteq excused', doomed \subseteq doomed',
             \A c \in Backups :
                /\ Exists(c)' => Exists(c)
                /\ row'[c].path = row[c].path
                /\ row'[c].state = "available" => row[c].state = "available"
                /\ job'[c].sum = job[c].sum
                /\ Busy(c)' => job'[c].pc = job[c].pc
                /\ Exists(c) /\ c \notin excused' =>
                      \/ file'[row[c].path] = file[row[c].path]
                      \/ job[c].pc # "placed" /\ c \in doomed'
      PROVE  ClaimInv' /\ FileInv'
  <2>1. \A c \in Backups : Busy(c)' => Busy(c)
    BY <1>2 DEF Busy
  <2>2. ClaimInv'
    BY <1>2, <2>1 DEF AInv, ClaimInv, Claims
  <2>3. \A c \in Backups : Exists(c) \/ (~Busy(c) /\ row[c].state # "available")
    BY <1>1 DEF StageInv, Exists
  <2>4. FileInv'
    BY <1>2, <2>1, <2>3 DEF AInv, FileInv, Busy, Working
  <2> QED
    BY <2>2, <2>4
<1>3. CASE UNCHANGED <<job, row, file, part, doomed, excused>>
  BY <1>3 DEF AInv, ClaimInv, FileInv, Claims, Exists, Busy
<1>4. ASSUME NEW b \in Backups, Unlink(b) PROVE ClaimInv' /\ FileInv'
  <2>1. ASSUME NEW c \in Backups, Exists(c), c \notin excused'
        PROVE  file'[row[c].path] = file[row[c].path]
    <3>1. row[c].path # row[b].path
      BY <1>4, <2>1 DEF jobs, Unlink, AtPath
    <3> QED
      BY <1>1, <1>4, <3>1 DEF jobs, Unlink
  <2> QED
    BY <1>2, <1>4, <2>1 DEF jobs, Unlink, Exists, Busy
<1>5. ASSUME NEW b \in Backups, Take(b) PROVE ClaimInv' /\ FileInv'
  <2>1. b \in doomed' /\ job[b].pc # "placed"
    BY <1>1, <1>5 DEF jobs, Take, StageInv
  <2>2. ASSUME NEW c \in Backups, Exists(c), c \notin excused', c # b
        PROVE  file'[row[c].path] = file[row[c].path]
    <3>1. row[c].path # row[b].path
      BY <1>5, <2>2 DEF jobs, Take, AtPath
    <3> QED
      BY <1>1, <1>5, <3>1 DEF jobs, Take
  <2> QED
    BY <1>2, <1>5, <2>1, <2>2 DEF jobs, Take, Exists, Busy
<1>6. ASSUME NEW b \in Backups, NEW state \in {"deleted", "expired"},
             row' = [row EXCEPT ![b].state = state], Exists(b),
             UNCHANGED <<job, file, part, doomed, excused>>
      PROVE  ClaimInv' /\ FileInv'
  <2>1. \A c \in Backups : /\ Exists(c)' => Exists(c)
                           /\ row'[c].path = row[c].path
                           /\ row'[c].state = "available" => row[c].state = "available"
    BY <1>1, <1>6 DEF Exists, Row
  <2> QED
    BY <1>2, <1>6, <2>1 DEF Busy
<1>7. CASE MarkExpired \/ \E b \in Backups : MarkDeleted(b)
  BY <1>1, <1>6, <1>7, BackupAssumption DEF jobs, MarkExpired, MarkDeleted, StageInv, TypeOK, Held
<1>8. ASSUME NEW b \in Backups, Age(b) PROVE ClaimInv' /\ FileInv'
  <2>1. \A c \in Backups : row'[c].path = row[c].path /\ row'[c].state = row[c].state
    BY <1>1, <1>8 DEF Age, Row
  <2> QED
    BY <1>2, <1>8, <2>1 DEF Age, others, actors, Exists, Busy
<1>9. ASSUME NEW t \in Triggers, Enqueue(t) PROVE ClaimInv' /\ FileInv'
  <2>1. PICK b \in Backups : job' = [job EXCEPT ![b].pc = "queued", ![b].class = "scheduled"]
    BY <1>9 DEF jobs, Enqueue
  <2>2. \A c \in Backups : job'[c].sum = job[c].sum /\ (Busy(c)' => job'[c].pc = job[c].pc)
    BY <1>1, <2>1 DEF Job, Busy, Working
  <2> QED
    BY <1>2, <1>9, <2>2 DEF jobs, Enqueue, schedule, Exists
<1>10. CASE \/ List \/ MarkFails \/ JanitorDies \/ \E b \in Backups : DeleteDies(b)
            \/ \E t \in Triggers : Schedule(t) /\ ~Enqueue(t)
  <2>1. UNCHANGED <<job, row, file, part, doomed, excused>>
    BY <1>10 DEF jobs, List, MarkFails, JanitorDies, DeleteDies, Schedule, Trigger, ReadLast,
                 ReadActive, EndTrigger, schedule
  <2> QED
    BY <1>3, <2>1
<1> QED
  BY <1>4, <1>5, <1>7, <1>8, <1>9, <1>10 DEF Retention

\* No step of anybody disturbs the claims or what they amount to.
LEMMA ArchiveStep == ASSUME AInv, [Next]_vars PROVE ClaimInv' /\ FileInv'
<1>1. CASE UNCHANGED vars
  BY <1>1 DEF AInv, ClaimInv, FileInv, vars, Claims, Exists, Busy
<1> QED
  BY <1>1, BeginKeeps, JobKeeps, RetentionKeeps DEF Next

\* An available backup has its own archive and the checksum of that one, whatever
\* fails, dies or begins at the same path, unless it has an excuse that is named
\* (run_backup_job, run_backup_janitor).
THEOREM AvailableHolds == Spec => []AvailableHasArchive
<1>1. AInv /\ [Next]_vars => ClaimInv' /\ FileInv'
  BY ArchiveStep
<1>2. AInv => AvailableHasArchive
  BY DEF AInv, FileInv, AvailableHasArchive, Available
<1> QED
  BY <1>1, <1>2, ArchiveInit, BackupsInductive, PTL DEF Spec, AInv
--------------------------------------------------------------------------------
(* Retention.                                                              *)

\* The archives newer than b that can still be restored.
Kept(b) == {c \in finished : /\ row[c].made > row[b].made
                             /\ row[c].state = "available"
                             /\ file[row[c].path] = c}

\* What the janitor has taken or is about to take is not pinned, and as long as nobody
\* has interfered KeepMin newer archives are there.  The list may be old by the time
\* it is worked off: that is why the clause is about all that is left of it.
MinInv ==
    /\ \A b \in doomed \cup janitor.todo : job[b].class # "pinned"
    /\ janitor.pc = "taken" => janitor.at \in doomed
    /\ op # NoBackup => excused # {}
    /\ excused = {} =>
          /\ \A c \in doomed : file[row[c].path] # c
          /\ \A b \in doomed \cup janitor.todo : Cardinality(Kept(b)) >= KeepMin

RInv == AInv /\ MinInv

LEMMA MinInit == Init => MinInv
  BY DEF Init, MinInv, NoJanitor

\* Sets of backups are finite.
LEMMA KeptFinite ==
    ASSUME TypeOK, NEW b
    PROVE  IsFiniteSet(Kept(b)) /\ Cardinality(Kept(b)) \in Nat
  BY BackupAssumption, FS_Subset, FS_CardinalityType DEF TypeOK, Kept

\* An archive is kept if there is a kept set within its own that is large enough.
LEMMA KeptEnough ==
    ASSUME NEW S, NEW T, IsFiniteSet(T), S \subseteq T, Cardinality(S) >= KeepMin
    PROVE  Cardinality(T) >= KeepMin
<1>1. IsFiniteSet(S) /\ Cardinality(S) <= Cardinality(T)
  BY FS_Subset
<1>2. Cardinality(S) \in Nat /\ Cardinality(T) \in Nat /\ KeepMin \in Nat
  BY <1>1, FS_CardinalityType, BackupAssumption
<1> QED
  BY <1>1, <1>2

\* A row that is listed has enough newer archives that exist, although the rows are
\* counted: if a newer row has lost its archive to the janitor, what was kept for that
\* one is newer still.
LEMMA ListedKept ==
    ASSUME RInv, excused = {}, NEW b \in Eligible
    PROVE  Cardinality(Kept(b)) >= KeepMin
<1>1. /\ TypeOK /\ StageInv /\ b \in Backups
      /\ \A c \in Backups : row[c].made \in Nat
      /\ doomed \subseteq Backups /\ finished \subseteq Backups
  <2>1. Cardinality(Backups) \in Nat
    BY BackupAssumption, FS_CardinalityType
  <2>2. TypeOK /\ StageInv /\ row \in [Backups -> Row]
    BY DEF RInv, AInv, TInv, TypeOK
  <2> QED
    BY <2>1, <2>2 DEF Row, TypeOK, Eligible, Available
<1>2. IsFiniteSet(Kept(b)) /\ Cardinality(Newer(b)) >= KeepMin
  BY <1>1, KeptFinite DEF Eligible, BeyondMinimum
<1>3. CASE \E d \in Newer(b) : d \in doomed
  <2>1. PICK d \in doomed : d \in Newer(b)
    BY <1>3
  <2>2. row[d].made > row[b].made /\ d \in Backups
    BY <1>1, <2>1 DEF Newer
  <2>3. Kept(d) \subseteq Kept(b)
    BY <1>1, <2>2 DEF Kept
  <2>4. Cardinality(Kept(d)) >= KeepMin
    BY <2>1 DEF RInv, MinInv
  <2> QED
    BY <1>2, <2>3, <2>4, KeptEnough
<1>4. CASE \A d \in Newer(b) : d \notin doomed
  <2>1. Newer(b) \subseteq Kept(b)
    BY <1>1, <1>4 DEF Newer, Available, Kept, RInv, AInv, FileInv, StageInv
  <2> QED
    BY <1>2, <2>1, KeptEnough
<1> QED
  BY <1>3, <1>4

\* A step that leaves the janitor alone and takes neither state nor archive from an
\* available backup keeps the invariant, and so does one that is excused.
LEMMA NothingLost ==
    ASSUME RInv, TInv', UNCHANGED <<janitor, doomed>>, excused \subseteq excused',
           op' # NoBackup => excused' # {}, finished \subseteq finished',
           \A c \in finished : /\ job'[c].class = job[c].class
                               /\ row'[c].path = row[c].path
                               /\ row'[c].made = row[c].made,
           excused' = {} =>
              \A c \in finished :
                 /\ row[c].state = "available" => row'[c].state = "available"
                 /\ row[c].state = "available" /\ c \notin doomed /\ file[row[c].path] = c
                       => file'[row[c].path] = c
                 /\ c \in doomed /\ file[row[c].path] # c => file'[row[c].path] # c
    PROVE  MinInv'
<1>1. /\ doomed \subseteq finished /\ janitor.todo \subseteq finished /\ TypeOK'
  BY DEF RInv, AInv, TInv, StageInv
<1>2. \A b \in doomed' \cup janitor'.todo : job'[b].class # "pinned"
  BY <1>1 DEF RInv, MinInv
<1>3. ASSUME excused' = {}
      PROVE  /\ \A c \in doomed' : file'[row'[c].path] # c
             /\ \A b \in doomed' \cup janitor'.todo : Cardinality(Kept(b)') >= KeepMin
  <2>1. excused = {}
    BY <1>3
  <2>2. \A c \in doomed : file[row[c].path] # c
    BY <2>1 DEF RInv, MinInv
  <2>3. ASSUME NEW b \in doomed \cup janitor.todo PROVE Cardinality(Kept(b)') >= KeepMin
    <3>1. Kept(b) \subseteq Kept(b)'
      BY <1>1, <1>3, <2>2 DEF Kept
    <3>2. IsFiniteSet(Kept(b)')
      BY <1>1, BackupAssumption, FS_Subset DEF TypeOK, Kept
    <3>3. Cardinality(Kept(b)) >= KeepMin
      BY <2>1 DEF RInv, MinInv
    <3> QED
      BY <3>1, <3>2, <3>3, KeptEnough
  <2> QED
    BY <1>1, <1>3, <2>2, <2>3
<1>4. (janitor'.pc = "taken" => janitor'.at \in doomed') /\ (op' # NoBackup => excused' # {})
  BY DEF RInv, MinInv
<1> QED
  BY <1>2, <1>3, <1>4 DEF MinInv

\* The janitor takes the archive of b.  What it keeps for b is not b itself, and is
\* newer than everything that counted b.
LEMMA TakeKeeps == ASSUME RInv, TInv', NEW b \in Backups, Take(b) PROVE MinInv'
<1>1. /\ TypeOK /\ StageInv /\ b \in janitor.todo /\ b \in finished
      /\ \A c \in Backups : row[c].made \in Nat /\ row[c].path \in Paths
      /\ finished \subseteq Backups /\ file \in [Paths -> Held]
      /\ doomed \cup janitor.todo \subseteq Backups
  <2>1. Cardinality(Backups) \in Nat
    BY BackupAssumption, FS_CardinalityType
  <2>2. TypeOK /\ StageInv /\ row \in [Backups -> Row]
    BY DEF RInv, AInv, TInv, TypeOK
  <2> QED
    BY <2>1, <2>2 DEF jobs, Row, TypeOK, StageInv, Take
<1>2. /\ doomed' = doomed \cup {b} /\ UNCHANGED <<job, row, op, finished>>
      /\ janitor' = [pc |-> "taken", todo |-> janitor.todo \ {b}, at |-> b]
      /\ file' = [file EXCEPT ![row[b].path] = NoBackup]
      /\ excused' = excused \cup (AtPath(row[b].path) \ {b})
  BY DEF jobs, Take
<1>3. \A c \in doomed' \cup janitor'.todo : job'[c].class # "pinned"
  BY <1>1, <1>2 DEF RInv, MinInv
<1>4. ASSUME excused' = {}
      PROVE  /\ \A c \in doomed' : file'[row'[c].path] # c
             /\ \A c \in doomed' \cup janitor'.todo : Cardinality(Kept(c)') >= KeepMin
  <2>1. excused = {} /\ AtPath(row[b].path) \subseteq {b}
    BY <1>2, <1>4
  <2>2. \A c \in finished \ {b} : row[c].path # row[b].path
    BY <1>1, <2>1 DEF AtPath, StageInv
  <2>3. \A c \in finished \ {b} : file'[row[c].path] = file[row[c].path]
    BY <1>1, <1>2, <2>2
  <2>4. file'[row[b].path] # b
    BY <1>1, <1>2, BackupAssumption
  <2>5. \A c \in doomed' : file'[row'[c].path] # c
    BY <1>1, <1>2, <2>1, <2>3, <2>4 DEF RInv, MinInv, StageInv
  <2>6. \A c \in Backups : Kept(c)' = Kept(c) \ {b}
    BY <1>1, <1>2, <2>3, <2>4 DEF Kept
  <2>7. b \notin Kept(b) /\ Cardinality(Kept(b)) >= KeepMin
    BY <1>1, <2>1 DEF Kept, RInv, MinInv
  <2>8. ASSUME NEW c \in doomed \cup janitor.todo PROVE Cardinality(Kept(c)') >= KeepMin
    <3>1. c \in Backups /\ IsFiniteSet(Kept(c)) /\ IsFiniteSet(Kept(c) \ {b})
      BY <1>1, <2>8, KeptFinite, FS_Subset
    <3>2. CASE row[c].made < row[b].made
      <4>1. Kept(b) \subseteq Kept(c) \ {b}
        BY <1>1, <2>7, <3>1, <3>2 DEF Kept
      <4> QED
        BY <2>6, <2>7, <3>1, <4>1, KeptEnough
    <3>3. CASE ~(row[c].made < row[b].made)
      <4>1. b \notin Kept(c)
        BY <1>1, <3>1, <3>3 DEF Kept
      <4>2. Kept(c)' = Kept(c)
        BY <2>6, <3>1, <4>1
      <4>3. Cardinality(Kept(c)) >= KeepMin
        BY <2>1 DEF RInv, MinInv
      <4> QED
        BY <4>2, <4>3
    <3> QED
      BY <3>2, <3>3
  <2>9. doomed' \cup janitor'.todo \subseteq doomed \cup janitor.todo
    BY <1>1, <1>2
  <2> QED
    BY <2>5, <2>8, <2>9
<1>5. (janitor'.pc = "taken" => janitor'.at \in doomed') /\ (op' # NoBackup => excused' # {})
  BY <1>2 DEF RInv, MinInv
<1> QED
  BY <1>3, <1>4, <1>5 DEF MinInv

\* The other steps of the janitor: it lists, marks what it has taken, goes on or dies.
LEMMA JanitorKeeps ==
    ASSUME RInv, TInv', List \/ MarkExpired \/ MarkFails \/ JanitorDies
    PROVE  MinInv'
<1>1. /\ TypeOK /\ StageInv /\ UNCHANGED <<job, file, op, finished, doomed, excused>>
      /\ row \in [Backups -> Row] /\ finished \subseteq Backups
      /\ janitor.todo \subseteq finished /\ doomed \subseteq finished
  BY DEF jobs, RInv, AInv, TInv, TypeOK, StageInv, List, MarkExpired, MarkFails, JanitorDies
<1>2. /\ janitor'.todo \subseteq Eligible \/ janitor'.todo \subseteq janitor.todo
      /\ janitor'.pc # "taken"
  <2>1. CASE List
    BY <2>1 DEF jobs, List
  <2>2. NextPass.todo \subseteq janitor.todo /\ NextPass.pc # "taken"
    <3>1. janitor \in [pc : {"idle", "listed", "taken"}, todo : SUBSET Backups, at : Held]
      BY <1>1 DEF TypeOK
    <3> QED
      BY <3>1 DEF NextPass, NoJanitor
  <2> QED
    BY <2>1, <2>2 DEF jobs, MarkExpired, MarkFails, JanitorDies, NoJanitor
<1>3. \A b \in doomed' \cup janitor'.todo : job'[b].class # "pinned"
  BY <1>1, <1>2 DEF RInv, MinInv, Eligible
<1>4. /\ \A c \in finished : row'[c].path = row[c].path /\ row'[c].made = row[c].made
      /\ \A c \in finished \ doomed : row'[c].state = row[c].state
  <2>1. CASE UNCHANGED row
    BY <2>1
  <2>2. CASE MarkExpired
    <3>1. janitor.at \in doomed /\ row' = [row EXCEPT ![janitor.at].state = "expired"]
      BY <2>2 DEF jobs, MarkExpired, RInv, MinInv
    <3> QED
      BY <1>1, <3>1 DEF Row
  <2> QED
    BY <2>1, <2>2 DEF jobs, List, MarkFails, JanitorDies
<1>5. ASSUME excused' = {}
      PROVE  /\ \A c \in doomed' : file'[row'[c].path] # c
             /\ \A b \in doomed' \cup janitor'.todo : Cardinality(Kept(b)') >= KeepMin
  <2>1. excused = {} /\ \A c \in doomed : file[row[c].path] # c
    BY <1>1, <1>5 DEF RInv, MinInv
  <2>2. \A b \in finished : Kept(b)' = Kept(b)
    BY <1>1, <1>4, <2>1 DEF Kept
  <2>3. Eligible \subseteq finished
    BY <1>1 DEF Eligible, Available, StageInv
  <2>4. \A b \in doomed \cup janitor.todo \cup Eligible : Cardinality(Kept(b)) >= KeepMin
    BY <2>1, ListedKept DEF RInv, MinInv
  <2> QED
    BY <1>1, <1>2, <1>4, <2>1, <2>2, <2>3, <2>4
<1> QED
  BY <1>1, <1>2, <1>3, <1>5 DEF MinInv, RInv

\* The job: the one dangerous step is to put an archive in its place, and whose place
\* that is has been settled by ClaimInv.
LEMMA JobKeepsMin == ASSUME RInv, TInv', NEW b \in Backups, JobStep(b) PROVE MinInv'
<1>1. /\ TypeOK /\ StageInv /\ AInv /\ finished \subseteq Backups
      /\ row \in [Backups -> Row] /\ job \in [Backups -> Job] /\ file \in [Paths -> Held]
      /\ \A c \in Backups : row[c].path \in Paths
  BY DEF RInv, AInv, TInv, TypeOK, Row
<1>2. /\ UNCHANGED <<janitor, doomed, op>> /\ excused \subseteq excused'
      /\ finished \subseteq finished'
      /\ op' # NoBackup => excused' # {}
  BY DEF JobStep, Submit, EndQueued, EndRow, Begin, Archive, Hash, Place, Finalize, Fail,
         CleanUp, Die,
         Reconcile, others, actors, RInv, MinInv
<1>3. \A c \in Backups \ {b} : job'[c] = job[c] /\ row'[c] = row[c]
  BY <1>1 DEF JobStep, Submit, EndQueued, EndRow, Begin, Archive, Hash, Place, Finalize, Fail,
              CleanUp,
              Die, Reconcile, Goes
<1>4. CASE UNCHANGED <<row, file>> /\ ~Submit(b)
  <2>1. job'[b].class = job[b].class
    BY <1>1, <1>4 DEF JobStep, EndQueued, EndRow, Begin, Archive, Hash, Place, Finalize, Fail,
                      CleanUp,
                      Die, Reconcile, Goes, Job
  <2> QED
    BY <1>1, <1>2, <1>3, <1>4, <2>1, NothingLost
<1>5. CASE Submit(b) \/ Begin(b) \/ Finalize(b)
  <2>1. b \notin finished /\ UNCHANGED file
    BY <1>1, <1>5 DEF Submit, Begin, Finalize, StageInv
  <2> QED
    BY <1>1, <1>2, <1>3, <2>1, NothingLost
<1>6. CASE Place(b)
  <2>1. /\ b \notin finished /\ UNCHANGED row /\ Busy(b)
        /\ file' = [file EXCEPT ![row[b].path] = part[row[b].path]]
    BY <1>1, <1>6 DEF Place, StageInv, Busy, Working
  <2>2. \A c \in finished : job'[c] = job[c] /\ row'[c] = row[c] /\ c # b
    BY <1>1, <1>3, <2>1
  <2>3. ASSUME excused' = {}, NEW c \in finished
        PROVE  /\ row[c].state = "available" /\ c \notin doomed /\ file[row[c].path] = c
                     => file'[row[c].path] = c
               /\ c \in doomed /\ file[row[c].path] # c => file'[row[c].path] # c
    <3>1. excused = {} /\ c \in Backups /\ c # b
      BY <1>1, <1>2, <2>2, <2>3
    <3>2. CASE row[c].path # row[b].path
      BY <1>1, <2>1, <3>1, <3>2
    <3>3. CASE row[c].path = row[b].path
      <4>1. row[c].state # "available" \/ c \in doomed
        BY <1>1, <2>1, <3>1, <3>3, OwnPath
      <4>2. part[row[b].path] = b
        BY <1>1, <1>6, <3>1 DEF Place, AInv, FileInv
      <4>3. file'[row[c].path] = b
        BY <1>1, <2>1, <3>1, <3>3, <4>2
      <4> QED
        BY <3>1, <4>1, <4>3
    <3> QED
      BY <3>2, <3>3
  <2> QED
    BY <1>2, <2>2, <2>3, NothingLost
<1>7. CASE Fail(b)
  <2>1. /\ UNCHANGED file /\ row'[b].path = row[b].path /\ row'[b].made = row[b].made
        /\ job'[b].class = job[b].class
    BY <1>1, <1>7 DEF Fail, Goes, Row, Job
  <2>2. b \in finished => b \in excused'
    BY <1>1, <1>7 DEF Fail, StageInv, Working
  <2> QED
    BY <1>1, <1>2, <1>3, <2>1, <2>2, NothingLost
<1> QED
  BY <1>4, <1>5, <1>6, <1>7 DEF JobStep, EndQueued, EndRow, Archive, Hash, CleanUp, Die, Reconcile

\* Operators are excused; time and the schedule touch no archive.
LEMMA OthersKeepMin ==
    ASSUME RInv, TInv',
           \/ \E b \in Backups : Unlink(b) \/ MarkDeleted(b) \/ DeleteDies(b) \/ Age(b)
           \/ \E t \in Triggers : Schedule(t)
           \/ UNCHANGED vars
    PROVE  MinInv'
<1>1. /\ TypeOK /\ StageInv /\ finished \subseteq Backups
      /\ row \in [Backups -> Row] /\ job \in [Backups -> Job]
  BY DEF RInv, AInv, TInv, TypeOK
<1>2. ASSUME NEW b \in Backups, Unlink(b) PROVE MinInv'
  <2>1. b \in excused'
    BY <1>2 DEF jobs, Unlink, AtPath
  <2> QED
    BY <1>1, <1>2, <2>1, NothingLost DEF jobs, Unlink
<1>3. ASSUME NEW b \in Backups, MarkDeleted(b) PROVE MinInv'
  <2>1. excused # {} /\ op' = NoBackup
    BY <1>3, BackupAssumption DEF jobs, MarkDeleted, RInv, MinInv
  <2>2. \A c \in finished : row'[c].path = row[c].path /\ row'[c].made = row[c].made
    BY <1>1, <1>3 DEF jobs, MarkDeleted, Row
  <2> QED
    BY <1>1, <1>3, <2>1, <2>2, NothingLost DEF jobs, MarkDeleted
<1>4. ASSUME NEW b \in Backups, Age(b) PROVE MinInv'
  <2>1. \A c \in finished : /\ row'[c].path = row[c].path /\ row'[c].made = row[c].made
                            /\ row'[c].state = row[c].state
    BY <1>1, <1>4 DEF Age, Row
  <2> QED
    BY <1>1, <1>4, <2>1, NothingLost DEF Age, others, actors, RInv, MinInv
<1>5. ASSUME NEW t \in Triggers, Enqueue(t) PROVE MinInv'
  <2>1. \A c \in finished : job'[c] = job[c]
    BY <1>1, <1>5 DEF jobs, Enqueue, StageInv
  <2> QED
    BY <1>1, <1>5, <2>1, NothingLost DEF jobs, Enqueue, schedule, RInv, MinInv
<1>6. CASE \/ \E b \in Backups : DeleteDies(b)
           \/ \E t \in Triggers : Schedule(t) /\ ~Enqueue(t)
           \/ UNCHANGED vars
  <2>1. /\ UNCHANGED <<job, row, file, janitor, finished, doomed, excused>>
        /\ op' \in {op, NoBackup}
    BY <1>6 DEF jobs, DeleteDies, Schedule, Trigger, ReadLast, ReadActive, EndTrigger, schedule,
                vars
  <2> QED
    BY <1>1, <2>1, NothingLost DEF RInv, MinInv
<1> QED
  BY <1>2, <1>3, <1>4, <1>5, <1>6

\* The janitor expires nothing pinned, and as long as nobody else has interfered KeepMin
\* newer archives that can be restored are there for each one that it has taken: although
\* it works off a list that gets old, counts rows whose archive it has lost in a crash,
\* and backups finish in the meantime (infra/backup_janitor.py).
THEOREM MinimumHolds == Spec => []MinimumKept
<1>1. RInv /\ TInv' /\ [Next]_vars => MinInv'
  <2> SUFFICES ASSUME RInv, TInv', [Next]_vars PROVE MinInv'
    OBVIOUS
  <2> QED
    BY TakeKeeps, JanitorKeeps, JobKeepsMin, OthersKeepMin DEF Next, Retention
<1>2. AInv /\ [Next]_vars => ClaimInv' /\ FileInv'
  BY ArchiveStep
<1>3. MinInv => MinimumKept
  BY DEF MinInv, MinimumKept, Kept
<1> QED
  BY <1>1, <1>2, <1>3, MinInit, ArchiveInit, BackupsInductive, PTL DEF Spec, AInv, RInv
================================================================================
