------------------------ MODULE BackupRecordsProofs -------------------------
(***************************************************************************)
(* Proofs about BackupRecords, for every number of sites, creators,        *)
(* records and jobs.  Where a theorem assumes ~ConnectionReused, the       *)
(* connection that inserts a record has inserted none before; the run      *)
(* backups_duplicate shows what happens otherwise.                         *)
(***************************************************************************)
EXTENDS BackupRecords, TLAPS

BackupStatus == {"none", "pending", "running", "completed", "failed"}
JobState == {"new", "queued", "running", "ended"}
\* Init gives every row that is not there yet the values of AnySite and AnyType.
SiteOf == Sites \cup {AnySite}
TypeOf == Types \cup {AnyType}

BackupRow == [status : BackupStatus, site : SiteOf, type : TypeOf, age : 0..MaxAge]
JobRow == [state : JobState, backup : 0..MaxBackups, site : SiteOf, type : TypeOf, s3 : BOOLEAN]
CreatorRow == [pc : {"idle", "checked", "inserted"}, site : SiteOf, type : TypeOf, id : 0..MaxBackups]
WorkerPc == {"idle", "claimed", "working", "failover", "failed", "succeeded", "retain"}

\* The variables have their types.
BackupTypeOK ==
    /\ backups \in [BackupIds -> BackupRow]
    /\ nextBackup \in 1..(MaxBackups + 1)
    /\ jobs \in [JobIds -> JobRow]
    /\ nextJob \in 1..(MaxJobs + 1)
    /\ creators \in [Creators -> CreatorRow]
    /\ worker \in [pc : WorkerPc, job : 0..MaxJobs]
    /\ worker.pc # "idle" => worker.job \in JobIds

\* Ids are handed out in order.
FreshInv ==
    /\ \A b \in BackupIds : b >= nextBackup => backups[b].status = "none"
    /\ \A j \in JobIds : j >= nextJob => jobs[j].state = "new"
    /\ \A j \in JobIds : jobs[j].state # "new" => jobs[j].backup < nextBackup
    /\ \A c \in Creators : creators[c].pc = "inserted" => creators[c].id < nextBackup

\* A record that waits for its job belongs to one creator and has no job yet.
OwnInv ==
    \A c \in Creators : creators[c].pc = "inserted" =>
        /\ \A d \in Creators : creators[d].pc = "inserted" /\ d # c => creators[d].id # creators[c].id
        /\ \A j \in JobIds : jobs[j].state # "new" => jobs[j].backup # creators[c].id

\* The job the worker holds runs, or has ended; between the end of a job and
\* its failover, or the completion of its record, the record has no other job.
WorkerInv ==
    /\ worker.pc \in {"claimed", "working"} => jobs[worker.job].state = "running"
    /\ worker.pc \in {"failover", "failed", "succeeded", "retain"} => jobs[worker.job].state = "ended"
    /\ worker.pc \in {"failover", "succeeded"} =>
          \A j \in JobIds : jobs[j].state \in JobActive => jobs[j].backup # WBackup

\* Nothing is left that would write to a completed record.
DoneInv ==
    \A b \in BackupIds : backups[b].status = "completed" =>
        /\ \A j \in JobIds : jobs[j].state \in JobActive => jobs[j].backup # b
        /\ \A c \in Creators : creators[c].pc = "inserted" => creators[c].id # b
        /\ worker.pc \in {"failover", "failed"} => WBackup # b

RecordInv ==
    BackupTypeOK /\ FreshInv /\ OwnInv /\ WorkerInv /\ OneActiveJobPerRecord /\ DoneInv

-----------------------------------------------------------------------------
(* Type correctness *)

\* The steps of a creating request.
CreatorStep(c) ==
    \/ \E s \in Sites, t \in Types : Begin(c, s, t)
    \/ InsertRecord(c) \/ InsertNothing(c) \/ InsertJob(c)

\* The steps of the record clean-ups, of the clock and of DELETE /backups/:id.
SweepStep ==
    \/ \E b \in BackupIds : DeleteRecord(b)
    \/ CleanupStuckRunning \/ CleanupOrphanedPending \/ Tick

(* Every step is one of a creating request, of the worker, of the job's other
   parties or a sweep over the records. *)
LEMMA StepCases ==
    ASSUME [Next]_vars
    PROVE  \/ \E c \in Creators : CreatorStep(c)
           \/ \E j \in JobIds : Claim(j) \/ EndJob(j)
           \/ WorkerStep \/ Abandon \/ SweepStep \/ UNCHANGED vars
<1>1. ASSUME NEW c \in Creators,
             CreateBackup(c) \/ CreateDatabaseBackup(c) \/ BulkCreate(c)
               \/ ProcessSchedule(c) \/ ProcessBackupConfig(c)
      PROVE  CreatorStep(c)
  BY <1>1 DEF CreateBackup, CreateDatabaseBackup, BulkCreate, ProcessSchedule,
     ProcessBackupConfig, CreatorStep, Begin
<1> QED
  BY <1>1 DEF Next, CreatorStep, SweepStep

(* The initial state is well typed. *)
LEMMA BackupTypeInit == Init => BackupTypeOK
<1> SUFFICES ASSUME Init PROVE BackupTypeOK
  OBVIOUS
<1>1. AnySite \in SiteOf /\ AnyType \in TypeOf
  BY DEF SiteOf, TypeOf
<1>2. 0 \in 0..MaxAge /\ 0 \in 0..MaxBackups /\ 0 \in 0..MaxJobs
      /\ 1 \in 1..(MaxBackups + 1) /\ 1 \in 1..(MaxJobs + 1)
  BY BackupAssumption
<1> QED
  BY <1>1, <1>2 DEF Init, BackupTypeOK, BackupRow, BackupStatus, JobRow, JobState, CreatorRow,
     WorkerPc, Resting, Idle

(* Writing a status keeps the records well typed. *)
LEMMA MarkedType ==
    ASSUME BackupTypeOK, NEW b, NEW s \in BackupStatus
    PROVE  Marked(b, s) \in [BackupIds -> BackupRow]
BY DEF Marked, BackupTypeOK, BackupRow

(* Every step keeps the variables in their types. *)
LEMMA BackupTypeStep == BackupTypeOK /\ [Next]_vars => BackupTypeOK'
<1> SUFFICES ASSUME BackupTypeOK, [Next]_vars PROVE BackupTypeOK'
  OBVIOUS
<1> USE BackupAssumption
<1>r. Resting \in CreatorRow /\ Idle \in [pc : WorkerPc, job : 0..MaxJobs] /\ Idle.pc = "idle"
  BY DEF Resting, Idle, CreatorRow, WorkerPc, SiteOf, TypeOf
<1>j. \A j \in JobIds, s \in JobState : [jobs EXCEPT ![j].state = s] \in [JobIds -> JobRow]
  BY DEF BackupTypeOK, JobRow
<1>1. CASE \E c \in Creators : CreatorStep(c)
  <2> PICK c \in Creators : CreatorStep(c) BY <1>1
  <2>1. CASE \E s \in Sites, t \in Types : Begin(c, s, t)
    BY <2>1 DEF Begin, BackupTypeOK, CreatorRow, SiteOf, TypeOf
  <2>2. CASE InsertRecord(c)
    <3>1. creators[c] \in CreatorRow /\ nextBackup \in BackupIds
      BY <2>2 DEF InsertRecord, BackupTypeOK, BackupIds
    <3>2. backups' \in [BackupIds -> BackupRow]
      BY <2>2, <3>1 DEF InsertRecord, BackupTypeOK, BackupRow, BackupStatus, CreatorRow
    <3>3. creators' \in [Creators -> CreatorRow]
      <4>1. creators' = [creators EXCEPT ![c] = [creators[c] EXCEPT !.pc = "inserted", !.id = nextBackup]]
        BY <2>2 DEF InsertRecord
      <4>2. [creators[c] EXCEPT !.pc = "inserted", !.id = nextBackup] \in CreatorRow
        <5>1. nextBackup \in 0..MaxBackups
          BY <3>1 DEF BackupIds
        <5> QED BY <3>1, <5>1 DEF CreatorRow
      <4> QED BY <4>1, <4>2 DEF BackupTypeOK
    <3> QED BY <2>2, <3>1, <3>2, <3>3 DEF InsertRecord, BackupTypeOK
  <2>3. CASE InsertNothing(c)
    <3>1. creators[c] \in CreatorRow
      BY DEF BackupTypeOK
    <3>2. \A id \in LastInsertIds : id \in 0..MaxBackups
      BY DEF LastInsertIds, BackupTypeOK
    <3>3. creators' \in [Creators -> CreatorRow]
      <4>1. PICK id \in LastInsertIds :
              creators' = [creators EXCEPT ![c] =
                 IF id = 0 THEN Resting ELSE [creators[c] EXCEPT !.pc = "inserted", !.id = id]]
        BY <2>3 DEF InsertNothing
      <4>2. [creators[c] EXCEPT !.pc = "inserted", !.id = id] \in CreatorRow
        BY <3>1, <3>2 DEF CreatorRow
      <4> QED BY <4>1, <4>2, <1>r DEF BackupTypeOK
    <3> QED BY <2>3, <3>3 DEF InsertNothing, BackupTypeOK
  <2>4. CASE InsertJob(c)
    <3>1. creators[c] \in CreatorRow
      BY DEF BackupTypeOK
    <3>2. jobs' \in [JobIds -> JobRow] /\ nextJob' \in 1..(MaxJobs + 1)
      BY <2>4, <3>1 DEF InsertJob, BackupTypeOK, CreatorRow, JobRow, JobState
    <3> QED BY <2>4, <3>2, <1>r DEF InsertJob, BackupTypeOK
  <2> QED BY <2>1, <2>2, <2>3, <2>4 DEF CreatorStep
<1>2. CASE \E j \in JobIds : Claim(j) \/ EndJob(j)
  <2> PICK j \in JobIds : Claim(j) \/ EndJob(j) BY <1>2
  <2>1. CASE Claim(j)
    <3>1. jobs' \in [JobIds -> JobRow]
      BY <2>1, <1>j DEF Claim, JobState
    <3>2. worker' \in [pc : WorkerPc, job : 0..MaxJobs] /\ worker'.job \in JobIds
      BY <2>1 DEF Claim, WorkerPc, JobIds
    <3> QED BY <2>1, <3>1, <3>2 DEF Claim, BackupTypeOK
  <2>2. CASE EndJob(j)
    BY <2>2, <1>j DEF EndJob, BackupTypeOK, JobState
  <2> QED BY <2>1, <2>2
<1>3. CASE WorkerStep
  <2>1. worker.job \in JobIds /\ worker.pc # "idle"
    BY <1>3 DEF WorkerStep, MarkRunning, Requeue, GiveUp, Failover, MarkFailed, Succeed,
       MarkCompleted, DeleteOldest, BackupTypeOK
  <2>2. \A p \in WorkerPc : [worker EXCEPT !.pc = p] \in [pc : WorkerPc, job : 0..MaxJobs]
                            /\ [worker EXCEPT !.pc = p].job = worker.job
    BY DEF BackupTypeOK
  <2>3. CASE MarkRunning \/ MarkFailed \/ MarkCompleted
    <3>1. backups' \in [BackupIds -> BackupRow]
      BY <2>3, MarkedType DEF MarkRunning, MarkFailed, MarkCompleted, BackupStatus
    <3> QED BY <2>1, <2>2, <2>3, <3>1, <1>r
            DEF MarkRunning, MarkFailed, MarkCompleted, BackupTypeOK, WorkerPc
  <2>4. CASE Requeue \/ GiveUp \/ Succeed
    <3>1. jobs' \in [JobIds -> JobRow]
      BY <2>1, <2>4, <1>j DEF Requeue, GiveUp, Succeed, SetJob, JobState
    <3> QED BY <2>1, <2>2, <2>4, <3>1, <1>r DEF Requeue, GiveUp, Succeed, BackupTypeOK, WorkerPc
  <2>5. CASE Failover
    <3>1. jobs[worker.job] \in JobRow
      BY <2>1 DEF BackupTypeOK
    <3>2. jobs' \in [JobIds -> JobRow] /\ nextJob' \in 1..(MaxJobs + 1)
      <4>1. [jobs[worker.job] EXCEPT !.state = "queued", !.s3 = FALSE] \in JobRow
        BY <3>1 DEF JobRow, JobState
      <4> QED BY <2>5, <4>1 DEF Failover, BackupTypeOK
    <3> QED BY <2>1, <2>2, <2>5, <3>2 DEF Failover, BackupTypeOK, WorkerPc
  <2>6. CASE DeleteOldest
    <3>1. backups' \in [BackupIds -> BackupRow]
      BY <2>6 DEF DeleteOldest, BackupTypeOK, BackupRow, BackupStatus
    <3> QED BY <2>6, <3>1, <1>r DEF DeleteOldest, BackupTypeOK
  <2> QED BY <1>3, <2>3, <2>4, <2>5, <2>6 DEF WorkerStep
<1>4. CASE Abandon
  <2>1. jobs' \in [JobIds -> JobRow]
    <3>1. worker.pc # "idle" => worker.job \in JobIds
      BY DEF BackupTypeOK
    <3>2. jobs \in [JobIds -> JobRow] /\ "ended" \in JobState
      BY DEF BackupTypeOK, JobState
    <3>3. CASE worker.pc # "idle" /\ SetJob("ended")
      BY <3>1, <3>2, <3>3, <1>j DEF SetJob
    <3> QED BY <1>4, <3>2, <3>3 DEF Abandon
  <2>2. creators' \in [Creators -> CreatorRow]
    BY <1>4, <1>r DEF Abandon, BackupTypeOK
  <2> QED BY <1>4, <2>1, <2>2, <1>r DEF Abandon, BackupTypeOK
<1>5. CASE SweepStep
  <2>1. backups' \in [BackupIds -> BackupRow]
    BY <1>5 DEF SweepStep, DeleteRecord, CleanupStuckRunning, CleanupOrphanedPending, Tick,
       Older, BackupTypeOK, BackupRow, BackupStatus
  <2> QED BY <1>5, <2>1 DEF SweepStep, DeleteRecord, CleanupStuckRunning, CleanupOrphanedPending,
             Tick, BackupTypeOK
<1>6. CASE UNCHANGED vars
  BY <1>6 DEF vars, BackupTypeOK
<1> QED
  BY <1>1, <1>2, <1>3, <1>4, <1>5, <1>6, StepCases

-----------------------------------------------------------------------------
(* What a step does to each row *)

(* UPDATE backups SET status = s WHERE id = b changes the status of that row,
   if it exists, and nothing else. *)
LEMMA MarkedRow ==
    ASSUME BackupTypeOK, NEW b, NEW s
    PROVE  \A i \in BackupIds :
             /\ Marked(b, s)[i].status = IF i = b /\ backups[b].status # "none" THEN s
                                         ELSE backups[i].status
             /\ Marked(b, s)[i].site = backups[i].site
             /\ Marked(b, s)[i].type = backups[i].type
<1> TAKE i \in BackupIds
<1>1. backups[i] \in BackupRow
  BY DEF BackupTypeOK
<1>2. Marked(b, s)[i] = IF i = b /\ backups[b].status # "none" THEN [backups[i] EXCEPT !.status = s]
                        ELSE backups[i]
  BY DEF Marked, BackupTypeOK
<1> QED
  BY <1>1, <1>2 DEF BackupRow

(* Inserting a record fills the next id with a pending one. *)
LEMMA InsertRecordRow ==
    ASSUME BackupTypeOK, NEW c \in Creators, InsertRecord(c)
    PROVE  /\ nextBackup \in BackupIds /\ nextBackup' = nextBackup + 1
           /\ backups'[nextBackup].status = "pending"
           /\ backups'[nextBackup].site = creators[c].site
           /\ backups'[nextBackup].type = creators[c].type
           /\ \A i \in BackupIds : i # nextBackup => backups'[i] = backups[i]
           /\ creators'[c].pc = "inserted" /\ creators'[c].id = nextBackup
           /\ \A d \in Creators : d # c => creators'[d] = creators[d]
           /\ UNCHANGED <<jobs, nextJob, worker>>
<1>1. nextBackup \in BackupIds /\ creators[c] \in CreatorRow
  BY BackupAssumption DEF BackupTypeOK, InsertRecord, BackupIds
<1>2. creators' = [creators EXCEPT ![c] = [creators[c] EXCEPT !.pc = "inserted", !.id = nextBackup]]
  BY DEF InsertRecord
<1>3. creators'[c].pc = "inserted" /\ creators'[c].id = nextBackup
  BY <1>1, <1>2 DEF BackupTypeOK, CreatorRow
<1>4. \A d \in Creators : d # c => creators'[d] = creators[d]
  BY <1>2 DEF BackupTypeOK
<1> QED
  BY <1>1, <1>3, <1>4 DEF InsertRecord, BackupTypeOK

(* Inserting a job fills the next id with a queued one for the record, or fails. *)
LEMMA InsertJobRow ==
    ASSUME BackupTypeOK, NEW c \in Creators, InsertJob(c)
    PROVE  /\ \/ /\ nextJob \in JobIds /\ nextJob' = nextJob + 1
                 /\ jobs'[nextJob].state = "queued" /\ jobs'[nextJob].backup = creators[c].id
                 /\ \A i \in JobIds : i # nextJob => jobs'[i] = jobs[i]
              \/ UNCHANGED <<jobs, nextJob>>
           /\ creators[c].pc = "inserted" /\ creators'[c].pc = "idle"
           /\ \A d \in Creators : d # c => creators'[d] = creators[d]
           /\ UNCHANGED <<backups, nextBackup, worker>>
<1>1. creators'[c].pc = "idle" /\ \A d \in Creators : d # c => creators'[d] = creators[d]
  BY DEF InsertJob, BackupTypeOK, Resting
<1>2. nextJob <= MaxJobs => nextJob \in JobIds
  BY BackupAssumption DEF BackupTypeOK, JobIds
<1> QED
  BY <1>1, <1>2 DEF InsertJob, BackupTypeOK

(* The failover job is a queued one for the same record; it may also fail. *)
LEMMA FailoverRow ==
    ASSUME BackupTypeOK, Failover
    PROVE  /\ \/ /\ nextJob \in JobIds /\ nextJob' = nextJob + 1
                 /\ jobs'[nextJob].state = "queued" /\ jobs'[nextJob].backup = WBackup
                 /\ \A i \in JobIds : i # nextJob => jobs'[i] = jobs[i]
              \/ UNCHANGED <<jobs, nextJob>>
           /\ worker.pc = "failover" /\ worker.job \in JobIds
           /\ worker'.pc = "failed" /\ worker'.job = worker.job
           /\ UNCHANGED <<backups, nextBackup, creators>>
<1>1. worker.pc = "failover" /\ worker.job \in JobIds
      /\ worker'.pc = "failed" /\ worker'.job = worker.job
  BY DEF Failover, BackupTypeOK
<1>2. nextJob <= MaxJobs => nextJob \in JobIds
  BY BackupAssumption DEF BackupTypeOK, JobIds
<1>3. jobs[worker.job] \in JobRow
  BY <1>1 DEF BackupTypeOK
<1>4. UNCHANGED <<jobs, nextJob>> \/
      /\ nextJob <= MaxJobs /\ nextJob' = nextJob + 1
      /\ jobs' = [jobs EXCEPT ![nextJob] = [jobs[worker.job] EXCEPT !.state = "queued", !.s3 = FALSE]]
  BY DEF Failover
<1>5. LET r == [jobs[worker.job] EXCEPT !.state = "queued", !.s3 = FALSE]
      IN  r.state = "queued" /\ r.backup = WBackup
  BY <1>3 DEF JobRow, WBackup
<1>6. UNCHANGED <<backups, nextBackup, creators>>
  BY DEF Failover
<1> QED
  BY <1>1, <1>2, <1>4, <1>5, <1>6 DEF BackupTypeOK

(* The sweeps fail, delete or age records. *)
LEMMA SweepRow ==
    ASSUME BackupTypeOK, SweepStep
    PROVE  /\ \A i \in BackupIds :
                /\ backups'[i].site = backups[i].site /\ backups'[i].type = backups[i].type
                /\ \/ backups'[i].status \in {backups[i].status, "none"}
                   \/ backups[i].status = "running" /\ backups'[i].status = "failed"
           /\ UNCHANGED <<nextBackup, jobs, nextJob, creators, worker>>
<1>1. UNCHANGED <<nextBackup, jobs, nextJob, creators, worker>>
  BY DEF SweepStep, DeleteRecord, CleanupStuckRunning, CleanupOrphanedPending, Tick
<1> SUFFICES ASSUME NEW i \in BackupIds
    PROVE  /\ backups'[i].site = backups[i].site /\ backups'[i].type = backups[i].type
           /\ \/ backups'[i].status \in {backups[i].status, "none"}
              \/ backups[i].status = "running" /\ backups'[i].status = "failed"
  BY <1>1
<1>2. backups[i] \in BackupRow
  BY DEF BackupTypeOK
<1>3. \/ backups'[i] = backups[i]
      \/ backups'[i] = [backups[i] EXCEPT !.status = "none"]
      \/ backups[i].status = "running" /\ backups'[i] = [backups[i] EXCEPT !.status = "failed"]
      \/ backups'[i] = [backups[i] EXCEPT !.age = Older(@)]
  <2>1. CASE \E b \in BackupIds : DeleteRecord(b)
    <3> PICK b \in BackupIds : DeleteRecord(b) BY <2>1
    <3> QED BY DEF DeleteRecord, BackupTypeOK
  <2>2. CASE CleanupStuckRunning
    BY <2>2 DEF CleanupStuckRunning, Stuck
  <2>3. CASE CleanupOrphanedPending
    BY <2>3 DEF CleanupOrphanedPending
  <2>4. CASE Tick
    BY <2>4 DEF Tick
  <2> QED BY <2>1, <2>2, <2>3, <2>4 DEF SweepStep
<1> QED
  BY <1>2, <1>3 DEF BackupRow

(* The retention deletes records. *)
LEMMA DeleteOldestRow ==
    ASSUME BackupTypeOK, DeleteOldest
    PROVE  /\ \A i \in BackupIds :
                /\ backups'[i].site = backups[i].site /\ backups'[i].type = backups[i].type
                /\ backups'[i].status \in {backups[i].status, "none"}
           /\ worker'.pc = "idle" /\ UNCHANGED <<nextBackup, jobs, nextJob, creators>>
<1>1. worker'.pc = "idle" /\ UNCHANGED <<nextBackup, jobs, nextJob, creators>>
  BY DEF DeleteOldest, Idle
<1> SUFFICES ASSUME NEW i \in BackupIds
    PROVE  /\ backups'[i].site = backups[i].site /\ backups'[i].type = backups[i].type
           /\ backups'[i].status \in {backups[i].status, "none"}
  BY <1>1
<1>2. backups[i] \in BackupRow
  BY DEF BackupTypeOK
<1>3. backups'[i] = backups[i] \/ backups'[i] = [backups[i] EXCEPT !.status = "none"]
  BY DEF DeleteOldest, BackupTypeOK
<1> QED
  BY <1>2, <1>3 DEF BackupRow

-----------------------------------------------------------------------------
(* One pending record for each site and type *)

(* Only InsertRecord makes a record pending; no step changes a site or a type
   otherwise. *)
LEMMA PendingStep ==
    ASSUME BackupTypeOK, [Next]_vars
    PROVE  \/ \E c \in Creators : InsertRecord(c)
           \/ \A i \in BackupIds :
                /\ backups'[i].site = backups[i].site /\ backups'[i].type = backups[i].type
                /\ backups'[i].status = "pending" => backups[i].status = "pending"
<1>1. CASE \E c \in Creators : CreatorStep(c)
  BY <1>1 DEF CreatorStep, Begin, InsertNothing, InsertJob
<1>2. CASE \E j \in JobIds : Claim(j) \/ EndJob(j)
  BY <1>2 DEF Claim, EndJob
<1>3. CASE WorkerStep
  <2>1. CASE MarkRunning \/ MarkFailed \/ MarkCompleted
    BY <2>1, MarkedRow DEF MarkRunning, MarkFailed, MarkCompleted
  <2>2. CASE DeleteOldest
    BY <2>2, DeleteOldestRow
  <2>3. CASE Requeue \/ GiveUp \/ Succeed \/ Failover
    BY <2>3 DEF Requeue, GiveUp, Succeed, Failover
  <2> QED BY <1>3, <2>1, <2>2, <2>3 DEF WorkerStep
<1>4. CASE Abandon \/ UNCHANGED vars
  BY <1>4 DEF Abandon, vars
<1>5. CASE SweepStep
  BY <1>5, SweepRow
<1> QED
  BY <1>1, <1>2, <1>3, <1>4, <1>5, StepCases

(* Overlapping requests and scheduler passes never leave two pending records of
   one site and type, whatever the connections answer: BackupStore.Create's
   INSERT ... WHERE NOT EXISTS is atomic. *)
THEOREM OnePendingHolds == Spec => []OnePendingPerTarget
<1>1. Init => BackupTypeOK /\ OnePendingPerTarget
  BY BackupTypeInit DEF Init, OnePendingPerTarget
<1>2. BackupTypeOK /\ OnePendingPerTarget /\ [Next]_vars
        => (BackupTypeOK /\ OnePendingPerTarget)'
  <2> SUFFICES ASSUME BackupTypeOK, OnePendingPerTarget, [Next]_vars
               PROVE  OnePendingPerTarget'
    BY BackupTypeStep
  <2>1. CASE \E c \in Creators : InsertRecord(c)
    <3> PICK c \in Creators : InsertRecord(c) BY <2>1
    <3>1. \A i \in BackupIds : backups[i].status = "pending"
            => ~(backups[i].site = creators[c].site /\ backups[i].type = creators[c].type)
      BY DEF InsertRecord, Duplicate, InProgress
    <3> QED BY <3>1, InsertRecordRow DEF OnePendingPerTarget
  <2>2. CASE \A i \in BackupIds :
               /\ backups'[i].site = backups[i].site /\ backups'[i].type = backups[i].type
               /\ backups'[i].status = "pending" => backups[i].status = "pending"
    BY <2>2 DEF OnePendingPerTarget
  <2> QED BY <2>1, <2>2, PendingStep
<1> QED
  BY <1>1, <1>2, PTL DEF Spec

-----------------------------------------------------------------------------
(* One active job for each record, and completed records *)

\* The conjuncts of RecordInv that are about more than types.
JobInv == FreshInv /\ OwnInv /\ WorkerInv /\ OneActiveJobPerRecord /\ DoneInv

(* The steps of creating requests keep the invariant. *)
LEMMA CreatorKeeps ==
    ASSUME ~ConnectionReused, RecordInv, NEW c \in Creators, CreatorStep(c)
    PROVE  JobInv'
<1>t. BackupTypeOK /\ FreshInv /\ OwnInv /\ WorkerInv /\ OneActiveJobPerRecord /\ DoneInv
  BY DEF RecordInv
<1>n. /\ nextBackup \in Int /\ nextJob \in Int /\ BackupIds \subseteq Int /\ JobIds \subseteq Int
      /\ \A j \in JobIds : jobs[j].backup \in Int
      /\ \A d \in Creators : creators[d].id \in Int
  BY <1>t, BackupAssumption DEF BackupTypeOK, BackupIds, JobIds, JobRow, CreatorRow
<1>1. ASSUME UNCHANGED <<backups, nextBackup, jobs, nextJob, worker>>,
             creators'[c].pc # "inserted",
             \A d \in Creators : d # c => creators'[d] = creators[d]
      PROVE  JobInv'
  <2>1. \A d \in Creators : creators'[d].pc = "inserted" => creators'[d] = creators[d]
    BY <1>1
  <2> QED BY <1>1, <1>t, <2>1 DEF JobInv, FreshInv, OwnInv, WorkerInv, WBackup, OneActiveJobPerRecord, DoneInv
<1>2. CASE \E s \in Sites, t \in Types : Begin(c, s, t)
  BY <1>1, <1>2, <1>t DEF Begin, BackupTypeOK
<1>3. CASE InsertNothing(c)
  <2>1. creators' = [creators EXCEPT ![c] = Resting]
    BY <1>3 DEF InsertNothing, LastInsertIds
  <2> QED BY <1>1, <1>3, <1>t, <2>1 DEF InsertNothing, BackupTypeOK, Resting
<1>4. CASE InsertRecord(c)
  <2>1. /\ nextBackup \in BackupIds /\ nextBackup' = nextBackup + 1
        /\ backups'[nextBackup].status = "pending"
        /\ \A i \in BackupIds : i # nextBackup => backups'[i] = backups[i]
        /\ creators'[c].pc = "inserted" /\ creators'[c].id = nextBackup
        /\ \A d \in Creators : d # c => creators'[d] = creators[d]
        /\ UNCHANGED <<jobs, nextJob, worker>>
    BY <1>4, <1>t, InsertRecordRow
  <2>2. FreshInv'
    <3>1. \A b \in BackupIds : b >= nextBackup' => backups'[b].status = "none"
      BY <1>t, <1>n, <2>1 DEF FreshInv
    <3>2. \A j \in JobIds : jobs'[j].state # "new" => jobs'[j].backup < nextBackup'
      BY <1>t, <1>n, <2>1 DEF FreshInv
    <3>3. \A d \in Creators : creators'[d].pc = "inserted" => creators'[d].id < nextBackup'
      <4> TAKE d \in Creators
      <4>1. CASE d = c
        BY <1>n, <2>1, <4>1
      <4>2. CASE d # c
        BY <1>t, <1>n, <2>1, <4>2 DEF FreshInv
      <4> QED BY <4>1, <4>2
    <3>4. \A j \in JobIds : j >= nextJob' => jobs'[j].state = "new"
      BY <1>t, <2>1 DEF FreshInv
    <3> QED BY <3>1, <3>2, <3>3, <3>4 DEF FreshInv
  <2>3. OwnInv'
    BY <1>t, <1>n, <2>1 DEF FreshInv, OwnInv
  <2>4. DoneInv'
    BY <1>t, <1>n, <2>1 DEF FreshInv, DoneInv, WBackup
  <2> QED BY <1>t, <2>1, <2>2, <2>3, <2>4 DEF JobInv, WorkerInv, WBackup, OneActiveJobPerRecord
<1>5. CASE InsertJob(c)
  <2>0. /\ creators[c].pc = "inserted" /\ creators'[c].pc = "idle"
        /\ \A d \in Creators : d # c => creators'[d] = creators[d]
        /\ UNCHANGED <<backups, nextBackup, worker>>
    BY <1>5, <1>t, InsertJobRow
  <2>1. CASE UNCHANGED <<jobs, nextJob>>
    BY <1>1, <2>0, <2>1
  <2>2. CASE /\ nextJob \in JobIds /\ nextJob' = nextJob + 1
             /\ jobs'[nextJob].state = "queued" /\ jobs'[nextJob].backup = creators[c].id
             /\ \A i \in JobIds : i # nextJob => jobs'[i] = jobs[i]
    <3>1. /\ jobs[nextJob].state = "new"
          /\ creators[c].id < nextBackup
          /\ \A d \in Creators : d # c /\ creators[d].pc = "inserted" => creators[d].id # creators[c].id
          /\ \A j \in JobIds : jobs[j].state # "new" => jobs[j].backup # creators[c].id
      BY <1>t, <1>n, <2>0, <2>2 DEF FreshInv, OwnInv
    <3>2. FreshInv'
      BY <1>t, <1>n, <2>0, <2>2, <3>1 DEF FreshInv
    <3>3. OwnInv'
      BY <1>t, <2>0, <2>2, <3>1 DEF OwnInv
    <3>4. WorkerInv'
      <4>1. worker.pc \in {"claimed", "working", "failover", "failed", "succeeded", "retain"} =>
              worker.job \in JobIds /\ worker.job # nextJob /\ jobs[worker.job].state # "new"
        BY <1>t, <3>1 DEF BackupTypeOK, WorkerInv
      <4> QED BY <1>t, <2>0, <2>2, <3>1, <4>1 DEF WorkerInv, WBackup, JobActive
    <3>5. OneActiveJobPerRecord'
      BY <1>t, <2>2, <3>1 DEF OneActiveJobPerRecord, JobActive
    <3>6. DoneInv'
      <4>1. worker.pc \in {"failover", "failed"} =>
              worker.job \in JobIds /\ worker.job # nextJob
        BY <1>t, <3>1 DEF BackupTypeOK, WorkerInv
      <4> QED BY <1>t, <2>0, <2>2, <4>1 DEF DoneInv, WBackup, JobActive
    <3> QED BY <3>2, <3>3, <3>4, <3>5, <3>6 DEF JobInv
  <2> QED BY <1>5, <1>t, <2>1, <2>2, InsertJobRow
<1> QED
  BY <1>2, <1>3, <1>4, <1>5 DEF CreatorStep

\* The step writes state s to job k.
Writes(k, s) == jobs' = [jobs EXCEPT ![k].state = s]

(* A step that moves one job to another state, and neither creates nor revives
   one, keeps what does not mention the worker. *)
LEMMA StateKeeps ==
    ASSUME RecordInv, NEW k \in JobIds, NEW s \in JobState \ {"new"}, Writes(k, s),
           s \in JobActive => jobs[k].state \in JobActive, jobs[k].state # "new",
           UNCHANGED <<nextBackup, nextJob, backups>>, creators' = creators \/ \A d \in Creators : creators'[d].pc # "inserted"
    PROVE  /\ FreshInv' /\ OwnInv' /\ OneActiveJobPerRecord'
           /\ \A i \in JobIds : /\ jobs'[i].backup = jobs[i].backup
                                /\ jobs'[i].state = IF i = k THEN s ELSE jobs[i].state
                                /\ jobs'[i].state \in JobActive => jobs[i].state \in JobActive
           /\ (worker'.pc \in {"failover", "failed"} => worker.pc = worker'.pc /\ worker' = worker)
                => DoneInv'
<1>t. BackupTypeOK /\ FreshInv /\ OwnInv /\ WorkerInv /\ OneActiveJobPerRecord /\ DoneInv
  BY DEF RecordInv
<1>1. \A i \in JobIds : /\ jobs'[i].backup = jobs[i].backup
                        /\ jobs'[i].state = IF i = k THEN s ELSE jobs[i].state
  <2> TAKE i \in JobIds
  <2>1. jobs[i] \in JobRow
    BY <1>t DEF BackupTypeOK
  <2>2. jobs'[i] = IF i = k THEN [jobs[i] EXCEPT !.state = s] ELSE jobs[i]
    BY <1>t DEF BackupTypeOK, Writes
  <2> QED BY <2>1, <2>2 DEF JobRow
<1>2. \A i \in JobIds : /\ jobs'[i].state \in JobActive => jobs[i].state \in JobActive
                        /\ jobs'[i].state # "new" => jobs[i].state # "new"
                        /\ jobs[i].state = "new" => jobs'[i].state = "new"
  BY <1>1
<1>3. FreshInv'
  BY <1>t, <1>1, <1>2 DEF FreshInv
<1>4. OwnInv'
  BY <1>t, <1>1, <1>2 DEF OwnInv
<1>5. OneActiveJobPerRecord'
  BY <1>t, <1>1, <1>2 DEF OneActiveJobPerRecord
<1>6. ASSUME worker'.pc \in {"failover", "failed"} => worker.pc = worker'.pc /\ worker' = worker
      PROVE  DoneInv'
  <2>1. worker.pc # "idle" => worker.job \in JobIds
    BY <1>t DEF BackupTypeOK
  <2> QED BY <1>t, <1>1, <1>2, <1>6, <2>1 DEF DoneInv, WBackup
<1> QED
  BY <1>1, <1>2, <1>3, <1>4, <1>5, <1>6

(* A step that only writes to records, and completes none, keeps the invariant
   if the worker goes on with its job or rests. *)
LEMMA RecordsKeep ==
    ASSUME RecordInv, UNCHANGED <<nextBackup, jobs, nextJob, creators>>,
           \A i \in BackupIds : /\ backups[i].status = "none" => backups'[i].status = "none"
                                /\ backups'[i].status = "completed" => backups[i].status = "completed",
           \/ worker' = worker \/ worker'.pc = "idle"
           \/ worker.pc = "claimed" /\ worker'.pc = "working" /\ worker'.job = worker.job
    PROVE  JobInv'
<1>t. BackupTypeOK /\ FreshInv /\ OwnInv /\ WorkerInv /\ OneActiveJobPerRecord /\ DoneInv
  BY DEF RecordInv
<1>1. FreshInv' /\ OwnInv' /\ OneActiveJobPerRecord'
  BY <1>t DEF FreshInv, OwnInv, OneActiveJobPerRecord
<1>2. WorkerInv'
  BY <1>t DEF WorkerInv, WBackup
<1>3. DoneInv'
  BY <1>t DEF DoneInv, WBackup
<1> QED
  BY <1>1, <1>2, <1>3 DEF JobInv

(* Claiming, canceling and giving up a job keep the invariant. *)
LEMMA JobPartiesKeep ==
    ASSUME RecordInv, NEW j \in JobIds, Claim(j) \/ EndJob(j)
    PROVE  JobInv'
<1>t. BackupTypeOK /\ FreshInv /\ OwnInv /\ WorkerInv /\ OneActiveJobPerRecord /\ DoneInv
  BY DEF RecordInv
<1>1. CASE Claim(j)
  <2>1. /\ jobs[j].state = "queued" /\ Writes(j, "running")
        /\ worker'.pc = "claimed" /\ worker'.job = j
        /\ UNCHANGED <<backups, nextBackup, nextJob, creators>>
    BY <1>1 DEF Claim, Writes
  <2>2. /\ FreshInv' /\ OwnInv' /\ OneActiveJobPerRecord' /\ DoneInv'
        /\ jobs'[j].state = "running"
    BY <2>1, StateKeeps DEF JobActive, JobState
  <2> QED BY <2>1, <2>2 DEF JobInv, WorkerInv
<1>2. CASE EndJob(j)
  <2>1. /\ jobs[j].state \in JobActive /\ Writes(j, "ended")
        /\ UNCHANGED <<backups, nextBackup, nextJob, creators, worker>>
        /\ worker.pc = "idle" \/ worker.job # j \/ jobs[j].state = "queued"
    BY <1>2 DEF EndJob, JobActive, Writes
  <2>2. /\ FreshInv' /\ OwnInv' /\ OneActiveJobPerRecord' /\ DoneInv'
        /\ \A i \in JobIds : /\ jobs'[i].backup = jobs[i].backup
                             /\ jobs'[i].state = IF i = j THEN "ended" ELSE jobs[i].state
                             /\ jobs'[i].state \in JobActive => jobs[i].state \in JobActive
    BY <2>1, StateKeeps DEF JobActive, JobState
  <2>3. worker.pc # "idle" => worker.job \in JobIds
    BY <1>t DEF BackupTypeOK
  <2>4. WorkerInv'
    BY <1>t, <2>1, <2>2, <2>3 DEF WorkerInv, WBackup
  <2> QED BY <2>2, <2>4 DEF JobInv
<1> QED
  BY <1>1, <1>2

(* The worker's steps keep the invariant. *)
LEMMA WorkerKeeps ==
    ASSUME RecordInv, WorkerStep
    PROVE  JobInv'
<1>t. BackupTypeOK /\ FreshInv /\ OwnInv /\ WorkerInv /\ OneActiveJobPerRecord /\ DoneInv
  BY DEF RecordInv
<1>w. worker.job \in JobIds /\ worker.pc # "idle" /\ worker \in [pc : WorkerPc, job : 0..MaxJobs]
  BY <1>t DEF WorkerStep, MarkRunning, Requeue, GiveUp, Failover, MarkFailed, Succeed,
     MarkCompleted, DeleteOldest, BackupTypeOK
<1>1. CASE MarkRunning
  <2>1. /\ worker.pc = "claimed" /\ worker'.pc = "working" /\ worker'.job = worker.job
        /\ UNCHANGED <<nextBackup, jobs, nextJob, creators>>
    BY <1>1, <1>w DEF MarkRunning
  <2>2. \A i \in BackupIds : /\ backups[i].status = "none" => backups'[i].status = "none"
                             /\ backups'[i].status = "completed" => backups[i].status = "completed"
    BY <1>1, <1>t, MarkedRow DEF MarkRunning
  <2> QED BY <2>1, <2>2, RecordsKeep
<1>2. CASE MarkFailed
  <2>1. worker'.pc = "idle" /\ UNCHANGED <<nextBackup, jobs, nextJob, creators>>
    BY <1>2 DEF MarkFailed, Idle
  <2>2. \A i \in BackupIds : /\ backups[i].status = "none" => backups'[i].status = "none"
                             /\ backups'[i].status = "completed" => backups[i].status = "completed"
    BY <1>2, <1>t, MarkedRow DEF MarkFailed
  <2> QED BY <2>1, <2>2, RecordsKeep
<1>3. CASE DeleteOldest
  <2>1. \A i \in BackupIds : /\ backups[i].status = "none" => backups'[i].status = "none"
                             /\ backups'[i].status = "completed" => backups[i].status = "completed"
    BY <1>3, <1>t, DeleteOldestRow
  <2>2. worker'.pc = "idle" /\ UNCHANGED <<nextBackup, jobs, nextJob, creators>>
    BY <1>3, <1>t, DeleteOldestRow
  <2> QED BY <2>1, <2>2, RecordsKeep
<1>4. CASE Requeue \/ GiveUp \/ Succeed
  <2> PICK k \in JobIds : k = worker.job BY <1>w
  <2>1. PICK s \in {"queued", "ended"} :
          Writes(k, s) /\ (s = "queued" => worker'.pc = "idle")
    BY <1>4 DEF Requeue, GiveUp, Succeed, SetJob, Idle, Writes
  <2>2. /\ worker.pc = "working" /\ UNCHANGED <<backups, nextBackup, nextJob, creators>>
        /\ \/ worker'.pc = "idle"
           \/ worker'.pc \in {"failed", "failover", "succeeded"} /\ worker'.job = worker.job
    <3>2. \/ worker' = Idle
          \/ \E p \in {"failed", "failover", "succeeded"} : worker' = [worker EXCEPT !.pc = p]
      BY <1>4 DEF Requeue, GiveUp, Succeed
    <3>3. worker.pc = "working" /\ UNCHANGED <<backups, nextBackup, nextJob, creators>>
      BY <1>4 DEF Requeue, GiveUp, Succeed
    <3>4. CASE worker' = Idle
      BY <3>3, <3>4 DEF Idle
    <3>5. CASE \E p \in {"failed", "failover", "succeeded"} : worker' = [worker EXCEPT !.pc = p]
      <4> PICK p \in {"failed", "failover", "succeeded"} : worker' = [worker EXCEPT !.pc = p]
        BY <3>5
      <4>1. worker'.pc = p /\ worker'.job = worker.job
        BY <1>w
      <4> QED BY <3>3, <4>1
    <3> QED BY <3>2, <3>4, <3>5
  <2>3. jobs[k].state = "running" /\ \A i \in JobIds : i # k /\ jobs[i].state \in JobActive
                                                          => jobs[i].backup # jobs[k].backup
    BY <1>t, <2>2 DEF WorkerInv, OneActiveJobPerRecord, JobActive
  <2>4. /\ FreshInv' /\ OwnInv' /\ OneActiveJobPerRecord'
        /\ \A i \in JobIds : /\ jobs'[i].backup = jobs[i].backup
                             /\ jobs'[i].state = IF i = k THEN s ELSE jobs[i].state
                             /\ jobs'[i].state \in JobActive => jobs[i].state \in JobActive
    BY <2>1, <2>2, <2>3, StateKeeps DEF JobActive, JobState
  <2>5. WorkerInv'
    BY <2>1, <2>2, <2>3, <2>4 DEF WorkerInv, WBackup, JobActive
  <2>6. DoneInv'
    <3>1. \A b \in BackupIds : backups[b].status = "completed" => jobs[k].backup # b
      BY <1>t, <2>3 DEF DoneInv, JobActive
    <3> QED BY <1>t, <2>1, <2>2, <2>4, <3>1 DEF DoneInv, WBackup
  <2> QED BY <2>4, <2>5, <2>6 DEF JobInv
<1>5. CASE Failover
  <2>0. /\ worker.pc = "failover" /\ worker'.pc = "failed" /\ worker'.job = worker.job
        /\ UNCHANGED <<backups, nextBackup, creators>>
    BY <1>5, <1>t, FailoverRow
  <2>j. /\ jobs[worker.job].state = "ended"
        /\ \A j \in JobIds : jobs[j].state \in JobActive => jobs[j].backup # WBackup
        /\ \A b \in BackupIds : backups[b].status = "completed" => WBackup # b
        /\ \A c \in Creators : creators[c].pc = "inserted" => creators[c].id # WBackup
        /\ WBackup < nextBackup
    BY <1>t, <1>w, <2>0 DEF WorkerInv, DoneInv, OwnInv, FreshInv, WBackup
  <2>1. CASE UNCHANGED <<jobs, nextJob>>
    BY <1>t, <2>0, <2>j, <2>1 DEF JobInv, FreshInv, OwnInv, WorkerInv, OneActiveJobPerRecord, DoneInv, WBackup
  <2>2. CASE /\ nextJob \in JobIds /\ nextJob' = nextJob + 1
             /\ jobs'[nextJob].state = "queued" /\ jobs'[nextJob].backup = WBackup
             /\ \A i \in JobIds : i # nextJob => jobs'[i] = jobs[i]
    <3>n. nextJob \in Int /\ JobIds \subseteq Int
      BY <1>t, BackupAssumption DEF BackupTypeOK, JobIds
    <3>1. jobs[nextJob].state = "new" /\ worker.job # nextJob
      BY <1>t, <2>2, <2>j, <3>n DEF FreshInv
    <3>2. FreshInv'
      BY <1>t, <2>0, <2>2, <2>j, <3>1, <3>n DEF FreshInv
    <3>3. OwnInv'
      BY <1>t, <2>0, <2>2, <2>j, <3>1 DEF OwnInv
    <3>4. WorkerInv'
      BY <1>w, <2>0, <2>2, <2>j, <3>1 DEF WorkerInv, WBackup
    <3>5. OneActiveJobPerRecord'
      BY <1>t, <2>2, <2>j, <3>1 DEF OneActiveJobPerRecord
    <3>6. DoneInv'
      BY <1>t, <1>w, <2>0, <2>2, <2>j, <3>1 DEF DoneInv, WBackup
    <3> QED BY <3>2, <3>3, <3>4, <3>5, <3>6 DEF JobInv
  <2> QED BY <1>5, <1>t, <2>1, <2>2, FailoverRow
<1>6. CASE MarkCompleted
  <2>1. /\ worker.pc = "succeeded" /\ worker'.pc = "retain" /\ worker'.job = worker.job
        /\ UNCHANGED <<nextBackup, jobs, nextJob, creators>>
    BY <1>6, <1>w DEF MarkCompleted
  <2>2. \A i \in BackupIds : /\ backups[i].status = "none" => backups'[i].status = "none"
                             /\ backups'[i].status = "completed"
                                  => backups[i].status = "completed" \/ i = WBackup
    BY <1>6, <1>t, MarkedRow DEF MarkCompleted
  <2>3. /\ \A j \in JobIds : jobs[j].state \in JobActive => jobs[j].backup # WBackup
        /\ \A c \in Creators : creators[c].pc = "inserted" => creators[c].id # WBackup
    BY <1>t, <1>w, <2>1 DEF WorkerInv, OwnInv, WBackup
  <2>4. FreshInv' /\ OwnInv' /\ OneActiveJobPerRecord' /\ WorkerInv'
    BY <1>t, <2>1, <2>2 DEF FreshInv, OwnInv, OneActiveJobPerRecord, WorkerInv
  <2>5. DoneInv'
    BY <1>t, <2>1, <2>2, <2>3 DEF DoneInv
  <2> QED BY <2>4, <2>5 DEF JobInv
<1> QED
  BY <1>1, <1>2, <1>3, <1>4, <1>5, <1>6 DEF WorkerStep

(* A panic and a restart keep the invariant. *)
LEMMA AbandonKeeps ==
    ASSUME RecordInv, Abandon
    PROVE  JobInv'
<1>t. BackupTypeOK /\ FreshInv /\ OwnInv /\ WorkerInv /\ OneActiveJobPerRecord /\ DoneInv
  BY DEF RecordInv
<1>1. worker'.pc = "idle" /\ UNCHANGED <<backups, nextBackup, nextJob>>
  BY DEF Abandon, Idle
<1>2. CASE worker.pc # "idle" /\ SetJob("ended") /\ UNCHANGED creators
  <2> PICK k \in JobIds : k = worker.job
    BY <1>2, <1>t DEF BackupTypeOK
  <2>1. jobs[k].state # "new"
    BY <1>2, <1>t DEF WorkerInv, BackupTypeOK, WorkerPc
  <2>2. Writes(k, "ended")
    BY <1>2 DEF SetJob, Writes
  <2>3. FreshInv' /\ OwnInv' /\ OneActiveJobPerRecord' /\ DoneInv'
    BY <1>1, <1>2, <2>1, <2>2, StateKeeps DEF JobActive, JobState
  <2> QED BY <1>1, <2>3 DEF JobInv, WorkerInv
<1>3. CASE creators' = [c \in Creators |-> Resting] /\ UNCHANGED jobs
  <2>1. \A c \in Creators : creators'[c].pc # "inserted"
    BY <1>3 DEF Resting
  <2> QED BY <1>1, <1>3, <1>t, <2>1 DEF JobInv, FreshInv, OwnInv, OneActiveJobPerRecord, WorkerInv, DoneInv
<1> QED
  BY <1>2, <1>3 DEF Abandon

(* The invariant is inductive: a job is created for a record of its own, and no
   two jobs of one record are active together. *)
THEOREM RecordInvariant == ~ConnectionReused => (Spec => []RecordInv)
<1> SUFFICES ASSUME ~ConnectionReused PROVE Spec => []RecordInv
  OBVIOUS
<1>1. Init => RecordInv
  <2> SUFFICES ASSUME Init PROVE RecordInv
    OBVIOUS
  <2>1. /\ \A b \in BackupIds : backups[b].status = "none"
        /\ \A j \in JobIds : jobs[j].state = "new"
        /\ \A c \in Creators : creators[c].pc = "idle"
        /\ worker.pc = "idle"
    BY DEF Init, Resting, Idle
  <2> QED BY <2>1, BackupTypeInit
          DEF RecordInv, FreshInv, OwnInv, WorkerInv, OneActiveJobPerRecord, DoneInv, JobActive
<1>2. RecordInv /\ [Next]_vars => RecordInv'
  <2> SUFFICES ASSUME RecordInv, [Next]_vars PROVE JobInv'
    BY BackupTypeStep DEF RecordInv, JobInv
  <2>1. CASE \E c \in Creators : CreatorStep(c)
    BY <2>1, CreatorKeeps
  <2>2. CASE \E j \in JobIds : Claim(j) \/ EndJob(j)
    BY <2>2, JobPartiesKeep
  <2>3. CASE WorkerStep
    BY <2>3, WorkerKeeps
  <2>4. CASE Abandon
    BY <2>4, AbandonKeeps
  <2>5. CASE SweepStep
    <3>1. \A i \in BackupIds : /\ backups[i].status = "none" => backups'[i].status = "none"
                               /\ backups'[i].status = "completed" => backups[i].status = "completed"
      BY <2>5, SweepRow DEF RecordInv
    <3>2. UNCHANGED <<nextBackup, jobs, nextJob, creators, worker>>
      BY <2>5, SweepRow DEF RecordInv
    <3> QED BY <3>1, <3>2, RecordsKeep
  <2>6. CASE UNCHANGED vars
    BY <2>6, RecordsKeep DEF vars
  <2> QED BY <2>1, <2>2, <2>3, <2>4, <2>5, <2>6, StepCases
<1> QED
  BY <1>1, <1>2, PTL DEF Spec

(* At most one job is queued or running for a backup record. *)
THEOREM OneActiveJobHolds == ~ConnectionReused => (Spec => []OneActiveJobPerRecord)
<1>1. RecordInv => OneActiveJobPerRecord
  BY DEF RecordInv
<1> QED
  BY <1>1, RecordInvariant, PTL

(* A completed backup is never marked running or failed again. *)
THEOREM CompletedStays == ~ConnectionReused => (Spec => CompletedIsFinal)
<1>1. ASSUME RecordInv, [Next]_vars, NEW b \in BackupIds, backups[b].status = "completed"
      PROVE  backups'[b].status \in {"completed", "none"}
  <2>t. BackupTypeOK /\ FreshInv /\ WorkerInv /\ DoneInv
    BY <1>1 DEF RecordInv
  <2>w. worker.pc \in {"claimed", "failed"} => WBackup # b
    BY <1>1, <2>t DEF WorkerInv, DoneInv, WBackup, JobActive, BackupTypeOK
  <2>1. CASE \E c \in Creators : CreatorStep(c)
    <3> PICK c \in Creators : CreatorStep(c) BY <2>1
    <3>1. CASE InsertRecord(c)
      <4>1. nextBackup \in Int /\ BackupIds \subseteq Int
        BY <2>t, BackupAssumption DEF BackupTypeOK, BackupIds
      <4>2. b # nextBackup
        BY <1>1, <2>t, <4>1 DEF FreshInv
      <4> QED BY <1>1, <2>t, <3>1, <4>2, InsertRecordRow
    <3> QED BY <1>1, <3>1 DEF CreatorStep, Begin, InsertNothing, InsertJob
  <2>2. CASE \E j \in JobIds : Claim(j) \/ EndJob(j)
    BY <1>1, <2>2 DEF Claim, EndJob
  <2>3. CASE WorkerStep
    <3>1. CASE MarkRunning
      BY <1>1, <2>t, <2>w, <3>1, MarkedRow DEF MarkRunning
    <3>2. CASE MarkFailed
      BY <1>1, <2>t, <2>w, <3>2, MarkedRow DEF MarkFailed
    <3>3. CASE MarkCompleted
      BY <1>1, <2>t, <3>3, MarkedRow DEF MarkCompleted
    <3>4. CASE DeleteOldest
      BY <1>1, <2>t, <3>4, DeleteOldestRow
    <3>5. CASE Requeue \/ GiveUp \/ Succeed \/ Failover
      BY <1>1, <3>5 DEF Requeue, GiveUp, Succeed, Failover
    <3> QED BY <2>3, <3>1, <3>2, <3>3, <3>4, <3>5 DEF WorkerStep
  <2>4. CASE Abandon \/ UNCHANGED vars
    BY <1>1, <2>4 DEF Abandon, vars
  <2>5. CASE SweepStep
    BY <1>1, <2>t, <2>5, SweepRow
  <2> QED BY <1>1, <2>1, <2>2, <2>3, <2>4, <2>5, StepCases
<1>2. RecordInv /\ [Next]_vars =>
        [\A b \in BackupIds : backups[b].status = "completed"
            => backups'[b].status \in {"completed", "none"}]_vars
  BY <1>1
<1> QED
  BY <1>2, RecordInvariant, PTL DEF Spec, CompletedIsFinal

=============================================================================
