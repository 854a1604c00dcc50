--------------------------- MODULE BackupRecords ----------------------------
(***************************************************************************)
(* The life of a backup record: the HTTP handlers and the scheduler that   *)
(* insert a record and then a job, the worker's writes to the record while *)
(* it handles the job, and the scheduler's clean-up of running and pending *)
(* records (internal/store/backups.go, internal/apihttp/backups.go,        *)
(* internal/jobs/worker.go and scheduler.go).  A job is seen through       *)
(* JobContract: queued, running (with or without a worker) and ended.      *)
(***************************************************************************)
EXTENDS Integers, FiniteSets

CONSTANTS
    Sites, Types,       \* site ids; backup_type values
    Creators,           \* requests and scheduler passes that may overlap
    MaxBackups,         \* bound: records ever inserted (AUTOINCREMENT)
    MaxJobs,            \* bound: backup jobs ever inserted
    ConnectionReused,   \* the pooled connection has inserted rows before
    KeepLatest,         \* DeleteOldest's keep (7 in the code)
    StaleAfter,         \* ticks of runStuckCleanup's 30 min
    OrphanAfter,        \* ticks of CleanupOrphanedPending's hour
    RetentionOn,        \* setting retention_days is positive
    MaxAge              \* bound: ages saturate here

BackupIds == 1..MaxBackups
JobIds == 1..MaxJobs

ASSUME BackupAssumption ==
    /\ MaxBackups \in Nat /\ MaxJobs \in Nat
    /\ KeepLatest \in Nat \ {0}
    /\ StaleAfter \in Nat /\ OrphanAfter \in Nat /\ MaxAge \in Nat
    /\ StaleAfter < MaxAge /\ OrphanAfter < MaxAge
    /\ Types \subseteq {"files", "database", "both"}
    /\ RetentionOn \in BOOLEAN /\ ConnectionReused \in BOOLEAN

VARIABLES
    backups,     \* the backups table: in progress, completed, failed, or "none": no row
    nextBackup,
    jobs,        \* the backup jobs; backup is the payload's backup_id
    nextJob,
    creators,    \* where each creating request stands
    worker       \* [pc, job]

vars == <<backups, nextBackup, jobs, nextJob, creators, worker>>

InProgress == {"pending", "running"}
JobActive == {"queued", "running"}

AnySite == CHOOSE s \in Sites : TRUE
AnyType == CHOOSE t \in Types : TRUE
Resting == [pc |-> "idle", site |-> AnySite, type |-> AnyType, id |-> 0]
Idle == [pc |-> "idle", job |-> 0]

Init ==
    /\ backups = [b \in BackupIds |-> [status |-> "none", site |-> AnySite,
                                       type |-> AnyType, age |-> 0]]
    /\ nextBackup = 1
    /\ jobs = [j \in JobIds |-> [state |-> "new", backup |-> 0, site |-> AnySite,
                                 type |-> AnyType, s3 |-> FALSE]]
    /\ nextJob = 1
    /\ creators = [c \in Creators |-> Resting]
    /\ worker = Idle

-----------------------------------------------------------------------------
(* Creating a backup: check, insert the record, insert the job. *)

HasPendingBackup(s) ==
    \E b \in BackupIds : backups[b].site = s /\ backups[b].status \in InProgress

HasActiveJob(s) ==
    \E j \in JobIds : jobs[j].site = s /\ jobs[j].state \in JobActive

\* A handler or a scheduler pass that decided to back up site s.  One that does
\* several sites or databases is several of these.
Begin(c, s, t) ==
    /\ creators[c].pc = "idle"
    /\ t \in Types
    /\ creators' = [creators EXCEPT ![c] = [pc |-> "checked", site |-> s,
                                            type |-> t, id |-> 0]]
    /\ UNCHANGED <<backups, nextBackup, jobs, nextJob, worker>>

\* POST /sites/:id/backups looks at the records of the site.
CreateBackup(c) ==
    \E s \in Sites : ~HasPendingBackup(s) /\ Begin(c, s, "files")

\* Looks at records that carry the name of the same database, so those of the
\* site's other databases and files do not stop it.
CreateDatabaseBackup(c) ==
    \E s \in Sites : Begin(c, s, "database")

\* POST /backups/bulk looks at nothing.
BulkCreate(c) ==
    \E s \in Sites, t \in {"files", "database"} : Begin(c, s, t)

\* A due schedule looks at nothing.
ProcessSchedule(c) ==
    \E s \in Sites, t \in Types : Begin(c, s, t)

\* A due configuration looks at the jobs of the site.
ProcessBackupConfig(c) ==
    \E s \in Sites, t \in Types : ~HasActiveJob(s) /\ Begin(c, s, t)

\* Mutant: the INSERT without its NOT EXISTS.
NeverDuplicate(s, t) == FALSE

Duplicate(s, t) ==
    \E b \in BackupIds : /\ backups[b].site = s /\ backups[b].type = t
                         /\ backups[b].status \in InProgress

\* BackupStore.Create, no active record of this site and type.
InsertRecord(c) ==
    /\ creators[c].pc = "checked"
    /\ nextBackup <= MaxBackups
    /\ ~Duplicate(creators[c].site, creators[c].type)
    /\ backups' = [backups EXCEPT ![nextBackup] =
                     [status |-> "pending", site |-> creators[c].site,
                      type |-> creators[c].type, age |-> 0]]
    /\ nextBackup' = nextBackup + 1
    /\ creators' = [creators EXCEPT ![c].pc = "inserted", ![c].id = nextBackup]
    /\ UNCHANGED <<jobs, nextJob, worker>>

\* What LastInsertId answers after an INSERT of no row: the rowid of the last
\* row this connection did insert, 0 if there is none.
LastInsertIds == {0} \cup (IF ConnectionReused THEN 1..(nextBackup - 1) ELSE {})

\* BackupStore.Create inserts nothing; ErrDuplicateBackup only for id 0.
InsertNothing(c) ==
    /\ creators[c].pc = "checked"
    /\ Duplicate(creators[c].site, creators[c].type)
    /\ \E id \in LastInsertIds :
          creators' = [creators EXCEPT ![c] =
                         IF id = 0 THEN Resting
                         ELSE [@ EXCEPT !.pc = "inserted", !.id = id]]
    /\ UNCHANGED <<backups, nextBackup, jobs, nextJob, worker>>

\* s3: a backup.create with an s3_config, which a failure turns into a local one.
\* Jobs.Create with the record's id in the payload, or its failure, which
\* leaves the record pending.
InsertJob(c) ==
    /\ creators[c].pc = "inserted"
    /\ \/ /\ nextJob <= MaxJobs
          /\ \E s3 \in BOOLEAN :
                jobs' = [jobs EXCEPT ![nextJob] =
                           [state |-> "queued", backup |-> creators[c].id,
                            site |-> creators[c].site, type |-> creators[c].type,
                            s3 |-> s3]]
          /\ nextJob' = nextJob + 1
       \/ UNCHANGED <<jobs, nextJob>>
    /\ creators' = [creators EXCEPT ![c] = Resting]
    /\ UNCHANGED <<backups, nextBackup, worker>>

-----------------------------------------------------------------------------
(* The worker. *)

WBackup == jobs[worker.job].backup
SetJob(s) == jobs' = [jobs EXCEPT ![worker.job].state = s]

\* UPDATE backups SET status = s WHERE id = b; no effect without the row.
Marked(b, s) ==
    IF b \in BackupIds /\ backups[b].status # "none"
    THEN [backups EXCEPT ![b].status = s] ELSE backups

Claim(j) ==
    /\ worker.pc = "idle"
    /\ jobs[j].state = "queued"
    /\ jobs' = [jobs EXCEPT ![j].state = "running"]
    /\ worker' = [pc |-> "claimed", job |-> j]
    /\ UNCHANGED <<backups, nextBackup, nextJob, creators>>

\* UpdateStatus(backup_id, "running"), whatever the record's status is.
MarkRunning ==
    /\ worker.pc = "claimed"
    /\ backups' = Marked(WBackup, "running")
    /\ worker' = [worker EXCEPT !.pc = "working"]
    /\ UNCHANGED <<nextBackup, jobs, nextJob, creators>>

\* Deferred by the concurrency limit, or failed with attempts left: the record
\* stays running while the job waits.
Requeue ==
    /\ worker.pc = "working"
    /\ SetJob("queued")
    /\ worker' = Idle
    /\ UNCHANGED <<backups, nextBackup, nextJob, creators>>

\* Mutant: a job out of attempts is scheduled for one more.
GiveUpRequeues ==
    /\ worker.pc = "working"
    /\ SetJob("queued")
    /\ worker' = [worker EXCEPT !.pc = "failover"]
    /\ UNCHANGED <<backups, nextBackup, nextJob, creators>>

\* Out of attempts.  No agent was found for the job, or the agent's call
\* failed: only the second looks for a failover.
GiveUp ==
    /\ worker.pc = "working"
    /\ SetJob("ended")
    /\ \E pc \in {"failed", "failover"} : worker' = [worker EXCEPT !.pc = pc]
    /\ UNCHANGED <<backups, nextBackup, nextJob, creators>>

\* A backup.create with an s3_config gets a local job for the same record; its
\* INSERT may fail.
Failover ==
    /\ worker.pc = "failover"
    /\ \/ /\ jobs[worker.job].s3
          /\ nextJob <= MaxJobs
          /\ jobs' = [jobs EXCEPT ![nextJob] = [jobs[worker.job] EXCEPT
                                                 !.state = "queued", !.s3 = FALSE]]
          /\ nextJob' = nextJob + 1
       \/ UNCHANGED <<jobs, nextJob>>
    /\ worker' = [worker EXCEPT !.pc = "failed"]
    /\ UNCHANGED <<backups, nextBackup, creators>>

MarkFailed ==
    /\ worker.pc = "failed"
    /\ backups' = Marked(WBackup, "failed")
    /\ worker' = Idle
    /\ UNCHANGED <<nextBackup, jobs, nextJob, creators>>

Succeed ==
    /\ worker.pc = "working"
    /\ SetJob("ended")
    /\ worker' = [worker EXCEPT !.pc = "succeeded"]
    /\ UNCHANGED <<backups, nextBackup, nextJob, creators>>

MarkCompleted ==
    /\ worker.pc = "succeeded"
    /\ backups' = Marked(WBackup, "completed")
    /\ worker' = [worker EXCEPT !.pc = "retain"]
    /\ UNCHANGED <<nextBackup, jobs, nextJob, creators>>

\* Rank by id among the records of the same site and type, whatever status.
Newer(b) ==
    {i \in BackupIds : /\ i > b /\ backups[i].status # "none"
                       /\ backups[i].site = backups[b].site
                       /\ backups[i].type = backups[b].type}

\* Skipped when the agent reports a failed upload.
DeleteOldest ==
    /\ worker.pc = "retain"
    /\ \/ backups' = [b \in BackupIds |->
              IF /\ backups[b].site = jobs[worker.job].site
                 /\ Cardinality(Newer(b)) >= KeepLatest
              THEN [backups[b] EXCEPT !.status = "none"] ELSE backups[b]]
       \/ UNCHANGED backups
    /\ worker' = Idle
    /\ UNCHANGED <<nextBackup, jobs, nextJob, creators>>

\* A panic fails the job, not the record; a restart drops everything in memory.
Abandon ==
    /\ \/ /\ worker.pc # "idle"
          /\ SetJob("ended")
          /\ UNCHANGED creators
       \/ /\ creators' = [c \in Creators |-> Resting]
          /\ UNCHANGED jobs
    /\ worker' = Idle
    /\ UNCHANGED <<backups, nextBackup, nextJob>>

-----------------------------------------------------------------------------
(* Other parties. *)

\* A queued job is canceled, or one without a worker is failed by the stuck-job
\* clean-up; neither looks at the record.
EndJob(j) ==
    /\ \/ jobs[j].state = "queued"
       \/ jobs[j].state = "running" /\ (worker.pc = "idle" \/ worker.job # j)
    /\ jobs' = [jobs EXCEPT ![j].state = "ended"]
    /\ UNCHANGED <<backups, nextBackup, nextJob, creators, worker>>

\* DELETE /backups/:id, in any status.
DeleteRecord(b) ==
    /\ backups[b].status # "none"
    /\ backups' = [backups EXCEPT ![b].status = "none"]
    /\ UNCHANGED <<nextBackup, jobs, nextJob, creators, worker>>

\* Mutants: every record is failed by age; none ever is.
StuckAnyStatus(b) == backups[b].status # "none" /\ backups[b].age > StaleAfter
StuckNever(b) == backups[b].status = "running" /\ backups[b].age > MaxAge

\* Measured from created_at.
Stuck(b) == backups[b].status = "running" /\ backups[b].age > StaleAfter

CleanupStuckRunning ==
    /\ \E b \in BackupIds : Stuck(b)
    /\ backups' = [b \in BackupIds |->
                     IF Stuck(b) THEN [backups[b] EXCEPT !.status = "failed"]
                                 ELSE backups[b]]
    /\ UNCHANGED <<nextBackup, jobs, nextJob, creators, worker>>

Orphaned(b) ==
    backups[b].status = "pending" /\ backups[b].age > OrphanAfter

\* Reached only when a retention is configured.
CleanupOrphanedPending ==
    /\ RetentionOn
    /\ \E b \in BackupIds : Orphaned(b)
    /\ backups' = [b \in BackupIds |->
                     IF Orphaned(b) THEN [backups[b] EXCEPT !.status = "none"]
                                    ELSE backups[b]]
    /\ UNCHANGED <<nextBackup, jobs, nextJob, creators, worker>>

Older(n) == IF n < MaxAge THEN n + 1 ELSE n

Tick ==
    /\ backups' = [b \in BackupIds |->
                     IF backups[b].status # "none"
                     THEN [backups[b] EXCEPT !.age = Older(@)] ELSE backups[b]]
    /\ UNCHANGED <<nextBackup, jobs, nextJob, creators, worker>>

-----------------------------------------------------------------------------
WorkerStep ==
    \/ MarkRunning \/ Requeue \/ GiveUp \/ Failover \/ MarkFailed
    \/ Succeed \/ MarkCompleted \/ DeleteOldest

Next ==
    \/ \E c \in Creators :
         \/ CreateBackup(c) \/ CreateDatabaseBackup(c) \/ BulkCreate(c)
         \/ ProcessSchedule(c) \/ ProcessBackupConfig(c)
         \/ InsertRecord(c) \/ InsertNothing(c) \/ InsertJob(c)
    \/ \E j \in JobIds : Claim(j)
    \/ WorkerStep
    \/ Abandon
    \/ \E j \in JobIds : EndJob(j)
    \/ \E b \in BackupIds : DeleteRecord(b)
    \/ CleanupStuckRunning
    \/ CleanupOrphanedPending
    \/ Tick

Spec == Init /\ [][Next]_vars

\* Time passes and the scheduler's minute tick keeps coming.
FairSpec ==
    /\ Spec
    /\ WF_vars(Tick) /\ WF_vars(CleanupStuckRunning) /\ WF_vars(CleanupOrphanedPending)

-----------------------------------------------------------------------------
(* Properties. *)

(* Overlapping requests and scheduler passes never leave two pending records
   of one site and type: the check inside the INSERT is atomic, the handlers'
   own check before it is not. *)
OnePendingPerTarget ==
    \A a, b \in BackupIds :
        /\ a # b
        /\ backups[a].status = "pending" /\ backups[b].status = "pending"
        => <<backups[a].site, backups[a].type>> # <<backups[b].site, backups[b].type>>

(* A completed backup keeps its status until it is deleted: no late job, retry,
   failover or clean-up turns it back into a running or a failed one. *)
CompletedIsFinal ==
    [][\A b \in BackupIds : backups[b].status = "completed"
          => backups'[b].status \in {"completed", "none"}]_vars

(* At most one job is queued or running for a record, the failover included:
   the failover job is inserted in the step in which its original ends. *)
OneActiveJobPerRecord ==
    \A i, j \in JobIds :
        i # j /\ jobs[i].state \in JobActive /\ jobs[j].state \in JobActive
        => jobs[i].backup # jobs[j].backup

(* No record blocks its site for ever: whatever is lost (a job that could not
   be inserted, was canceled or died with the process), a record in progress
   ends or goes away. *)
RecordsSettle ==
    \A b \in BackupIds : backups[b].status \in InProgress
                            ~> backups[b].status \notin InProgress

-----------------------------------------------------------------------------
(* A claim of a comment that the code does not meet. *)

(* "Returns ErrDuplicate if a pending/running backup already exists for this
   site" (BackupStore.Create): so a job always names a record of its own site
   and type. *)
JobNamesOwnRecord ==
    \A j \in JobIds : jobs[j].state \in JobActive /\ backups[jobs[j].backup].status # "none"
        => /\ backups[jobs[j].backup].site = jobs[j].site
           /\ backups[jobs[j].backup].type = jobs[j].type
=============================================================================
