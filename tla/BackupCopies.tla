---------------------------- MODULE BackupCopies ----------------------------
(***************************************************************************)
(* Where the bytes of a site's backups are: archives in <root>/backups on  *)
(* the agent, objects at a storage provider, and the columns storage_path  *)
(* and s3_path that lead to them.  Covers the creation with a provider,    *)
(* the agent's archive, restore and delete tasks, what the worker does     *)
(* with their results, and the retention clean-up.  An archive moves with  *)
(* the site's root directory, and the root directory is what a restore     *)
(* replaces.                                                               *)
(*                                                                         *)
(* One site; attempts of one backup write archives with different          *)
(* timestamps, so an archive is a backup id and an attempt (0 is the copy  *)
(* that a restore downloads).  The panel may be on another machine than    *)
(* the agent: its os.Remove then reaches nothing.                          *)
(***************************************************************************)
EXTENDS Naturals, FiniteSets

CONSTANTS
    Ids,          \* backup ids that may be given out (1..n)
    CopyProviders,    \* storage providers
    KeepLast,     \* keep_last_per_site (default 3)
    KeepOldest,   \* what the worker passes to DeleteOldest (7)
    MaxTries,     \* attempts of a job (3)
    CopyLoads     \* bound: how often each request, timer or fault occurs

ASSUME CopiesAssumption ==
    /\ Ids \subseteq Nat \ {0} /\ IsFiniteSet(Ids)
    /\ "none" \notin CopyProviders
    /\ {KeepLast, KeepOldest, MaxTries} \subseteq Nat

VARIABLES
    remote,     \* the panel is not on the agent's machine
    registered, \* providers that exist
    siteProvider, \* sites.backup_provider_id
    retention,  \* retention_days is set
    backups,    \* the backups table, by id
    lastId,     \* the AUTOINCREMENT counter
    root,       \* the site's root: its tree and the archives inside
    aside,      \* <root>.restore-old-<id>, by id
    objects,    \* what the providers hold
    queue,      \* jobs waiting
    work,       \* the worker's job and how far it is
    handlers,   \* the agent's restore handlers: the worker's, and one that outlived the backend
    cleaning,   \* the step of runCleanup
    copyLoad, copyFaults,
    excused,    \* history: backups that were deleted, or listed or removed by a retention
    hollow,     \* history: a restore unpacked the archive of a root that was not whole
    overwritten, \* history: backups whose archive a restore removed with the old root
    raced       \* history: a clean-up was interrupted, or the completed backups changed during one

copyVars == <<remote, registered, siteProvider, retention, backups, lastId, root, aside, objects, queue, work,
              handlers, cleaning, copyLoad, copyFaults, excused, overwritten, hollow, raced>>
panelVars == <<remote, registered, siteProvider, retention>>
diskVars == <<root, aside, objects>>

NoBackup == [status |-> "none", path |-> 0, s3 |-> 0, cloud |-> FALSE, expires |-> FALSE, old |-> FALSE]
NoDir == [tree |-> "absent", files |-> {}]
NoJob == [type |-> "none", id |-> 0, provider |-> "none", path |-> 0, s3 |-> 0, tries |-> 0]
NoWork == [job |-> NoJob, pc |-> "idle", n |-> 0, s3 |-> FALSE]
NoHandler == [pc |-> "none", id |-> 0, old |-> FALSE, tree |-> "absent", job |-> NoJob]
ListedCopies == {i \in Ids : backups[i].status # "none"}
Archive(d, i, n) == {f \in d.files : f.id = i /\ f.n = n}
\* GetByID(site.BackupProviderID), else GetDefault
Provider == IF siteProvider \in registered THEN siteProvider
            ELSE IF "default" \in registered THEN "default" ELSE "none"

CopiesInit ==
    /\ remote \in BOOLEAN
    /\ registered = CopyProviders /\ siteProvider \in {"none", "own"}
    /\ retention = TRUE
    /\ backups = [i \in Ids |-> NoBackup] /\ lastId = 0
    /\ root = [tree |-> "whole", files |-> {}]
    /\ aside = [i \in Ids |-> NoDir]
    /\ objects = {}
    /\ queue = {} /\ work = NoWork
    /\ handlers = [s \in {"worker", "stray"} |-> NoHandler]
    /\ cleaning = "idle"
    /\ copyLoad \in CopyLoads
    /\ copyFaults = 0 /\ excused = {} /\ overwritten = {} /\ hollow = FALSE /\ raced = FALSE

Spend(op) ==
    /\ op \in DOMAIN copyLoad /\ copyLoad[op] > 0
    /\ copyLoad' = [copyLoad EXCEPT ![op] = @ - 1]
\* one fault, or as many as the load says
Fault == copyFaults < (IF "fault" \in DOMAIN copyLoad THEN copyLoad["fault"] ELSE 1) /\ copyFaults' = copyFaults + 1
Race == raced' = (raced \/ cleaning # "idle")

-----------------------------------------------------------------------------
(* Requests *)

Create(op, p) ==
    LET i == lastId + 1
    IN  /\ Spend(op) /\ i \in Ids /\ lastId' = i
        /\ backups' = [backups EXCEPT ![i] = [NoBackup EXCEPT !.status = "pending", !.cloud = (p # "none")]]
        /\ queue' = queue \cup {[NoJob EXCEPT !.type = op, !.id = i, !.provider = p]}
        /\ UNCHANGED <<overwritten, hollow, panelVars, diskVars, work, handlers, cleaning, copyFaults, excused, raced>>

\* The provider named in the request, else the default one; else local.
createWithProvider(p) ==
    /\ p \in registered \cup {"none"} /\ (p = "none" => "default" \notin registered)
    /\ Create("create", p)

\* The provider named in the request, else the site's, even if it is gone, else the default one.
createDatabaseBackup(p) ==
    /\ \/ p \in registered
       \/ siteProvider # "none" /\ siteProvider \notin registered /\ p = "none"
       \/ siteProvider = "none" /\ "default" \notin registered /\ p = "none"
    /\ Create("dump", p)

\* s3_path is preferred; s3_config goes along when the record is not "local".
restore(i) ==
    LET b == backups[i]
    IN  /\ Spend("restore") /\ b.status = "completed"
        /\ queue' = queue \cup {[NoJob EXCEPT !.type = "restore", !.id = i, !.path = b.path, !.s3 = b.s3,
                                 !.provider = IF b.s3 # 0 /\ b.cloud THEN Provider ELSE "none"]}
        /\ UNCHANGED <<overwritten, panelVars, lastId, hollow, diskVars, backups, work, handlers, cleaning, copyFaults, excused, raced>>

\* os.Remove by the panel
PanelRemove(d, i, n) == IF remote THEN d ELSE [d EXCEPT !.files = @ \ Archive(d, i, n)]
PanelRemoves(i, n) == ~remote /\ Archive(root, i, n) # {}

\* The default provider's object goes, if that provider has it; then the local file; then the row.
deleteBackup(i) ==
    /\ Spend("delete") /\ i \in ListedCopies
    /\ objects' = {o \in objects : ~(o.id = i /\ o.n = backups[i].s3 /\ o.at = "default"
                                        /\ "default" \in registered)}
    /\ root' = PanelRemove(root, i, backups[i].path)
    /\ backups' = [backups EXCEPT ![i] = NoBackup]
    /\ excused' = excused \cup {i} /\ Race
    /\ UNCHANGED <<overwritten, panelVars, lastId, hollow, aside, queue, work, handlers, cleaning, copyFaults>>

deleteProvider(p) ==
    /\ Spend("deleteProvider") /\ p \in registered
    /\ registered' = registered \ {p}
    /\ UNCHANGED <<overwritten, lastId, hollow, remote, siteProvider, retention, backups, diskVars, queue, work, handlers, cleaning,
                   copyFaults, excused, raced>>

setRetention(v) ==
    /\ Spend("retention") /\ retention' = v
    /\ UNCHANGED <<overwritten, lastId, hollow, remote, registered, siteProvider, backups, diskVars, queue, work, handlers, cleaning,
                   copyFaults, excused, raced>>

\* Time passes: backups get older than retention_days, the oldest first.
Age(i) ==
    /\ i \in ListedCopies /\ ~backups[i].old /\ backups[i].status \in {"completed", "failed"}
    /\ \A j \in ListedCopies : j < i => backups[j].old
    /\ backups' = [backups EXCEPT ![i].old = TRUE]
    /\ UNCHANGED <<overwritten, panelVars, lastId, hollow, diskVars, queue, work, handlers, cleaning, copyLoad, copyFaults, excused, raced>>

-----------------------------------------------------------------------------
(* The worker: one job at a time *)

ClaimJob(j) ==
    /\ work = NoWork /\ j \in queue /\ j.tries < MaxTries
    /\ queue' = queue \ {j}
    /\ work' = [NoWork EXCEPT !.job = [j EXCEPT !.tries = @ + 1], !.pc = "sent"]
    /\ backups' = IF j.type \in {"create", "dump"} /\ j.id \in ListedCopies
                  THEN [backups EXCEPT ![j.id].status = "running"] ELSE backups
    /\ handlers' = IF j.type = "restore" THEN [handlers EXCEPT !["worker"] =
                       [NoHandler EXCEPT !.pc = "fetch", !.id = j.id, !.job = j]] ELSE handlers
    /\ Race
    /\ UNCHANGED <<overwritten, panelVars, lastId, hollow, diskVars, cleaning, copyLoad, copyFaults, excused>>

\* What the worker does with a failed task: back to the queue, or, the last time, failed.
Refused ==
    LET j == work.job
    IN  /\ work' = NoWork
        /\ queue' = IF j.tries < MaxTries THEN queue \cup {j} ELSE queue
        /\ backups' = IF j.tries = MaxTries /\ j.type \in {"create", "dump"} /\ j.id \in ListedCopies
                      THEN [backups EXCEPT ![j.id].status = "failed"] ELSE backups

\* EnsureDir below the root creates the root when it is missing.
EnsureDir(d) == IF d.tree = "absent" THEN [d EXCEPT !.tree = "skeleton"] ELSE d

\* Archive, then upload if s3_config is there.  A failed upload does not fail the task.
ArchiveTask(type, tree) ==
    LET j == work.job
        made == [id |-> j.id, n |-> j.tries, tree |-> tree]
        Answer(uploaded) ==
            /\ root' = [EnsureDir(root) EXCEPT !.files = @ \cup {made}]
            /\ objects' = IF uploaded THEN objects \cup {[at |-> j.provider, id |-> j.id, n |-> j.tries, tree |-> made.tree]} ELSE objects
            /\ work' = [work EXCEPT !.pc = "mark", !.n = j.tries, !.s3 = uploaded]
            /\ UNCHANGED <<queue, backups>>
    IN  /\ work.pc = "sent" /\ j.type = type
        /\ \/ j.provider = "none" /\ Answer(FALSE) /\ UNCHANGED copyFaults
           \/ j.provider \in registered /\ Answer(TRUE) /\ UNCHANGED copyFaults
           \/ j.provider # "none" /\ Answer(FALSE)
              /\ IF j.provider \in registered THEN Fault ELSE UNCHANGED copyFaults
           \/ Fault /\ root' = EnsureDir(root) /\ Refused /\ UNCHANGED objects
        /\ UNCHANGED <<overwritten, panelVars, lastId, hollow, aside, handlers, cleaning, copyLoad, excused, raced>>

\* tar of the root, with dumps of its databases
backupCreateTask == ArchiveTask("create", EnsureDir(root).tree)

\* A dump in <root>/backup/db
databaseBackupTask == ArchiveTask("dump", "dump")

\* MarkCompleted with the local path
MarkCompletedPath ==
    LET i == work.job.id
    IN  /\ work.pc = "mark"
        /\ backups' = IF i \in ListedCopies THEN [backups EXCEPT ![i].status = "completed", ![i].path = work.n]
                      ELSE backups
        /\ work' = [work EXCEPT !.pc = IF work.s3 THEN "s3" ELSE "oldest"]
        /\ Race
        /\ UNCHANGED <<overwritten, panelVars, lastId, hollow, diskVars, queue, handlers, cleaning, copyLoad, copyFaults, excused>>

\* Mutant: the local archive is given up before s3_path is stored.
UpdateS3PathLate ==
    /\ work.pc \in {"s3", "s3late"}
    /\ IF work.pc = "s3"
       THEN /\ root' = PanelRemove(root, work.job.id, work.n)
            /\ work' = [work EXCEPT !.pc = "s3late"] /\ UNCHANGED backups
       ELSE /\ backups' = IF work.job.id \in ListedCopies THEN [backups EXCEPT ![work.job.id].s3 = work.n]
                          ELSE backups
            /\ work' = [work EXCEPT !.pc = "oldest"] /\ UNCHANGED root
    /\ UNCHANGED <<overwritten, panelVars, lastId, hollow, aside, objects, queue, handlers, cleaning, copyLoad, copyFaults, excused, raced>>

UpdateS3Path ==
    LET i == work.job.id
    IN  /\ work.pc = "s3"
        /\ backups' = IF i \in ListedCopies THEN [backups EXCEPT ![i].s3 = work.n] ELSE backups
        /\ work' = [work EXCEPT !.pc = "remove"]
        /\ UNCHANGED <<overwritten, panelVars, lastId, hollow, diskVars, queue, handlers, cleaning, copyLoad, copyFaults, excused, raced>>

\* "Delete local file after successful S3 upload to save disk space"
RemoveUploaded ==
    /\ work.pc = "remove"
    /\ root' = PanelRemove(root, work.job.id, work.n)
    /\ work' = [work EXCEPT !.pc = IF PanelRemoves(work.job.id, work.n) THEN "clear" ELSE "oldest"]
    /\ UNCHANGED <<overwritten, panelVars, lastId, hollow, backups, aside, objects, queue, handlers, cleaning, copyLoad, copyFaults,
                   excused, raced>>

ClearStoragePath ==
    LET i == work.job.id
    IN  /\ work.pc = "clear"
        /\ backups' = IF i \in ListedCopies THEN [backups EXCEPT ![i].path = 0] ELSE backups
        /\ work' = [work EXCEPT !.pc = "oldest"]
        /\ UNCHANGED <<overwritten, panelVars, lastId, hollow, diskVars, queue, handlers, cleaning, copyLoad, copyFaults, excused, raced>>

\* Auto-retention, unless the upload failed; the provider is looked up afterwards.
DeleteOldest ==
    LET surplus == {i \in ListedCopies : Cardinality({j \in ListedCopies : j > i}) >= KeepOldest}
        skip == work.job.provider # "none" /\ ~work.s3
        gone == IF skip THEN {} ELSE surplus
    IN  /\ work.pc = "oldest"
        /\ backups' = [i \in Ids |-> IF i \in gone THEN NoBackup ELSE backups[i]]
        /\ objects' = {o \in objects : ~(o.id \in gone /\ o.n = backups[o.id].s3 /\ o.at = Provider)}
        /\ root' = IF remote THEN root
                   ELSE [root EXCEPT !.files = {f \in @ : ~(f.id \in gone /\ f.n = backups[f.id].path)}]
        /\ excused' = excused \cup gone
        /\ work' = NoWork
        /\ UNCHANGED <<overwritten, panelVars, lastId, hollow, aside, queue, handlers, cleaning, copyLoad, copyFaults, raced>>

\* "already gone" is a success
backupDeleteTask ==
    /\ work.pc = "sent" /\ work.job.type = "delete"
    /\ root' = [root EXCEPT !.files = @ \ Archive(root, work.job.id, work.job.path)]
    /\ work' = NoWork
    /\ UNCHANGED <<overwritten, panelVars, lastId, hollow, backups, aside, objects, queue, handlers, cleaning, copyLoad, copyFaults,
                   excused, raced>>

-----------------------------------------------------------------------------
(* backupRestoreTask, step by step; s is the worker's handler or the stray one *)

Goes(s, pc) == handlers' = [handlers EXCEPT ![s].pc = pc]
Same == UNCHANGED <<work, queue, backups>>
Overwrites(d) == overwritten' = overwritten \cup {f.id : f \in d.files}
\* movePath onto a directory that is there: the rename fails and copyPath merges the trees.
movePath(src, dst) == [tree |-> IF dst.tree = "whole" THEN "whole" ELSE src.tree,
                       files |-> dst.files \cup src.files]
\* The answer of the stray handler reaches nobody.
Fails(s) ==
    /\ handlers' = [handlers EXCEPT ![s] = NoHandler]
    /\ IF s = "worker" THEN Refused ELSE Same

\* Download below the root (which EnsureDir may create), or find the local archive.
RestoreFetch(s) ==
    LET h == handlers[s]
        found == {o \in objects : o.id = h.id /\ o.n = h.job.s3 /\ o.at = h.job.provider
                                    /\ o.at \in registered}
    IN  /\ h.pc = "fetch"
        /\ \/ /\ h.job.s3 # 0 /\ h.job.provider = "none"
              /\ Fails(s) /\ UNCHANGED <<root, copyFaults>>
           \/ /\ h.job.s3 # 0 /\ h.job.provider # "none" /\ found # {}
              /\ root' = [EnsureDir(root) EXCEPT !.files =
                    (@ \ Archive(root, h.id, 0))
                        \cup {[id |-> h.id, n |-> 0, tree |-> o.tree] : o \in found}]
              /\ Goes(s, "extract") /\ Same /\ UNCHANGED copyFaults
           \/ /\ h.job.s3 # 0 /\ h.job.provider # "none"
              /\ IF found = {} THEN UNCHANGED copyFaults ELSE Fault
              /\ root' = EnsureDir(root)
              /\ Fails(s)
           \/ /\ h.job.s3 = 0
              /\ Goes(s, "extract") /\ Same /\ UNCHANGED <<root, copyFaults>>
        /\ UNCHANGED <<overwritten, panelVars, lastId, hollow, aside, objects, cleaning, copyLoad, excused, raced>>

\* resolveBackupFile, Stat, tar into a temporary directory (a dump is no archive), sanitizeRestoredTree
RestoreExtract(s) ==
    LET h == handlers[s]
        file == Archive(root, h.id, IF h.job.s3 # 0 THEN 0 ELSE h.job.path)
    IN  /\ h.pc = "extract"
        /\ \/ /\ \E f \in file :
                    /\ f.tree # "dump" /\ hollow' = (hollow \/ f.tree # "whole")
                    /\ handlers' = [handlers EXCEPT ![s].pc = "discard", ![s].tree = f.tree]
              /\ Same /\ UNCHANGED copyFaults
           \/ /\ \A f \in file : f.tree = "dump"
              /\ Fails(s) /\ UNCHANGED <<copyFaults, hollow>>
           \/ /\ Fault /\ file # {} /\ Fails(s) /\ UNCHANGED hollow
        /\ UNCHANGED <<overwritten, panelVars, lastId, diskVars, cleaning, copyLoad, excused, raced>>

\* Mutant: the present root is deleted instead of being put aside.
RestoreStageDelete(s) ==
    /\ handlers[s].pc = "stage"
    /\ root' = NoDir /\ Goes(s, "install") /\ Same /\ Overwrites(root)
    /\ UNCHANGED <<panelVars, lastId, hollow, aside, objects, cleaning, copyLoad, copyFaults, excused, raced>>

\* If there is a root: RemoveAll(oldRoot)
RestoreDiscard(s) ==
    LET h == handlers[s]
    IN  /\ h.pc = "discard"
        /\ IF root.tree = "absent"
           THEN handlers' = [handlers EXCEPT ![s].pc = "install", ![s].old = FALSE] /\ UNCHANGED <<aside, overwritten>>
           ELSE /\ handlers' = [handlers EXCEPT ![s].pc = "stage", ![s].old = TRUE]
                /\ aside' = [aside EXCEPT ![h.id] = NoDir]
                /\ Overwrites(aside[h.id])
        /\ Same
        /\ UNCHANGED <<panelVars, lastId, hollow, root, objects, cleaning, copyLoad, copyFaults, excused, raced>>

\* movePath(root, oldRoot): a rename, or a copy that may stop half way, or a copy whose source
\* is then removed only in part
RestoreStage(s) ==
    LET h == handlers[s]
    IN  /\ h.pc = "stage"
        /\ \/ /\ root.tree # "absent"
              /\ aside' = [aside EXCEPT ![h.id] = movePath(root, @)] /\ root' = NoDir
              /\ Goes(s, "install") /\ Same /\ UNCHANGED <<copyFaults, overwritten>>
           \/ /\ root.tree # "absent" /\ Fault
              /\ \/ aside' = [aside EXCEPT ![h.id].tree = IF @ = "whole" THEN "whole" ELSE "part"] /\ UNCHANGED root
                 \/ aside' = [aside EXCEPT ![h.id] = movePath(root, @)] /\ root' = [tree |-> "part", files |-> {}]
              /\ Fails(s) /\ Overwrites(root)
           \/ /\ root.tree = "absent" /\ Fails(s) /\ UNCHANGED <<root, aside, copyFaults, overwritten>>
        /\ UNCHANGED <<panelVars, lastId, hollow, objects, cleaning, copyLoad, excused, raced>>

\* movePath(extracted, root): a rename, or a copy into what is there
RestoreInstall(s) ==
    LET h == handlers[s]
    IN  /\ h.pc = "install"
        /\ \/ /\ root' = movePath([tree |-> h.tree, files |-> {}], root)
              /\ Goes(s, "finish") /\ UNCHANGED copyFaults
           \/ /\ Fault
              /\ root' = [root EXCEPT !.tree = IF @ = "whole" THEN "whole" ELSE "part"]
              /\ Goes(s, "rollback")
        /\ Same
        /\ UNCHANGED <<overwritten, panelVars, lastId, hollow, aside, objects, cleaning, copyLoad, excused, raced>>

\* RemoveAll(root), movePath(oldRoot, root); nothing to do when nothing was put aside
RestoreRollback(s) ==
    LET h == handlers[s]
    IN  /\ h.pc = "rollback"
        /\ \/ h.old /\ root' = aside[h.id] /\ aside' = [aside EXCEPT ![h.id] = NoDir] /\ UNCHANGED copyFaults
           \/ h.old /\ Fault /\ root' = [tree |-> "part", files |-> {}] /\ UNCHANGED aside
           \/ ~h.old /\ UNCHANGED <<root, aside, copyFaults>>
        /\ IF h.old THEN Overwrites(root) ELSE UNCHANGED overwritten
        /\ Fails(s)
        /\ UNCHANGED <<panelVars, lastId, hollow, objects, cleaning, copyLoad, excused, raced>>

\* The staged copy goes, and the archives that were in it; UpdateStatus completed.
RestoreFinish(s) ==
    LET h == handlers[s]
    IN  /\ h.pc = "finish"
        /\ aside' = IF h.old THEN [aside EXCEPT ![h.id] = NoDir] ELSE aside
        /\ IF h.old THEN Overwrites(aside[h.id]) ELSE UNCHANGED overwritten
        /\ handlers' = [handlers EXCEPT ![s] = NoHandler]
        /\ IF s = "worker"
           THEN /\ work' = NoWork
                /\ backups' = IF h.id \in ListedCopies THEN [backups EXCEPT ![h.id].status = "completed"] ELSE backups
           ELSE UNCHANGED <<work, backups>>
        /\ UNCHANGED <<panelVars, lastId, hollow, root, objects, queue, cleaning, copyLoad, copyFaults, excused, raced>>

-----------------------------------------------------------------------------
(* runCleanup *)

\* ROW_NUMBER() OVER (... ORDER BY completed_at DESC, id DESC) <= keepLast among the completed
KeptCopies == LET done == {i \in Ids : backups[i].status = "completed"}
              IN  {i \in done : Cardinality({j \in done : j > i}) < KeepLast}

\* Mutant: the list does not spare the newest.
ListExpiredLocalAll(table) ==
    {i \in Ids : table[i].expires /\ table[i].old /\ table[i].path # 0}

ListExpiredLocal(table) ==
    {i \in Ids : table[i].expires /\ table[i].old /\ table[i].path # 0 /\ i \notin KeptCopies}

\* expires_at for the old ones (with a retention), ListExpiredLocal, a backup.delete job each
enqueueLocalBackupDeletes ==
    LET stamped == [i \in Ids |->
            IF retention /\ backups[i].status = "completed" /\ backups[i].old
            THEN [backups[i] EXCEPT !.expires = TRUE] ELSE backups[i]]
    IN  /\ cleaning = "idle" /\ Spend("cleanup")
        /\ backups' = stamped
        /\ queue' = queue \cup {[NoJob EXCEPT !.type = "delete", !.id = i, !.path = backups[i].path] :
                                    i \in ListExpiredLocal(stamped)}
        /\ excused' = excused \cup ListExpiredLocal(stamped)
        /\ cleaning' = "expired"
        /\ UNCHANGED <<overwritten, panelVars, lastId, hollow, diskVars, work, handlers, copyFaults, raced>>

CleanupExpired ==
    LET gone == {i \in Ids : backups[i].expires /\ backups[i].old /\ i \notin KeptCopies}
    IN  /\ cleaning = "expired"
        /\ backups' = [i \in Ids |-> IF i \in gone THEN NoBackup ELSE backups[i]]
        /\ excused' = excused \cup gone
        /\ cleaning' = IF retention THEN "local" ELSE "idle"
        /\ UNCHANGED <<overwritten, panelVars, lastId, hollow, diskVars, queue, work, handlers, copyLoad, copyFaults, raced>>

\* Local archives of what is at a provider; the second pass of runCleanup finds nothing more.
CleanupLocalAfterS3 ==
    LET up == {i \in Ids : /\ backups[i].status = "completed" /\ backups[i].s3 # 0
                           /\ backups[i].path # 0 /\ PanelRemoves(i, backups[i].path)}
    IN  /\ cleaning = "local"
        /\ root' = [root EXCEPT !.files = {f \in @ : ~(f.id \in up /\ f.n = backups[f.id].path)}]
        /\ backups' = [i \in Ids |-> IF i \in up THEN [backups[i] EXCEPT !.path = 0] ELSE backups[i]]
        /\ cleaning' = "idle"
        /\ UNCHANGED <<overwritten, panelVars, lastId, hollow, aside, objects, queue, work, handlers, copyLoad, copyFaults, excused, raced>>

-----------------------------------------------------------------------------
(* Crashes *)

\* The backend stops and its job is lost (the stuck clean-up marks it failed); the agent's
\* restore handler goes on.
BackendCrash ==
    /\ Fault /\ handlers["stray"] = NoHandler
    /\ work # NoWork \/ cleaning # "idle"
    /\ work' = NoWork /\ cleaning' = "idle"
    /\ handlers' = [handlers EXCEPT !["worker"] = NoHandler, !["stray"] = handlers["worker"]]
    /\ Race
    /\ UNCHANGED <<overwritten, panelVars, lastId, hollow, backups, diskVars, queue, copyLoad, excused>>

\* The client gives up after 15 minutes: the worker goes on as after an error, the handler too.
ClientTimeout ==
    /\ Fault /\ handlers["stray"] = NoHandler /\ handlers["worker"] # NoHandler
    /\ Refused
    /\ handlers' = [handlers EXCEPT !["worker"] = NoHandler, !["stray"] = handlers["worker"]]
    /\ UNCHANGED <<overwritten, panelVars, lastId, hollow, diskVars, cleaning, copyLoad, excused, raced>>

\* Backups in "running", by their age, whether or not they still run
CleanupStuckRunning ==
    /\ Spend("stuck") /\ \E i \in Ids : backups[i].status = "running"
    /\ backups' = [i \in Ids |-> IF backups[i].status = "running"
                                 THEN [backups[i] EXCEPT !.status = "failed"] ELSE backups[i]]
    /\ UNCHANGED <<overwritten, panelVars, lastId, hollow, diskVars, queue, work, handlers, cleaning, copyFaults,
                   excused, raced>>

\* The agent stops: its handlers end where they are, and the worker sees an error.
AgentCrash ==
    /\ Fault /\ \E s \in DOMAIN handlers : handlers[s] # NoHandler
    /\ handlers' = [s \in DOMAIN handlers |-> NoHandler]
    /\ IF handlers["worker"] # NoHandler THEN Refused ELSE Same
    /\ UNCHANGED <<overwritten, panelVars, lastId, hollow, diskVars, cleaning, copyLoad, excused, raced>>

CopiesNext ==
    \/ \E p \in CopyProviders \cup {"none"} : createWithProvider(p) \/ createDatabaseBackup(p)
    \/ \E i \in Ids : restore(i) \/ deleteBackup(i) \/ Age(i)
    \/ \E p \in CopyProviders : deleteProvider(p)
    \/ \E v \in BOOLEAN : setRetention(v)
    \/ \E j \in queue : ClaimJob(j)
    \/ backupCreateTask \/ databaseBackupTask \/ MarkCompletedPath \/ UpdateS3Path \/ RemoveUploaded
    \/ ClearStoragePath \/ DeleteOldest \/ backupDeleteTask
    \/ \E s \in {"worker", "stray"} :
          \/ RestoreFetch(s) \/ RestoreExtract(s) \/ RestoreDiscard(s) \/ RestoreStage(s)
          \/ RestoreInstall(s) \/ RestoreRollback(s) \/ RestoreFinish(s)
    \/ enqueueLocalBackupDeletes \/ CleanupExpired \/ CleanupLocalAfterS3
    \/ BackendCrash \/ ClientTimeout \/ AgentCrash \/ CleanupStuckRunning

CopiesSpec == CopiesInit /\ [][CopiesNext]_copyVars

-----------------------------------------------------------------------------
(* A completed backup that was not removed or overwritten can be reached:  *)
(* its storage_path leads to an archive below the root or, while a restore *)
(* is under way, below the directory put aside, or its s3_path leads to an *)
(* object.  The upload, the removal of the local archive after it, a       *)
(* crash between the two and the retention clean-up never take the last    *)
(* copy.                                                                   *)
CompletedHasCopy ==
    \A i \in ListedCopies \ (excused \cup overwritten) : backups[i].status = "completed" =>
        \/ /\ backups[i].path # 0
           /\ \E d \in {root} \cup {aside[j] : j \in Ids} : Archive(d, i, backups[i].path) # {}
        \/ backups[i].s3 # 0 /\ \E o \in objects : o.id = i /\ o.n = backups[i].s3

(* "so a failure while installing the restored copy can be rolled back and *)
(* never leaves the site with no data": with at most one crash or failure, *)
(* once the agent is quiet, a whole site is in the root or beside it,      *)
(* unless what was restored is itself the archive of an incomplete root.   *)
SiteHasData ==
    copyFaults <= 1 /\ ~hollow /\ (\A s \in DOMAIN handlers : handlers[s] = NoHandler) =>
        root.tree = "whole" \/ \E i \in Ids : aside[i].tree = "whole"

(* ListExpiredLocal makes the "same selection as CleanupExpired": outside  *)
(* a clean-up, a backup.delete job is for a record that is gone, provided  *)
(* the completed records did not change between the two statements and no  *)
(* crash came between them.                                                *)
DeletesWhatExpired ==
    cleaning # "expired" /\ ~raced =>
        \A j \in queue \cup {work.job} : j.type = "delete" => backups[j.id].status = "none"

=============================================================================
