------------------------------ MODULE JobQueue ------------------------------
(***************************************************************************)
(* The background-job queue of the panel: the jobs table                   *)
(* (internal/store/jobs.go), the single worker goroutine that claims and   *)
(* dispatches jobs to agents (internal/jobs/worker.go), the cancel         *)
(* endpoint (internal/apihttp/jobs.go) and the stuck-job and payload-scrub *)
(* statements of the scheduler tick (internal/jobs/scheduler.go).          *)
(*                                                                         *)
(* Every SQL statement is one atomic step; the worker, the scheduler and   *)
(* the HTTP handlers interleave between statements.  Effects of a job on   *)
(* other tables (sites, backups) belong to the modules of those tables.    *)
(***************************************************************************)
EXTENDS Integers, FiniteSets

CONSTANTS
    MaxJobs,        \* bound: rows ever inserted (ids are AUTOINCREMENT)
    Kinds,          \* the job kinds an instance enqueues, a subset of JobKinds
    Servers,        \* server ids a job may be bound to
    NoServer,       \* NULL in jobs.server_id
    DefaultMax,     \* max_attempts given by JobStore.Create (3 in the code)
    AttemptCap,     \* bound: attempts saturates here, above every max_attempts
    HoldLimit,      \* ticks from claim to the write that ends it: the agent
                    \* client's 15 min timeout and the store's busy timeouts
    StaleAfter,     \* ticks of runStuckCleanup's staleDuration (30 min)
    ScrubAfter,     \* ticks after which a terminal payload is scrubbed (1 h)
    TzAhead,        \* ticks by which the host's local time is ahead of UTC
    MaxAge          \* bound: a row's age saturates here

JobIds == 1..MaxJobs

\* backup: backup.create without s3_config, or db_backup.create;
\* backupS3: backup.create with s3_config; siteCreate: site.create;
\* other: every other type, ssl.issue included.
JobKinds == {"backup", "backupS3", "siteCreate", "other"}
BackupKinds == {"backup", "backupS3"}

ASSUME JobQueueAssumption ==
    /\ MaxJobs \in Nat
    /\ Kinds \subseteq JobKinds
    /\ NoServer \notin Servers
    /\ DefaultMax \in Nat \ {0}
    /\ AttemptCap \in Nat
    /\ AttemptCap > DefaultMax
    /\ HoldLimit \in Nat
    /\ StaleAfter \in Nat
    /\ ScrubAfter \in Nat
    /\ TzAhead \in Int
    /\ MaxAge \in Nat
    /\ MaxAge > HoldLimit

Active == {"queued", "running"}
Terminal == {"succeeded", "failed", "canceled"}
Status == {"none"} \cup Active \cup Terminal

\* status "none" is an id with no row: not inserted yet, or deleted.
\* delayed: next_retry_at lies in the future.
\* age: ticks since updated_at, kept only while some SQL reads it: on running
\* rows and on terminal rows that are not scrubbed yet.
\* scrubbed: payload is ''.
\* kind, server, max and attempts are written by Create and ClaimNext only, so
\* they also stand for the copy of the row the worker keeps in memory, and
\* keep their values when the row is deleted under the worker.
Row == [status : Status, kind : JobKinds, server : Servers \cup {NoServer},
        max : 1..DefaultMax, attempts : 0..AttemptCap, delayed : BOOLEAN,
        age : 0..MaxAge, scrubbed : BOOLEAN]

\* Where runClaimedJob stands, between two statements.
\*   claimed    ClaimNext returned the job, before the concurrency limit
\*   resolve    before agentForJob
\*   executing  inside agent.Execute
\*   setError   ScheduleRetry was tried, SetError is next
\*   failover   MarkCompleted(false) was tried after an execution error
\*   post       MarkCompleted(true) was tried, related rows are next
Holding == {"claimed", "resolve", "executing"}
WorkerPc == {"idle", "setError", "failover", "post"} \cup Holding

VARIABLES
    jobs,        \* the jobs table
    nextId,      \* next AUTOINCREMENT id
    worker,      \* [pc, job, held]: held = ticks since the claim
    cancels,     \* cancel requests that read status "queued" and have not yet
                 \* executed their UPDATE
    dispatched   \* history: calls of agent.Execute per job

vars == <<jobs, nextId, worker, cancels, dispatched>>

TypeOK ==
    /\ jobs \in [JobIds -> Row]
    /\ nextId \in 1..(MaxJobs + 1)
    /\ worker \in [pc : WorkerPc, job : 0..MaxJobs, held : 0..MaxAge]
    /\ worker.pc # "idle" => worker.job \in JobIds
    /\ cancels \subseteq JobIds
    /\ dispatched \in [JobIds -> Nat]

NoRow == [status |-> "none", kind |-> "other", server |-> NoServer,
          max |-> DefaultMax, attempts |-> 0, delayed |-> FALSE,
          age |-> 0, scrubbed |-> FALSE]

Idle == [pc |-> "idle", job |-> 0, held |-> 0]

Init ==
    /\ jobs = [j \in JobIds |-> NoRow]
    /\ nextId = 1
    /\ worker = Idle
    /\ cancels = {}
    /\ dispatched = [j \in JobIds |-> 0]

-----------------------------------------------------------------------------
(* Statements of the job store.  Each yields the table after it. *)

Present(j) == jobs[j].status # "none"

\* An UPDATE ... WHERE id = j: no effect when the row is gone.
Updated(j, r) == IF Present(j) THEN [jobs EXCEPT ![j] = r] ELSE jobs

NewRow(k, s, m) ==
    [NoRow EXCEPT !.status = "queued", !.kind = k, !.server = s, !.max = m]

Inserted(k, s, m) == [jobs EXCEPT ![nextId] = NewRow(k, s, m)]

\* JobStore.Create; within MaxJobs.
Create(k, s, m) ==
    /\ nextId <= MaxJobs
    /\ jobs' = Inserted(k, s, m)
    /\ nextId' = nextId + 1

CreateFails == UNCHANGED <<jobs, nextId>>

Due(j) == jobs[j].status = "queued" /\ ~jobs[j].delayed

\* ORDER BY id ASC LIMIT 1 among the queued rows that are due.
IsNext(j) == Due(j) /\ \A i \in JobIds : Due(i) => j <= i

Claimed(j) ==
    Updated(j, [jobs[j] EXCEPT !.status = "running",
                               !.attempts = IF @ < AttemptCap THEN @ + 1 ELSE @,
                               !.age = 0])

\* Mutant: a status no other statement knows.
RequeuedMisspelt(j) ==
    Updated(j, [jobs[j] EXCEPT !.status = "retry", !.delayed = TRUE, !.age = 0])

Requeued(j) ==
    Updated(j, [jobs[j] EXCEPT !.status = "queued", !.delayed = TRUE, !.age = 0])

Completed(j, success) ==
    Updated(j, [jobs[j] EXCEPT !.status = IF success THEN "succeeded" ELSE "failed",
                               !.age = 0])

\* UPDATE jobs SET error = ?, updated_at = now: moves updated_at, not status.
ErrorSet(j) ==
    Updated(j, [jobs[j] EXCEPT !.age = 0])

\* The worker ignores or only logs the error of these writes, so the table
\* may also stay as it was.
ScheduleRetry(j) == jobs' \in {jobs, Requeued(j)}
MarkCompleted(j, success) == jobs' \in {jobs, Completed(j, success)}
SetError(j) == jobs' \in {jobs, ErrorSet(j)}

CountRunningByServer(s) ==
    Cardinality({j \in JobIds : /\ jobs[j].server = s
                                /\ jobs[j].status = "running"
                                /\ jobs[j].kind \in BackupKinds})

-----------------------------------------------------------------------------
(* Producers: HTTP handlers and the scheduler insert queued jobs. *)

\* Only a backup.delete job may lack a server.
Enqueue ==
    /\ \/ \E k \in Kinds, s \in Servers : Create(k, s, DefaultMax)
       \/ "other" \in Kinds /\ Create("other", NoServer, DefaultMax)
    /\ UNCHANGED <<worker, cancels, dispatched>>

(* Deleting a site deletes its jobs, deleting a server cascades to its jobs;
   row by row is the weaker, more interleaved form.  The worker may hold j. *)
DeleteRow(j) ==
    /\ Present(j)
    /\ jobs' = Updated(j, [jobs[j] EXCEPT !.status = "none", !.delayed = FALSE,
                                          !.age = 0, !.scrubbed = FALSE])
    /\ UNCHANGED <<nextId, worker, cancels, dispatched>>

-----------------------------------------------------------------------------
(* The worker: processOne and runClaimedJob. *)

Goto(pc) == worker' = [worker EXCEPT !.pc = pc]
Return == worker' = Idle

\* Mutants: one attempt too many; no limit at all.
AttemptsLeftOffByOne(j) == jobs[j].attempts <= jobs[j].max
AttemptsLeftForever(j) == jobs[j].attempts <= AttemptCap

AttemptsLeft(j) == jobs[j].attempts < jobs[j].max

ClaimNext(j) ==
    /\ worker.pc = "idle"
    /\ IsNext(j)
    /\ jobs' = Claimed(j)
    /\ worker' = [pc |-> "claimed", job |-> j, held |-> 0]
    /\ UNCHANGED <<nextId, cancels, dispatched>>

\* The concurrency limit applies to backup jobs bound to a server.
Limited(j) == jobs[j].kind \in BackupKinds /\ jobs[j].server # NoServer

\* running >= maxConcurrentBackups: back to the queue for 30 s.  The count is
\* taken after ClaimNext, so it includes this job.
DeferBackup ==
    /\ worker.pc = "claimed"
    /\ Limited(worker.job)
    /\ CountRunningByServer(jobs[worker.job].server) >= 1
    /\ ScheduleRetry(worker.job)
    /\ Return
    /\ UNCHANGED <<nextId, cancels, dispatched>>

\* Not limited, nothing counted, or the count's error was dropped (running, _).
PassLimit ==
    /\ worker.pc = "claimed"
    /\ Goto("resolve")
    /\ UNCHANGED <<jobs, nextId, cancels, dispatched>>

\* agentForJob fails for a server without row, token or URL.
AgentUnresolved ==
    /\ worker.pc = "resolve"
    /\ jobs[worker.job].server # NoServer
    /\ \/ /\ AttemptsLeft(worker.job)
          /\ ScheduleRetry(worker.job)
          /\ Goto("setError")
       \/ /\ ~AttemptsLeft(worker.job)
          /\ MarkCompleted(worker.job, FALSE)
          /\ Return
    /\ UNCHANGED <<nextId, cancels, dispatched>>

\* agentForJob succeeds and agent.Execute is called.
Dispatch ==
    /\ worker.pc = "resolve"
    /\ Goto("executing")
    /\ dispatched' = [dispatched EXCEPT ![worker.job] = @ + 1]
    /\ UNCHANGED <<jobs, nextId, cancels>>

\* Execute returned an error: transport, timeout, status >= 400, bad body,
\* unknown type.
ExecuteFails ==
    /\ worker.pc = "executing"
    /\ \/ /\ AttemptsLeft(worker.job)
          /\ ScheduleRetry(worker.job)
          /\ Goto("setError")
       \/ /\ ~AttemptsLeft(worker.job)
          /\ MarkCompleted(worker.job, FALSE)
          /\ Goto("failover")
    /\ UNCHANGED <<nextId, cancels, dispatched>>

RecordError ==
    /\ worker.pc = "setError"
    /\ SetError(worker.job)
    /\ Return
    /\ UNCHANGED <<nextId, cancels, dispatched>>

\* A backup that failed for good with s3_config is tried once more locally.
Failover ==
    /\ worker.pc = "failover"
    /\ \/ /\ jobs[worker.job].kind = "backupS3"
          /\ Create("backup", jobs[worker.job].server, 1)
       \/ CreateFails
    /\ Return
    /\ UNCHANGED <<cancels, dispatched>>

\* Execute returned no error; result.OK is not looked at.
ExecuteSucceeds ==
    /\ worker.pc = "executing"
    /\ MarkCompleted(worker.job, TRUE)
    /\ Goto("post")
    /\ UNCHANGED <<nextId, cancels, dispatched>>

\* Of the updates after a success only one touches jobs: a created site gets
\* an ssl.issue job (if the site still exists).
PostSuccess ==
    /\ worker.pc = "post"
    /\ \/ /\ jobs[worker.job].kind = "siteCreate"
          /\ Create("other", jobs[worker.job].server, DefaultMax)
       \/ CreateFails
    /\ Return
    /\ UNCHANGED <<cancels, dispatched>>

\* The deferred recover(): wherever runClaimedJob stands, the job is failed.
Panic ==
    /\ worker.pc # "idle"
    /\ MarkCompleted(worker.job, FALSE)
    /\ Return
    /\ UNCHANGED <<nextId, cancels, dispatched>>

\* The process stops, gracefully or not.  Nothing at start-up looks at rows
\* left running; requests in flight are lost.
Restart ==
    /\ worker' = Idle
    /\ cancels' = {}
    /\ UNCHANGED <<jobs, nextId, dispatched>>

-----------------------------------------------------------------------------
(* POST /jobs/:id/cancel: read, then conditional UPDATE, then answer. *)

CancelRead(j) ==
    /\ jobs[j].status = "queued"
    /\ cancels' = cancels \cup {j}
    /\ UNCHANGED <<jobs, nextId, worker, dispatched>>

\* Mutant: the UPDATE relies on the handler's earlier read of the status.
CancelUpdateUnguarded(j) ==
    /\ j \in cancels
    /\ jobs' = Updated(j, [jobs[j] EXCEPT !.status = "canceled", !.age = 0])
    /\ cancels' = cancels \ {j}
    /\ UNCHANGED <<nextId, worker, dispatched>>

CancelUpdate(j) ==
    /\ j \in cancels
    /\ jobs' = IF jobs[j].status = "queued"
               THEN Updated(j, [jobs[j] EXCEPT !.status = "canceled", !.age = 0])
               ELSE jobs
    /\ cancels' = cancels \ {j}
    /\ UNCHANGED <<nextId, worker, dispatched>>

-----------------------------------------------------------------------------
(* The scheduler tick's statements on jobs. *)

\* Mutants: the age test is dropped; it is reversed.
StaleWhenRunning(j) == jobs[j].status = "running"
StaleReversed(j) == jobs[j].status = "running" /\ jobs[j].age + TzAhead < StaleAfter

\* updated_at is UTC text, the cutoff is bound as local-time text.
Stale(j) == jobs[j].status = "running" /\ jobs[j].age + TzAhead > StaleAfter

CleanupStuckRunning ==
    /\ \E j \in JobIds : Stale(j)
    /\ jobs' = [j \in JobIds |->
                  IF Stale(j) THEN [jobs[j] EXCEPT !.status = "failed", !.age = 0]
                              ELSE jobs[j]]
    /\ UNCHANGED <<nextId, worker, cancels, dispatched>>

\* Mutant: the scrub forgets the status list.
ScrubbableAnyStatus(j) ==
    Present(j) /\ ~jobs[j].scrubbed /\ jobs[j].age > ScrubAfter

\* completed_at and updated_at agree on every terminal row that has both.
Scrubbable(j) ==
    jobs[j].status \in Terminal /\ ~jobs[j].scrubbed /\ jobs[j].age > ScrubAfter

ScrubTerminalPayloads ==
    /\ \E j \in JobIds : Scrubbable(j)
    /\ jobs' = [j \in JobIds |->
                  IF Scrubbable(j) THEN [jobs[j] EXCEPT !.scrubbed = TRUE, !.age = 0]
                                   ELSE jobs[j]]
    /\ UNCHANGED <<nextId, worker, cancels, dispatched>>

-----------------------------------------------------------------------------
(* Time. *)

\* next_retry_at is reached (backoff of at most 5 min, or 30 s per backup).
RetryDue(j) ==
    /\ jobs[j].status = "queued" /\ jobs[j].delayed
    /\ jobs' = Updated(j, [jobs[j] EXCEPT !.delayed = FALSE])
    /\ UNCHANGED <<nextId, worker, cancels, dispatched>>

Older(n) == IF n < MaxAge THEN n + 1 ELSE n

\* The worker's time-outs keep it from holding a job longer than HoldLimit.
Tick ==
    /\ worker.pc \in Holding => worker.held < HoldLimit
    /\ jobs' = [j \in JobIds |->
                  IF \/ jobs[j].status = "running"
                     \/ jobs[j].status \in Terminal /\ ~jobs[j].scrubbed
                  THEN [jobs[j] EXCEPT !.age = Older(@)] ELSE jobs[j]]
    /\ worker' = IF worker.pc \in Holding
                 THEN [worker EXCEPT !.held = Older(@)] ELSE worker
    /\ UNCHANGED <<nextId, cancels, dispatched>>

-----------------------------------------------------------------------------
WorkerStep ==
    \/ DeferBackup \/ PassLimit \/ AgentUnresolved \/ Dispatch
    \/ ExecuteFails \/ RecordError \/ Failover \/ ExecuteSucceeds \/ PostSuccess

Next ==
    \/ Enqueue
    \/ \E j \in JobIds : DeleteRow(j)
    \/ \E j \in JobIds : ClaimNext(j)
    \/ WorkerStep
    \/ Panic
    \/ Restart
    \/ \E j \in JobIds : CancelRead(j)
    \/ \E j \in JobIds : CancelUpdate(j)
    \/ CleanupStuckRunning
    \/ ScrubTerminalPayloads
    \/ \E j \in JobIds : RetryDue(j)
    \/ Tick

Spec == Init /\ [][Next]_vars

\* The worker polls every 2 s, every call it makes returns, the scheduler
\* ticks every minute and time passes.
Fairness ==
    /\ WF_vars(\E j \in JobIds : ClaimNext(j))
    /\ WF_vars(WorkerStep)
    /\ WF_vars(CleanupStuckRunning)
    /\ \A j \in JobIds : WF_vars(RetryDue(j))
    /\ WF_vars(Tick)

FairSpec == Spec /\ Fairness

-----------------------------------------------------------------------------
(* Properties. *)

(* While the worker is between ClaimNext and the write that ends its attempt,
   the row it holds is still running, or was deleted: neither a cancel request
   nor the stuck-job cleanup takes a live job away from it.  This is what makes
   the unconditional "WHERE id = ?" of ScheduleRetry and MarkCompleted safe. *)
HeldJobIsRunning ==
    worker.pc \in Holding => jobs[worker.job].status \in {"running", "none"}

(* agent.Execute is called at most max_attempts times for a job, although
   attempts is also spent on deferrals, unresolved agents and crashes. *)
DispatchBound == \A j \in JobIds : dispatched[j] <= jobs[j].max

(* The payload of a job that may still be sent to an agent was not scrubbed. *)
PayloadKeptWhileActive ==
    \A j \in JobIds : jobs[j].status \in Active => ~jobs[j].scrubbed

(* A job that succeeded, failed or was canceled is never queued or run again:
   no late write of the worker brings back a row that the cleanup or a cancel
   request has ended. *)
NoResurrection ==
    [][\A j \in JobIds : jobs[j].status \in Terminal
                            => jobs'[j].status \notin Active]_vars

(* The queue implements JobContract: ids below nextId without a row are jobs
   that were deleted. *)
ContractState ==
    [j \in JobIds |-> IF j >= nextId THEN "new"
                      ELSE IF Present(j) THEN jobs[j].status ELSE "gone"]

Contract == INSTANCE JobContract WITH
    Jobs <- JobIds, MaxLimit <- DefaultMax,
    state <- ContractState,
    limit <- [j \in JobIds |-> jobs[j].max],
    runs <- dispatched

ImplementsContract == Contract!CSpec

(* No job stays running for ever: a row orphaned by a crash, a shutdown or a
   lost write is failed by the stuck-job cleanup. *)
RunningEnds ==
    \A j \in JobIds : jobs[j].status = "running" ~> jobs[j].status # "running"

(* A job outside the backup concurrency limit reaches an end (or is deleted),
   whatever crashes, failures and lost writes it meets. *)
UnlimitedJobsEnd ==
    \A j \in JobIds : (jobs[j].status = "queued" /\ ~Limited(j))
                         ~> jobs[j].status \notin Active

-----------------------------------------------------------------------------
(* The inductive invariant behind the safety properties. *)

\* The stuck-job cutoff is beyond the longest hold, on this host's clock.
ClockOk == HoldLimit + TzAhead <= StaleAfter

\* A held row is as young as the hold, and the hold is bounded.
HoldInv ==
    worker.pc \in Holding =>
        /\ worker.held <= HoldLimit
        /\ Present(worker.job) => /\ jobs[worker.job].status = "running"
                                  /\ jobs[worker.job].age <= worker.held

\* Ids are handed out in order, and only to the worker once handed out.
FreshInv ==
    /\ \A j \in JobIds : j >= nextId => jobs[j] = NoRow /\ dispatched[j] = 0
    /\ worker.pc # "idle" => worker.job < nextId

\* A job that may be claimed, or is claimed and not yet sent, has an execution
\* left; attempts never falls behind the executions.
DispatchInv ==
    \A j \in JobIds :
        /\ dispatched[j] <= jobs[j].max
        /\ dispatched[j] <= jobs[j].attempts
        /\ jobs[j].status = "queued" => dispatched[j] < jobs[j].max
        /\ (worker.pc \in {"claimed", "resolve"} /\ worker.job = j) =>
              /\ dispatched[j] < jobs[j].max
              /\ dispatched[j] < jobs[j].attempts

IndInv == TypeOK /\ HoldInv /\ FreshInv /\ DispatchInv /\ PayloadKeptWhileActive

-----------------------------------------------------------------------------
(* Claims of comments that the code does not meet. *)

(* "Concurrency limit: max 1 concurrent backup job per server" (worker.go):
   a backup goes back to the queue only when another one runs there. *)
DeferredOnlyForAnother ==
    [][DeferBackup => \E i \in JobIds \ {worker.job} :
          /\ jobs[i].status = "running"
          /\ jobs[i].kind \in BackupKinds
          /\ jobs[i].server = jobs[worker.job].server]_vars
=============================================================================
