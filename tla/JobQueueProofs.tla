--------------------------- MODULE JobQueueProofs ---------------------------
(***************************************************************************)
(* Proofs about JobQueue for every number of jobs, every limit and every   *)
(* clock for which ClockOk holds.                                          *)
(***************************************************************************)
EXTENDS JobQueue, TLAPS

-----------------------------------------------------------------------------
(* The statements of the job store keep the table well typed. *)

(* An UPDATE by id writes well-typed rows only. *)
LEMMA UpdatedType ==
    ASSUME jobs \in [JobIds -> Row], NEW j \in JobIds, NEW r \in Row
    PROVE  Updated(j, r) \in [JobIds -> Row]
BY DEF Updated, Present

(* The column assignments of every statement keep a row a row. *)
LEMMA RowEdits ==
    ASSUME NEW r \in Row, NEW ok \in BOOLEAN
    PROVE  /\ [r EXCEPT !.status = "queued", !.delayed = TRUE, !.age = 0] \in Row
           /\ [r EXCEPT !.status = IF ok THEN "succeeded" ELSE "failed", !.age = 0] \in Row
           /\ [r EXCEPT !.status = "failed", !.age = 0] \in Row
           /\ [r EXCEPT !.status = "canceled", !.age = 0] \in Row
           /\ [r EXCEPT !.age = 0] \in Row
           /\ [r EXCEPT !.status = "none", !.delayed = FALSE,
                        !.age = 0, !.scrubbed = FALSE] \in Row
           /\ [r EXCEPT !.status = "running",
                        !.attempts = IF @ < AttemptCap THEN @ + 1 ELSE @,
                        !.age = 0] \in Row
           /\ [r EXCEPT !.delayed = FALSE] \in Row
           /\ [r EXCEPT !.scrubbed = TRUE, !.age = 0] \in Row
<1>1. 0 \in 0..MaxAge
  BY JobQueueAssumption
<1>2. (IF r.attempts < AttemptCap THEN r.attempts + 1 ELSE r.attempts) \in 0..AttemptCap
  BY JobQueueAssumption DEF Row
<1>3. {"none", "queued", "running", "succeeded", "failed", "canceled"} \subseteq Status
  BY DEF Status, Active, Terminal
<1> QED
  BY <1>1, <1>2, <1>3 DEF Row

(* Requeueing, completing and recording an error write rows of the table. *)
LEMMA WorkerWritesType ==
    ASSUME jobs \in [JobIds -> Row], NEW j \in JobIds, NEW ok \in BOOLEAN
    PROVE  /\ Requeued(j) \in [JobIds -> Row]
           /\ Completed(j, ok) \in [JobIds -> Row]
           /\ ErrorSet(j) \in [JobIds -> Row]
BY RowEdits, UpdatedType DEF Requeued, Completed, ErrorSet

(* A new row is a row of the table. *)
LEMMA NewRowType ==
    ASSUME NEW k \in JobKinds, NEW s \in Servers \cup {NoServer}, NEW m \in 1..DefaultMax
    PROVE  NewRow(k, s, m) \in Row
<1>1. NoRow \in Row
  BY JobQueueAssumption DEF NoRow, Row, Status, JobKinds
<1>2. "queued" \in Status
  BY DEF Status, Active
<1> QED
  BY <1>1, <1>2 DEF NewRow, Row

(* Create keeps the table and the id counter well typed. *)
LEMMA CreateType ==
    ASSUME TypeOK, NEW k \in JobKinds, NEW s \in Servers \cup {NoServer},
           NEW m \in 1..DefaultMax, Create(k, s, m)
    PROVE  jobs' \in [JobIds -> Row] /\ nextId' \in 1..(MaxJobs + 1)
BY NewRowType, JobQueueAssumption DEF TypeOK, Create, Inserted, JobIds

-----------------------------------------------------------------------------
(* Type correctness *)

(* The initial state is well typed. *)
LEMMA TypeInit == Init => TypeOK
<1> SUFFICES ASSUME Init PROVE TypeOK
  OBVIOUS
<1>1. NoRow \in Row
  BY JobQueueAssumption DEF NoRow, Row, Status, JobKinds
<1>2. Idle \in [pc : WorkerPc, job : 0..MaxJobs, held : 0..MaxAge]
  BY JobQueueAssumption DEF Idle, WorkerPc
<1> QED
  BY <1>1, <1>2, JobQueueAssumption DEF Init, TypeOK, Idle

(* Every step keeps the variables in their types. *)
LEMMA TypeStep == TypeOK /\ [Next]_vars => TypeOK'
<1> SUFFICES ASSUME TypeOK, [Next]_vars PROVE TypeOK'
  OBVIOUS
<1> USE JobQueueAssumption
<1> DEFINE WT == [pc : WorkerPc, job : 0..MaxJobs, held : 0..MaxAge]
<1>i. Idle \in WT /\ Idle.pc = "idle"
  BY DEF Idle, WorkerPc
<1>w. /\ worker \in WT
      /\ \A p \in WorkerPc : [worker EXCEPT !.pc = p] \in WT
  BY DEF TypeOK, WorkerPc
<1>1. CASE Enqueue
  <2>1. jobs' \in [JobIds -> Row] /\ nextId' \in 1..(MaxJobs + 1)
    <3>1. ASSUME NEW k \in Kinds, NEW s \in Servers, Create(k, s, DefaultMax)
          PROVE  jobs' \in [JobIds -> Row] /\ nextId' \in 1..(MaxJobs + 1)
      BY <3>1, CreateType
    <3>2. ASSUME Create("other", NoServer, DefaultMax)
          PROVE  jobs' \in [JobIds -> Row] /\ nextId' \in 1..(MaxJobs + 1)
      BY <3>2, CreateType DEF JobKinds
    <3> QED BY <1>1, <3>1, <3>2 DEF Enqueue
  <2> QED BY <1>1, <2>1 DEF Enqueue, TypeOK
<1>2. CASE \E j \in JobIds : DeleteRow(j)
  <2> PICK j \in JobIds : DeleteRow(j) BY <1>2
  <2>1. [jobs[j] EXCEPT !.status = "none", !.delayed = FALSE,
                        !.age = 0, !.scrubbed = FALSE] \in Row
    BY RowEdits DEF TypeOK
  <2> QED BY <2>1, UpdatedType DEF DeleteRow, TypeOK
<1>3. CASE \E j \in JobIds : ClaimNext(j)
  <2> PICK j \in JobIds : ClaimNext(j) BY <1>3
  <2>1. jobs' \in [JobIds -> Row]
    <3>1. [jobs[j] EXCEPT !.status = "running",
                          !.attempts = IF @ < AttemptCap THEN @ + 1 ELSE @,
                          !.age = 0] \in Row
      BY RowEdits DEF TypeOK
    <3> QED BY <3>1, UpdatedType DEF ClaimNext, Claimed, TypeOK
  <2>2. worker' \in WT /\ worker'.job \in JobIds
    BY DEF ClaimNext, WorkerPc, Holding, JobIds
  <2> QED BY <2>1, <2>2 DEF ClaimNext, TypeOK
<1>4. CASE WorkerStep \/ Panic
  <2>1. worker.job \in JobIds /\ worker.pc # "idle"
    BY <1>4 DEF TypeOK, WorkerStep, Panic, DeferBackup, PassLimit, AgentUnresolved,
       Dispatch, ExecuteFails, RecordError, Failover, ExecuteSucceeds, PostSuccess
  <2>r. ASSUME \/ ScheduleRetry(worker.job) \/ MarkCompleted(worker.job, TRUE)
               \/ MarkCompleted(worker.job, FALSE) \/ SetError(worker.job)
        PROVE  jobs' \in [JobIds -> Row]
    <3>1. /\ Requeued(worker.job) \in [JobIds -> Row]
          /\ Completed(worker.job, TRUE) \in [JobIds -> Row]
          /\ Completed(worker.job, FALSE) \in [JobIds -> Row]
          /\ ErrorSet(worker.job) \in [JobIds -> Row]
      BY <2>1, WorkerWritesType DEF TypeOK
    <3> QED BY <2>r, <3>1 DEF ScheduleRetry, MarkCompleted, SetError, TypeOK
  <2>c. ASSUME NEW k \in JobKinds, NEW m \in 1..DefaultMax,
               Create(k, jobs[worker.job].server, m)
        PROVE  jobs' \in [JobIds -> Row] /\ nextId' \in 1..(MaxJobs + 1)
    <3>1. jobs[worker.job].server \in Servers \cup {NoServer}
      BY <2>1 DEF TypeOK, Row
    <3> QED BY <2>c, <3>1, CreateType
  <2>g. ASSUME NEW p \in WorkerPc, Goto(p) \/ Return
        PROVE  worker' \in WT /\ (worker'.pc # "idle" => worker'.job \in JobIds)
    BY <2>g, <2>1, <1>i, <1>w DEF Goto, Return
  <2>2. CASE DeferBackup
    BY <2>2, <2>r, <2>g DEF DeferBackup, TypeOK
  <2>3. CASE PassLimit
    BY <2>3, <2>g DEF PassLimit, TypeOK, WorkerPc, Holding
  <2>4. CASE AgentUnresolved
    BY <2>4, <2>r, <2>g DEF AgentUnresolved, TypeOK, WorkerPc
  <2>5. CASE Dispatch
    BY <2>5, <2>g, <2>1 DEF Dispatch, TypeOK, WorkerPc, Holding
  <2>6. CASE ExecuteFails
    BY <2>6, <2>r, <2>g DEF ExecuteFails, TypeOK, WorkerPc
  <2>7. CASE RecordError
    BY <2>7, <2>r, <2>g DEF RecordError, TypeOK
  <2>8. CASE Failover
    <3>1. jobs' \in [JobIds -> Row] /\ nextId' \in 1..(MaxJobs + 1)
      BY <2>8, <2>c DEF Failover, CreateFails, TypeOK, JobKinds
    <3> QED BY <2>8, <3>1, <2>g DEF Failover, TypeOK
  <2>9. CASE ExecuteSucceeds
    BY <2>9, <2>r, <2>g DEF ExecuteSucceeds, TypeOK, WorkerPc
  <2>10. CASE PostSuccess
    <3>1. jobs' \in [JobIds -> Row] /\ nextId' \in 1..(MaxJobs + 1)
      BY <2>10, <2>c DEF PostSuccess, CreateFails, TypeOK, JobKinds
    <3> QED BY <2>10, <3>1, <2>g DEF PostSuccess, TypeOK
  <2>11. CASE Panic
    BY <2>11, <2>r, <2>g DEF Panic, TypeOK
  <2> QED
    BY <1>4, <2>2, <2>3, <2>4, <2>5, <2>6, <2>7, <2>8, <2>9, <2>10, <2>11 DEF WorkerStep
<1>5. CASE Restart
  BY <1>5, <1>i DEF Restart, TypeOK
<1>6. CASE \E j \in JobIds : CancelRead(j)
  BY <1>6 DEF CancelRead, TypeOK
<1>7. CASE \E j \in JobIds : CancelUpdate(j)
  <2> PICK j \in JobIds : CancelUpdate(j) BY <1>7
  <2>1. [jobs[j] EXCEPT !.status = "canceled", !.age = 0] \in Row
    BY RowEdits DEF TypeOK
  <2> QED BY <2>1, UpdatedType DEF CancelUpdate, TypeOK
<1>8. CASE CleanupStuckRunning
  <2>1. \A j \in JobIds : [jobs[j] EXCEPT !.status = "failed", !.age = 0] \in Row
    BY RowEdits DEF TypeOK
  <2> QED BY <1>8, <2>1 DEF CleanupStuckRunning, TypeOK
<1>9. CASE ScrubTerminalPayloads
  <2>1. \A j \in JobIds : [jobs[j] EXCEPT !.scrubbed = TRUE, !.age = 0] \in Row
    BY RowEdits DEF TypeOK
  <2> QED BY <1>9, <2>1 DEF ScrubTerminalPayloads, TypeOK
<1>10. CASE \E j \in JobIds : RetryDue(j)
  <2> PICK j \in JobIds : RetryDue(j) BY <1>10
  <2>1. [jobs[j] EXCEPT !.delayed = FALSE] \in Row
    BY RowEdits DEF TypeOK
  <2> QED BY <2>1, UpdatedType DEF RetryDue, TypeOK
<1>11. CASE Tick
  <2>1. \A n \in 0..MaxAge : Older(n) \in 0..MaxAge
    BY DEF Older
  <2>2. jobs' \in [JobIds -> Row]
    BY <1>11, <2>1 DEF Tick, TypeOK, Row
  <2>3. worker' \in WT /\ (worker'.pc # "idle" => worker'.job \in JobIds)
    BY <1>11, <2>1 DEF Tick, TypeOK
  <2> QED BY <1>11, <2>2, <2>3 DEF Tick, TypeOK
<1>12. CASE UNCHANGED vars
  BY <1>12 DEF vars, TypeOK
<1> QED
  BY <1>1, <1>2, <1>3, <1>4, <1>5, <1>6, <1>7, <1>8, <1>9, <1>10, <1>11, <1>12 DEF Next

(* Every reachable state is well typed. *)
THEOREM TypeCorrect == Spec => []TypeOK
<1>1. Init => TypeOK
  BY TypeInit
<1>2. TypeOK /\ [Next]_vars => TypeOK'
  BY TypeStep
<1> QED
  BY <1>1, <1>2, PTL DEF Spec

-----------------------------------------------------------------------------
(* What a statement does to each row *)

(* An UPDATE by id changes that row, if it exists, and no other. *)
LEMMA UpdatedRow ==
    ASSUME TypeOK, NEW j \in JobIds, NEW r
    PROVE  \A i \in JobIds :
             Updated(j, r)[i] = IF i = j /\ Present(j) THEN r ELSE jobs[i]
BY DEF Updated, TypeOK

(* A row the worker writes: unchanged, requeued or completed; its immutable
   columns and its payload stay. *)
LEMMA WorkerWriteRow ==
    ASSUME TypeOK, NEW j \in JobIds,
           \/ ScheduleRetry(j) \/ MarkCompleted(j, TRUE)
           \/ MarkCompleted(j, FALSE) \/ SetError(j)
    PROVE  \A i \in JobIds :
             /\ jobs'[i].max = jobs[i].max
             /\ jobs'[i].attempts = jobs[i].attempts
             /\ jobs'[i].scrubbed = jobs[i].scrubbed
             /\ i # j => jobs'[i] = jobs[i]
             /\ jobs[i].status = "none" => jobs'[i] = jobs[i]
             /\ jobs'[i].status = jobs[i].status
                  \/ (ScheduleRetry(j) /\ jobs'[i].status = "queued")
                  \/ jobs'[i].status \in {"succeeded", "failed"}
<1> TAKE i \in JobIds
<1>t. jobs[i] \in Row /\ jobs[j] \in Row
  BY DEF TypeOK
<1>1. CASE jobs' = jobs
  BY <1>1
<1>2. CASE ScheduleRetry(j) /\ jobs' = Requeued(j)
  <2>1. jobs'[i] = IF i = j /\ Present(j)
                   THEN [jobs[j] EXCEPT !.status = "queued", !.delayed = TRUE, !.age = 0]
                   ELSE jobs[i]
    BY <1>2, UpdatedRow DEF Requeued
  <2> QED BY <2>1, <1>2, <1>t DEF Row, Present
<1>3. CASE jobs' = Completed(j, TRUE)
  <2>1. jobs'[i] = IF i = j /\ Present(j) THEN [jobs[j] EXCEPT !.status = "succeeded", !.age = 0] ELSE jobs[i]
    BY <1>3, UpdatedRow DEF Completed
  <2> QED BY <2>1, <1>t DEF Row, Present
<1>4. CASE jobs' = Completed(j, FALSE)
  <2>1. jobs'[i] = IF i = j /\ Present(j) THEN [jobs[j] EXCEPT !.status = "failed", !.age = 0] ELSE jobs[i]
    BY <1>4, UpdatedRow DEF Completed
  <2> QED BY <2>1, <1>t DEF Row, Present
<1>5. CASE jobs' = ErrorSet(j)
  <2>1. jobs'[i] = IF i = j /\ Present(j) THEN [jobs[j] EXCEPT !.age = 0] ELSE jobs[i]
    BY <1>5, UpdatedRow DEF ErrorSet
  <2> QED BY <2>1, <1>t DEF Row, Present
<1> QED
  BY <1>1, <1>2, <1>3, <1>4, <1>5 DEF ScheduleRetry, MarkCompleted, SetError

(* Create fills the next id and nothing else. *)
LEMMA CreateRow ==
    ASSUME TypeOK, NEW k, NEW s, NEW m, Create(k, s, m)
    PROVE  /\ nextId \in JobIds /\ nextId' = nextId + 1
           /\ jobs'[nextId].status = "queued" /\ jobs'[nextId].max = m
           /\ jobs'[nextId].attempts = 0 /\ jobs'[nextId].scrubbed = FALSE
           /\ \A i \in JobIds : i # nextId => jobs'[i] = jobs[i]
BY JobQueueAssumption DEF Create, Inserted, NewRow, NoRow, TypeOK, JobIds

(* Every way a job is created. *)
LEMMA CreateCases ==
    ASSUME TypeOK, Enqueue \/ Failover \/ PostSuccess
    PROVE  \/ jobs' = jobs /\ nextId' = nextId
           \/ \E k, s : \E m \in 1..DefaultMax : Create(k, s, m)
BY JobQueueAssumption DEF Enqueue, Failover, PostSuccess, CreateFails

(* A claim moves one due row to running and spends one attempt on it. *)
LEMMA ClaimRow ==
    ASSUME TypeOK, NEW j \in JobIds, ClaimNext(j)
    PROVE  /\ jobs[j].status = "queued"
           /\ jobs'[j].status = "running" /\ jobs'[j].age = 0
           /\ jobs'[j].max = jobs[j].max /\ jobs'[j].scrubbed = jobs[j].scrubbed
           /\ jobs'[j].attempts = IF jobs[j].attempts < AttemptCap
                                  THEN jobs[j].attempts + 1 ELSE jobs[j].attempts
           /\ \A i \in JobIds : i # j => jobs'[i] = jobs[i]
<1>1. jobs[j].status = "queued" /\ Present(j) /\ jobs[j] \in Row
  BY DEF ClaimNext, IsNext, Due, Present, TypeOK
<1>2. \A i \in JobIds :
        jobs'[i] = IF i = j
                   THEN [jobs[j] EXCEPT !.status = "running",
                                        !.attempts = IF @ < AttemptCap THEN @ + 1 ELSE @,
                                        !.age = 0]
                   ELSE jobs[i]
  BY <1>1, UpdatedRow DEF ClaimNext, Claimed
<1> QED
  BY <1>1, <1>2 DEF Row

\* The steps that are neither the worker's nor an insertion.
OutsideStep ==
    \/ \E j \in JobIds : DeleteRow(j) \/ CancelRead(j) \/ CancelUpdate(j) \/ RetryDue(j)
    \/ Restart \/ CleanupStuckRunning \/ ScrubTerminalPayloads \/ Tick

(* No outside step makes a row active, touches max or attempts, or scrubs the
   payload of an active row. *)
LEMMA OutsideRow ==
    ASSUME TypeOK, OutsideStep
    PROVE  /\ nextId' = nextId /\ dispatched' = dispatched
           /\ \A i \in JobIds :
                /\ jobs'[i].max = jobs[i].max
                /\ jobs'[i].attempts = jobs[i].attempts
                /\ jobs'[i].status \in Active => /\ jobs'[i].status = jobs[i].status
                                                 /\ jobs'[i].scrubbed = jobs[i].scrubbed
                /\ jobs[i].status = "none" => jobs'[i] = jobs[i]
                /\ jobs[i].status \in Terminal => jobs'[i].status \in Terminal \cup {"none"}
<1>u. nextId' = nextId /\ dispatched' = dispatched
  BY DEF OutsideStep, DeleteRow, CancelRead, CancelUpdate, RetryDue, Restart,
     CleanupStuckRunning, ScrubTerminalPayloads, Tick
<1> SUFFICES ASSUME NEW i \in JobIds
    PROVE  /\ jobs'[i].max = jobs[i].max
           /\ jobs'[i].attempts = jobs[i].attempts
           /\ jobs'[i].status \in Active => /\ jobs'[i].status = jobs[i].status
                                            /\ jobs'[i].scrubbed = jobs[i].scrubbed
           /\ jobs[i].status = "none" => jobs'[i] = jobs[i]
           /\ jobs[i].status \in Terminal => jobs'[i].status \in Terminal \cup {"none"}
  BY <1>u
<1>t. jobs[i] \in Row /\ jobs[i].status \in Status
  BY DEF TypeOK, Row
<1>1. CASE jobs'[i] = jobs[i]
  BY <1>1
<1>2. CASE \E j \in JobIds : DeleteRow(j)
  <2> PICK j \in JobIds : DeleteRow(j) BY <1>2
  <2>1. CASE i = j
    <3>1. jobs[i].status # "none"
          /\ jobs'[i] = [jobs[i] EXCEPT !.status = "none", !.delayed = FALSE,
                                        !.age = 0, !.scrubbed = FALSE]
      BY <2>1, UpdatedRow DEF DeleteRow, Present
    <3> QED BY <3>1, <1>t DEF Row, Active
  <2>2. CASE i # j
    <3>1. jobs'[i] = jobs[i] BY <2>2, UpdatedRow DEF DeleteRow
    <3> QED BY <3>1, <1>1
  <2> QED BY <2>1, <2>2
<1>3. CASE \E j \in JobIds : CancelUpdate(j)
  <2> PICK j \in JobIds : CancelUpdate(j) BY <1>3
  <2>1. CASE i = j /\ jobs[j].status = "queued"
    <3>1. jobs'[i] = [jobs[i] EXCEPT !.status = "canceled", !.age = 0]
      BY <2>1, UpdatedRow DEF CancelUpdate, Present
    <3> QED BY <2>1, <3>1, <1>t DEF Row, Active, Terminal
  <2>2. CASE ~(i = j /\ jobs[j].status = "queued")
    <3>1. jobs'[i] = jobs[i] BY <2>2, UpdatedRow DEF CancelUpdate
    <3> QED BY <3>1, <1>1
  <2> QED BY <2>1, <2>2
<1>4. CASE \E j \in JobIds : RetryDue(j)
  <2> PICK j \in JobIds : RetryDue(j) BY <1>4
  <2>1. CASE i = j
    <3>1. jobs[i].status = "queued" /\ jobs'[i] = [jobs[i] EXCEPT !.delayed = FALSE]
      BY <2>1, UpdatedRow DEF RetryDue, Present
    <3> QED BY <3>1, <1>t DEF Row, Active, Terminal
  <2>2. CASE i # j
    <3>1. jobs'[i] = jobs[i] BY <2>2, UpdatedRow DEF RetryDue
    <3> QED BY <3>1, <1>1
  <2> QED BY <2>1, <2>2
<1>5. CASE CleanupStuckRunning
  <2>1. CASE Stale(i)
    <3>1. jobs[i].status = "running"
          /\ jobs'[i] = [jobs[i] EXCEPT !.status = "failed", !.age = 0]
      BY <1>5, <2>1 DEF CleanupStuckRunning, Stale
    <3> QED BY <3>1, <1>t DEF Row, Active, Terminal
  <2>2. CASE ~Stale(i)
    <3>1. jobs'[i] = jobs[i] BY <1>5, <2>2 DEF CleanupStuckRunning
    <3> QED BY <3>1, <1>1
  <2> QED BY <2>1, <2>2
<1>6. CASE ScrubTerminalPayloads
  <2>1. CASE Scrubbable(i)
    <3>1. jobs[i].status \in Terminal
          /\ jobs'[i] = [jobs[i] EXCEPT !.scrubbed = TRUE, !.age = 0]
      BY <1>6, <2>1 DEF ScrubTerminalPayloads, Scrubbable
    <3> QED BY <3>1, <1>t DEF Row, Active, Terminal
  <2>2. CASE ~Scrubbable(i)
    <3>1. jobs'[i] = jobs[i] BY <1>6, <2>2 DEF ScrubTerminalPayloads
    <3> QED BY <3>1, <1>1
  <2> QED BY <2>1, <2>2
<1>7. CASE Tick
  <2>1. jobs'[i] = jobs[i] \/ (/\ jobs[i].status # "none"
                               /\ jobs'[i] = [jobs[i] EXCEPT !.age = Older(jobs[i].age)])
    BY <1>7, <1>t DEF Tick, Row, Terminal
  <2> QED BY <2>1, <1>1, <1>t DEF Row
<1>8. CASE Restart \/ \E j \in JobIds : CancelRead(j)
  BY <1>8, <1>1 DEF Restart, CancelRead
<1> QED
  BY <1>2, <1>3, <1>4, <1>5, <1>6, <1>7, <1>8 DEF OutsideStep

\* The steps in which the worker writes the row of its job.
WriteStep ==
    \/ DeferBackup \/ AgentUnresolved \/ ExecuteFails
    \/ RecordError \/ ExecuteSucceeds \/ Panic

(* A writing step ends the hold, and requeues only from a state in which the
   job was not sent yet or has attempts left. *)
LEMMA WriteStepFacts ==
    ASSUME TypeOK, WriteStep
    PROVE  /\ worker.job \in JobIds /\ worker.pc # "idle"
           /\ nextId' = nextId /\ dispatched' = dispatched
           /\ worker'.pc \notin Holding
           /\ worker'.pc # "idle" => worker'.job = worker.job
           /\ \/ ScheduleRetry(worker.job) \/ MarkCompleted(worker.job, TRUE)
              \/ MarkCompleted(worker.job, FALSE) \/ SetError(worker.job)
           /\ \A i \in JobIds :
                /\ jobs'[i].max = jobs[i].max
                /\ jobs'[i].attempts = jobs[i].attempts
                /\ jobs'[i].scrubbed = jobs[i].scrubbed
                /\ i # worker.job => jobs'[i] = jobs[i]
                /\ jobs[i].status = "none" => jobs'[i] = jobs[i]
                /\ \/ jobs'[i].status = jobs[i].status
                   \/ jobs'[i].status \in {"succeeded", "failed"}
                   \/ /\ jobs'[i].status = "queued" /\ i = worker.job
                      /\ \/ worker.pc \in {"claimed", "resolve"}
                         \/ worker.pc = "executing" /\ AttemptsLeft(i)
<1>1. worker.job \in JobIds /\ worker.pc # "idle"
  BY DEF WriteStep, DeferBackup, AgentUnresolved, ExecuteFails, RecordError,
     ExecuteSucceeds, Panic, TypeOK
<1>2. nextId' = nextId /\ dispatched' = dispatched
  BY DEF WriteStep, DeferBackup, AgentUnresolved, ExecuteFails, RecordError,
     ExecuteSucceeds, Panic
<1>3. worker'.pc \notin Holding /\ (worker'.pc # "idle" => worker'.job = worker.job)
  <2>1. Return \/ Goto("setError") \/ Goto("failover") \/ Goto("post")
    BY DEF WriteStep, DeferBackup, AgentUnresolved, ExecuteFails, RecordError,
       ExecuteSucceeds, Panic
  <2>2. worker \in [pc : WorkerPc, job : 0..MaxJobs, held : 0..MaxAge]
    BY DEF TypeOK
  <2> QED
    BY <2>1, <2>2 DEF Goto, Return, Idle, Holding
<1>4. \/ /\ ScheduleRetry(worker.job)
         /\ \/ worker.pc \in {"claimed", "resolve"}
            \/ worker.pc = "executing" /\ AttemptsLeft(worker.job)
      \/ MarkCompleted(worker.job, TRUE) \/ MarkCompleted(worker.job, FALSE)
      \/ SetError(worker.job)
  BY DEF WriteStep, DeferBackup, AgentUnresolved, ExecuteFails, RecordError,
     ExecuteSucceeds, Panic
<1>5. ASSUME NEW i \in JobIds
      PROVE  /\ jobs'[i].max = jobs[i].max
             /\ jobs'[i].attempts = jobs[i].attempts
             /\ jobs'[i].scrubbed = jobs[i].scrubbed
             /\ i # worker.job => jobs'[i] = jobs[i]
             /\ jobs[i].status = "none" => jobs'[i] = jobs[i]
             /\ \/ jobs'[i].status = jobs[i].status
                \/ jobs'[i].status \in {"succeeded", "failed"}
                \/ /\ jobs'[i].status = "queued" /\ i = worker.job
                   /\ \/ worker.pc \in {"claimed", "resolve"}
                      \/ worker.pc = "executing" /\ AttemptsLeft(i)
  <2>1. CASE /\ ScheduleRetry(worker.job)
             /\ \/ worker.pc \in {"claimed", "resolve"}
                \/ worker.pc = "executing" /\ AttemptsLeft(worker.job)
    BY <1>1, <2>1, WorkerWriteRow
  <2>2. CASE \/ MarkCompleted(worker.job, TRUE) \/ MarkCompleted(worker.job, FALSE)
             \/ SetError(worker.job)
    <3>1. /\ jobs'[i].max = jobs[i].max
          /\ jobs'[i].attempts = jobs[i].attempts
          /\ jobs'[i].scrubbed = jobs[i].scrubbed
          /\ i # worker.job => jobs'[i] = jobs[i]
          /\ jobs[i].status = "none" => jobs'[i] = jobs[i]
      BY <1>1, <2>2, WorkerWriteRow
    <3>2. jobs'[i].status = jobs[i].status \/ jobs'[i].status \in {"succeeded", "failed"}
      <4>1. jobs[worker.job] \in Row
        BY <1>1 DEF TypeOK
      <4>2. CASE jobs' = jobs
        BY <4>2
      <4>3. CASE jobs' = Completed(worker.job, TRUE) \/ jobs' = Completed(worker.job, FALSE)
        <5>1. \/ jobs'[i] = jobs[i]
              \/ jobs'[i] = [jobs[worker.job] EXCEPT !.status = "succeeded", !.age = 0]
              \/ jobs'[i] = [jobs[worker.job] EXCEPT !.status = "failed", !.age = 0]
          BY <1>1, <4>3, UpdatedRow DEF Completed
        <5> QED BY <4>1, <5>1 DEF Row
      <4>4. CASE jobs' = ErrorSet(worker.job)
        BY <1>1, <4>1, <4>4, UpdatedRow DEF ErrorSet, Row
      <4> QED BY <2>2, <4>2, <4>3, <4>4 DEF MarkCompleted, SetError
    <3> QED BY <3>1, <3>2
  <2> QED BY <1>4, <2>1, <2>2
<1> QED
  BY <1>1, <1>2, <1>3, <1>4, <1>5

(* Every step is of one of these six sorts. *)
LEMMA StepCases ==
    ASSUME [Next]_vars
    PROVE  \/ Enqueue \/ Failover \/ PostSuccess
           \/ \E j \in JobIds : ClaimNext(j)
           \/ PassLimit \/ Dispatch
           \/ WriteStep
           \/ OutsideStep
           \/ UNCHANGED vars
BY DEF Next, WorkerStep, WriteStep, OutsideStep

-----------------------------------------------------------------------------
(* The inductive invariant *)

(* The initial state satisfies the inductive invariant. *)
LEMMA IndInit == Init => IndInv
<1> SUFFICES ASSUME Init PROVE IndInv
  OBVIOUS
<1>1. TypeOK
  BY TypeInit
<1>2. HoldInv /\ FreshInv
  BY DEF Init, Idle, HoldInv, FreshInv, Holding, JobIds
<1>3. DispatchInv /\ PayloadKeptWhileActive
  BY JobQueueAssumption
     DEF Init, Idle, NoRow, DispatchInv, PayloadKeptWhileActive, Active
<1> QED
  BY <1>1, <1>2, <1>3 DEF IndInv

(* Ids are handed out in order by every step. *)
LEMMA FreshStep == IndInv /\ [Next]_vars => FreshInv'
<1> SUFFICES ASSUME IndInv, [Next]_vars PROVE FreshInv'
  OBVIOUS
<1>t. TypeOK /\ FreshInv /\ nextId \in Int /\ JobIds \subseteq Int /\ worker.job \in Int
  BY DEF IndInv, TypeOK, JobIds
<1>1. CASE Enqueue \/ Failover \/ PostSuccess
  <2>1. dispatched' = dispatched /\ (worker' = worker \/ worker' = Idle)
    BY <1>1 DEF Enqueue, Failover, PostSuccess, Return
  <2>2. \/ nextId' = nextId /\ jobs' = jobs
        \/ /\ nextId' = nextId + 1
           /\ \A i \in JobIds : i # nextId => jobs'[i] = jobs[i]
    BY <1>1, <1>t, CreateCases, CreateRow
  <2> QED BY <1>t, <2>1, <2>2 DEF FreshInv, Idle
<1>2. CASE \E j \in JobIds : ClaimNext(j)
  <2> PICK j \in JobIds : ClaimNext(j) BY <1>2
  <2>1. j < nextId
    BY <1>t, ClaimRow DEF FreshInv, NoRow
  <2> QED BY <2>1, <1>t, ClaimRow DEF FreshInv, ClaimNext
<1>3. CASE PassLimit \/ Dispatch
  <2>1. nextId' = nextId /\ jobs' = jobs /\ worker'.job = worker.job /\ worker.pc # "idle"
    BY <1>3, <1>t DEF PassLimit, Dispatch, Goto, TypeOK
  <2>2. \A i \in JobIds : i # worker.job => dispatched'[i] = dispatched[i]
    BY <1>3, <1>t DEF PassLimit, Dispatch, TypeOK
  <2> QED BY <1>t, <2>1, <2>2 DEF FreshInv
<1>4. CASE WriteStep
  <2>1. \A i \in JobIds : jobs[i] = NoRow => jobs'[i] = jobs[i]
    BY <1>4, <1>t, WriteStepFacts DEF NoRow
  <2> QED BY <1>4, <1>t, <2>1, WriteStepFacts DEF FreshInv
<1>5. CASE OutsideStep
  <2>1. \A i \in JobIds : jobs[i] = NoRow => jobs'[i] = jobs[i]
    BY <1>5, <1>t, OutsideRow DEF NoRow
  <2>2. worker'.pc # "idle" => worker.pc # "idle" /\ worker'.job = worker.job
    <3>1. worker' = worker \/ worker' = Idle \/ Tick
      BY <1>5 DEF OutsideStep, DeleteRow, CancelRead, CancelUpdate, RetryDue, Restart,
         CleanupStuckRunning, ScrubTerminalPayloads
    <3>2. CASE Tick
      <4>1. worker \in [pc : WorkerPc, job : 0..MaxJobs, held : 0..MaxAge]
        BY <1>t DEF TypeOK
      <4>2. worker' = worker \/ worker' = [worker EXCEPT !.held = Older(@)]
        BY <3>2 DEF Tick
      <4> QED BY <4>1, <4>2
    <3> QED BY <3>1, <3>2 DEF Idle
  <2> QED BY <1>5, <1>t, <2>1, <2>2, OutsideRow DEF FreshInv
<1>6. CASE UNCHANGED vars
  BY <1>6, <1>t DEF vars, FreshInv
<1> QED
  BY <1>1, <1>2, <1>3, <1>4, <1>5, <1>6, StepCases

(* The payload of an active row is never scrubbed by a step. *)
LEMMA PayloadStep == IndInv /\ [Next]_vars => PayloadKeptWhileActive'
<1> SUFFICES ASSUME IndInv, [Next]_vars PROVE PayloadKeptWhileActive'
  OBVIOUS
<1>t. TypeOK /\ PayloadKeptWhileActive /\ HoldInv
  BY DEF IndInv
<1>1. CASE Enqueue \/ Failover \/ PostSuccess
  BY <1>1, <1>t, CreateCases, CreateRow DEF PayloadKeptWhileActive
<1>2. CASE \E j \in JobIds : ClaimNext(j)
  BY <1>2, <1>t, ClaimRow DEF PayloadKeptWhileActive, Active
<1>3. CASE PassLimit \/ Dispatch
  BY <1>3, <1>t DEF PassLimit, Dispatch, PayloadKeptWhileActive
<1>4. CASE WriteStep
  <2> SUFFICES ASSUME NEW i \in JobIds, jobs'[i].status \in Active
               PROVE  ~jobs'[i].scrubbed
    BY DEF PayloadKeptWhileActive
  <2>1. jobs[i].status \in Active
    <3>1. CASE jobs'[i].status = jobs[i].status
      BY <3>1
    <3>2. CASE jobs'[i].status # jobs[i].status
      <4>1. i = worker.job /\ worker.pc \in Holding /\ jobs[i].status # "none"
        BY <1>4, <1>t, <3>2, WriteStepFacts DEF Active, Holding
      <4> QED BY <4>1, <1>t DEF HoldInv, Present, Active
    <3> QED BY <3>1, <3>2
  <2> QED BY <1>4, <1>t, <2>1, WriteStepFacts DEF PayloadKeptWhileActive
<1>5. CASE OutsideStep
  BY <1>5, <1>t, OutsideRow DEF PayloadKeptWhileActive
<1>6. CASE UNCHANGED vars
  BY <1>6, <1>t DEF vars, PayloadKeptWhileActive
<1> QED
  BY <1>1, <1>2, <1>3, <1>4, <1>5, <1>6, StepCases

(* A held row stays running and young: the heart of the argument.  A cancel
   request finds it running, the cleanup finds it too young (ClockOk). *)
LEMMA HoldStep == ClockOk /\ IndInv /\ [Next]_vars => HoldInv'
<1> SUFFICES ASSUME ClockOk, IndInv, [Next]_vars PROVE HoldInv'
  OBVIOUS
<1> USE JobQueueAssumption
<1> DEFINE WT == [pc : WorkerPc, job : 0..MaxJobs, held : 0..MaxAge]
<1>t. TypeOK /\ HoldInv /\ FreshInv /\ worker \in WT
  BY DEF IndInv, TypeOK
<1>1. CASE Enqueue \/ Failover \/ PostSuccess
  <2>1. worker' = Idle \/ (Enqueue /\ worker' = worker)
    BY <1>1 DEF Enqueue, Failover, PostSuccess, Return
  <2>2. CASE worker' = Idle
    BY <2>2 DEF HoldInv, Idle, Holding
  <2>3. CASE worker' = worker /\ worker.pc \in Holding
    <3>1. worker.job \in JobIds /\ worker.job # nextId
      BY <1>t, <2>3 DEF TypeOK, FreshInv, Holding, JobIds
    <3>2. jobs'[worker.job] = jobs[worker.job]
      BY <1>1, <1>t, <3>1, CreateCases, CreateRow
    <3> QED BY <1>t, <2>3, <3>2 DEF HoldInv, Present
  <2> QED BY <2>1, <2>2, <2>3 DEF HoldInv
<1>2. CASE \E j \in JobIds : ClaimNext(j)
  BY <1>2, <1>t, ClaimRow DEF ClaimNext, HoldInv
<1>3. CASE PassLimit \/ Dispatch
  <2>1. /\ worker.pc \in Holding /\ jobs' = jobs
        /\ worker'.job = worker.job /\ worker'.held = worker.held
    BY <1>3, <1>t DEF PassLimit, Dispatch, Goto, Holding
  <2> QED BY <1>t, <2>1 DEF HoldInv, Present
<1>4. CASE WriteStep
  BY <1>4, <1>t, WriteStepFacts DEF HoldInv
<1>5. CASE Tick
  <2> SUFFICES ASSUME worker'.pc \in Holding PROVE HoldInv'
    BY DEF HoldInv
  <2>1. /\ worker.pc \in Holding /\ worker.held < HoldLimit
        /\ worker'.job = worker.job /\ worker'.held = worker.held + 1
    BY <1>5, <1>t DEF Tick, Older
  <2>2. worker.job \in JobIds
    BY <1>t, <2>1 DEF TypeOK, Holding
  <2>3. jobs[worker.job] \in Row
    BY <1>t, <2>2 DEF TypeOK
  <2>4. ASSUME jobs'[worker.job].status # "none"
        PROVE  jobs'[worker.job].status = "running" /\ jobs'[worker.job].age <= worker.held + 1
    <3>1. jobs'[worker.job].status = jobs[worker.job].status
      BY <1>5, <2>2, <2>3 DEF Tick, Row
    <3>2. jobs[worker.job].status = "running" /\ jobs[worker.job].age <= worker.held
      BY <1>t, <2>1, <2>4, <3>1 DEF HoldInv, Present
    <3>3. jobs'[worker.job] = [jobs[worker.job] EXCEPT !.age = Older(jobs[worker.job].age)]
      BY <1>5, <2>2, <3>2 DEF Tick
    <3> QED BY <1>t, <2>3, <3>2, <3>3 DEF Older, Row
  <2> QED BY <1>t, <2>1, <2>4 DEF HoldInv, Present
<1>6. CASE OutsideStep /\ ~Tick
  <2>1. worker' = worker \/ worker' = Idle
    BY <1>6 DEF OutsideStep, DeleteRow, CancelRead, CancelUpdate, RetryDue, Restart,
       CleanupStuckRunning, ScrubTerminalPayloads
  <2>2. CASE worker' = Idle
    BY <2>2 DEF HoldInv, Idle, Holding
  <2>3. CASE worker' = worker /\ worker.pc \in Holding
    <3> DEFINE h == worker.job
    <3>1. h \in JobIds
      BY <1>t, <2>3 DEF TypeOK, Holding
    <3>2. /\ worker.held <= HoldLimit
          /\ jobs[h].status # "none" => jobs[h].status = "running" /\ jobs[h].age <= worker.held
      BY <1>t, <2>3 DEF HoldInv, Present
    <3>3. jobs[h] \in Row
      BY <1>t, <3>1 DEF TypeOK
    <3>4. jobs'[h] = jobs[h] \/ jobs'[h].status = "none"
      <4>1. CASE \E j \in JobIds : DeleteRow(j)
        <5> PICK j \in JobIds : DeleteRow(j) BY <4>1
        <5>1. CASE h = j
          <6>1. jobs'[h] = [jobs[h] EXCEPT !.status = "none", !.delayed = FALSE,
                                           !.age = 0, !.scrubbed = FALSE]
            BY <1>t, <3>1, <5>1, UpdatedRow DEF DeleteRow
          <6> QED BY <6>1, <3>3 DEF Row
        <5>2. CASE h # j
          BY <1>t, <3>1, <5>2, UpdatedRow DEF DeleteRow
        <5> QED BY <5>1, <5>2
      <4>2. CASE \E j \in JobIds : CancelUpdate(j)
        BY <4>2, <1>t, <3>1, <3>2, UpdatedRow DEF CancelUpdate
      <4>3. CASE \E j \in JobIds : RetryDue(j)
        BY <4>3, <1>t, <3>1, <3>2, UpdatedRow DEF RetryDue
      <4>4. CASE CleanupStuckRunning
        <5>1. jobs[h].age \in Int /\ worker.held \in Int
          BY <1>t, <3>3 DEF Row
        <5>2. jobs[h].status = "running" => jobs[h].age + TzAhead <= StaleAfter
          BY <3>2, <5>1 DEF ClockOk
        <5>3. ~Stale(h)
          BY <5>1, <5>2 DEF Stale
        <5> QED BY <4>4, <5>3, <3>1 DEF CleanupStuckRunning
      <4>5. CASE ScrubTerminalPayloads
        <5>1. ~Scrubbable(h)
          BY <3>2 DEF Scrubbable, Terminal
        <5> QED BY <4>5, <5>1, <3>1 DEF ScrubTerminalPayloads
      <4>6. CASE Restart \/ \E j \in JobIds : CancelRead(j)
        BY <4>6 DEF Restart, CancelRead
      <4> QED BY <1>6, <4>1, <4>2, <4>3, <4>4, <4>5, <4>6 DEF OutsideStep
    <3> QED BY <2>3, <3>2, <3>4 DEF HoldInv, Present
  <2> QED BY <2>1, <2>2, <2>3 DEF HoldInv
<1>7. CASE UNCHANGED vars
  BY <1>7, <1>t DEF vars, HoldInv, Present
<1> QED
  BY <1>1, <1>2, <1>3, <1>4, <1>5, <1>6, <1>7, StepCases

(* attempts bounds the executions: a job goes back to the queue only with an
   execution left, whatever spent its attempts. *)
LEMMA DispatchStep == IndInv /\ [Next]_vars => DispatchInv'
<1> SUFFICES ASSUME IndInv, [Next]_vars PROVE DispatchInv'
  OBVIOUS
<1> USE JobQueueAssumption
<1>t. TypeOK /\ DispatchInv /\ FreshInv /\ TypeOK'
  BY TypeStep DEF IndInv
<1>r. /\ worker \in [pc : WorkerPc, job : 0..MaxJobs, held : 0..MaxAge]
      /\ \A i \in JobIds : /\ dispatched[i] \in Nat /\ jobs[i].max \in 1..DefaultMax
                           /\ jobs[i].attempts \in 0..AttemptCap
  BY <1>t DEF TypeOK, Row
<1>1. CASE Enqueue \/ Failover \/ PostSuccess
  <2>1. dispatched' = dispatched /\ (worker' = Idle \/ worker' = worker)
    BY <1>1 DEF Enqueue, Failover, PostSuccess, Return
  <2>2. CASE jobs' = jobs
    BY <1>t, <2>1, <2>2 DEF DispatchInv, Idle
  <2>3. CASE \E k, s : \E m \in 1..DefaultMax : Create(k, s, m)
    <3> PICK k, s : \E m \in 1..DefaultMax : Create(k, s, m)
      BY <2>3
    <3> PICK m \in 1..DefaultMax : Create(k, s, m)
      OBVIOUS
    <3>1. /\ nextId \in JobIds
          /\ jobs'[nextId].max = m /\ jobs'[nextId].attempts = 0
          /\ \A i \in JobIds : i # nextId => jobs'[i] = jobs[i]
      BY <1>t, CreateRow
    <3>2. dispatched[nextId] = 0 /\ (worker.pc # "idle" => worker.job # nextId)
      BY <1>t, <3>1 DEF FreshInv, JobIds
    <3> QED BY <1>t, <2>1, <3>1, <3>2 DEF DispatchInv, Idle
  <2> QED BY <1>1, <1>t, <2>2, <2>3, CreateCases
<1>2. CASE \E j \in JobIds : ClaimNext(j)
  <2> PICK j \in JobIds : ClaimNext(j) BY <1>2
  <2>1. /\ worker'.job = j /\ dispatched' = dispatched
        /\ dispatched[j] < jobs[j].max /\ dispatched[j] <= jobs[j].attempts
    BY <1>t, ClaimRow DEF ClaimNext, DispatchInv
  <2>2. dispatched[j] < jobs'[j].attempts
    BY <1>t, <1>r, <2>1, ClaimRow
  <2> QED BY <1>t, <1>r, <2>1, <2>2, ClaimRow DEF DispatchInv
<1>3. CASE PassLimit
  <2>1. /\ worker.pc = "claimed" /\ worker'.job = worker.job
        /\ jobs' = jobs /\ dispatched' = dispatched
    BY <1>3, <1>r DEF PassLimit, Goto
  <2> QED BY <1>t, <2>1 DEF DispatchInv
<1>4. CASE Dispatch
  <2>1. /\ worker.pc = "resolve" /\ worker'.pc = "executing" /\ jobs' = jobs
        /\ worker.job \in JobIds
    BY <1>4, <1>t, <1>r DEF Dispatch, Goto, TypeOK
  <2>2. \A i \in JobIds : dispatched'[i] = IF i = worker.job THEN dispatched[i] + 1
                                                              ELSE dispatched[i]
    BY <1>4, <1>t, <2>1 DEF Dispatch, TypeOK
  <2>3. jobs[worker.job].status # "queued"
    <3>1. HoldInv
      BY DEF IndInv
    <3> QED BY <2>1, <3>1 DEF HoldInv, Holding, Present
  <2> QED BY <1>t, <1>r, <2>1, <2>2, <2>3 DEF DispatchInv
<1>5. CASE WriteStep
  <2>1. /\ worker.job \in JobIds /\ dispatched' = dispatched /\ worker'.pc \notin Holding
        /\ \A i \in JobIds :
             /\ jobs'[i].max = jobs[i].max /\ jobs'[i].attempts = jobs[i].attempts
             /\ jobs'[i].status = "queued" =>
                  \/ jobs[i].status = "queued"
                  \/ i = worker.job /\ \/ worker.pc \in {"claimed", "resolve"}
                                       \/ AttemptsLeft(i)
    BY <1>5, <1>t, WriteStepFacts
  <2> QED BY <1>t, <1>r, <2>1 DEF DispatchInv, AttemptsLeft, Holding
<1>6. CASE OutsideStep
  <2>1. worker'.pc # "idle" => worker'.pc = worker.pc /\ worker'.job = worker.job
    <3>1. worker' = worker \/ worker' = Idle \/ worker' = [worker EXCEPT !.held = Older(@)]
      BY <1>6 DEF OutsideStep, DeleteRow, CancelRead, CancelUpdate, RetryDue, Restart,
         CleanupStuckRunning, ScrubTerminalPayloads, Tick
    <3> QED BY <3>1, <1>r DEF Idle
  <2>2. /\ dispatched' = dispatched
        /\ \A i \in JobIds :
             /\ jobs'[i].max = jobs[i].max /\ jobs'[i].attempts = jobs[i].attempts
             /\ jobs'[i].status = "queued" => jobs[i].status = "queued"
    BY <1>6, <1>t, OutsideRow DEF Active
  <2> QED BY <1>t, <1>r, <2>1, <2>2 DEF DispatchInv
<1>7. CASE UNCHANGED vars
  BY <1>7, <1>t DEF vars, DispatchInv
<1> QED
  BY <1>1, <1>2, <1>3, <1>4, <1>5, <1>6, <1>7, StepCases

(* The inductive invariant holds in every reachable state, on a host whose
   clock satisfies ClockOk. *)
THEOREM Inductive == ClockOk => (Spec => []IndInv)
<1> SUFFICES ASSUME ClockOk PROVE Spec => []IndInv
  OBVIOUS
<1>1. Init => IndInv
  BY IndInit
<1>2. IndInv /\ [Next]_vars => IndInv'
  BY TypeStep, HoldStep, FreshStep, DispatchStep, PayloadStep DEF IndInv
<1> QED
  BY <1>1, <1>2, PTL DEF Spec

-----------------------------------------------------------------------------
(* Results *)

(* No cancel request and no stuck-job cleanup takes a job away from the worker
   that holds it, if the longest hold stays below the cutoff. *)
THEOREM HeldJobSafe == ClockOk => (Spec => []HeldJobIsRunning)
<1>1. IndInv => HeldJobIsRunning
  BY DEF IndInv, HoldInv, HeldJobIsRunning, Present
<1> QED
  BY <1>1, Inductive, PTL

(* agent.Execute is called at most max_attempts times per job. *)
THEOREM DispatchBounded == ClockOk => (Spec => []DispatchBound)
<1>1. IndInv => DispatchBound
  BY DEF IndInv, DispatchInv, DispatchBound
<1> QED
  BY <1>1, Inductive, PTL

(* Payloads are scrubbed only from jobs that have ended. *)
THEOREM PayloadSafe == ClockOk => (Spec => []PayloadKeptWhileActive)
<1>1. IndInv => PayloadKeptWhileActive
  BY DEF IndInv
<1> QED
  BY <1>1, Inductive, PTL

(* A job that has ended never becomes active again. *)
THEOREM NeverResurrected == ClockOk => (Spec => NoResurrection)
<1>1. IndInv /\ [Next]_vars =>
        [\A j \in JobIds : jobs[j].status \in Terminal => jobs'[j].status \notin Active]_vars
  <2> SUFFICES ASSUME IndInv, [Next]_vars, NEW j \in JobIds, jobs[j].status \in Terminal
               PROVE  jobs'[j].status \notin Active
    OBVIOUS
  <2>t. TypeOK /\ HoldInv /\ FreshInv
    BY DEF IndInv
  <2>d. jobs[j].status \notin Active
    BY DEF Terminal, Active
  <2>1. CASE Enqueue \/ Failover \/ PostSuccess
    <3>1. nextId \in JobIds => jobs[nextId].status = "none"
      BY <2>t DEF FreshInv, NoRow, TypeOK, JobIds
    <3>2. jobs'[j] = jobs[j]
      BY <2>1, <2>t, <3>1, CreateCases, CreateRow DEF Terminal
    <3> QED BY <2>d, <3>2
  <2>2. CASE \E i \in JobIds : ClaimNext(i)
    BY <2>2, <2>t, <2>d, ClaimRow DEF Active
  <2>3. CASE PassLimit \/ Dispatch
    BY <2>3, <2>d DEF PassLimit, Dispatch
  <2>4. CASE WriteStep
    <3>1. worker.pc \in Holding => worker.job # j
      BY <2>t DEF HoldInv, Present, Terminal
    <3> QED BY <2>4, <2>t, <2>d, <3>1, WriteStepFacts DEF Active, Holding
  <2>5. CASE OutsideStep
    BY <2>5, <2>t, <2>d, OutsideRow
  <2>6. CASE UNCHANGED vars
    BY <2>6, <2>d DEF vars
  <2> QED
    BY <2>1, <2>2, <2>3, <2>4, <2>5, <2>6, StepCases
<1> QED
  BY <1>1, Inductive, PTL DEF Spec, NoResurrection
-----------------------------------------------------------------------------
(* The queue implements JobContract *)

\* max_attempts of each job, as the contract sees it.
ContractLimit == [j \in JobIds |-> jobs[j].max]

(* What a step does to the contract's view of the table when it changes the
   status of one job at most, and neither max_attempts nor the id counter. *)
LEMMA ContractMove ==
    ASSUME TypeOK, NEW j \in JobIds, j < nextId, nextId' = nextId,
           \A i \in JobIds : jobs'[i].max = jobs[i].max,
           \A i \in JobIds : i # j => jobs'[i].status = jobs[i].status
    PROVE  /\ ContractLimit' = ContractLimit
           /\ ContractState' = [ContractState EXCEPT ![j] =
                                  IF jobs'[j].status = "none" THEN "gone" ELSE jobs'[j].status]
           /\ ContractState[j] = IF jobs[j].status = "none" THEN "gone" ELSE jobs[j].status
<1>1. ContractLimit' = ContractLimit
  BY DEF ContractLimit
<1>2. nextId \in Int /\ JobIds \subseteq Int
  BY JobQueueAssumption DEF TypeOK, JobIds
<1>3. ContractState' = [ContractState EXCEPT ![j] =
                          IF jobs'[j].status = "none" THEN "gone" ELSE jobs'[j].status]
  <2>1. \A i \in JobIds :
          ContractState'[i] = IF i = j THEN IF jobs'[j].status = "none" THEN "gone"
                                            ELSE jobs'[j].status
                              ELSE ContractState[i]
    <3> TAKE i \in JobIds
    <3>1. CASE i = j
      BY <1>2, <3>1 DEF ContractState, Present
    <3>2. CASE i # j
      BY <1>2, <3>2 DEF ContractState, Present
    <3> QED BY <3>1, <3>2
  <2>2. ContractState' = [i \in JobIds |-> ContractState'[i]]
    BY DEF ContractState
  <2>3. ContractState = [i \in JobIds |-> ContractState[i]]
    BY DEF ContractState
  <2> QED BY <2>1, <2>2, <2>3
<1> QED
  BY <1>1, <1>2, <1>3 DEF ContractState, Present

(* A step that changes neither a status nor max_attempts, the id counter or the
   number of executions is not visible in the contract. *)
LEMMA ContractStutter ==
    ASSUME nextId' = nextId, dispatched' = dispatched,
           \A i \in JobIds : jobs'[i].max = jobs[i].max /\ jobs'[i].status = jobs[i].status
    PROVE  UNCHANGED Contract!cvars
BY DEF Contract!cvars, ContractState, Present

(* Inserting a row submits a job. *)
LEMMA CreateSubmits ==
    ASSUME IndInv, NEW k, NEW s, NEW m \in 1..DefaultMax, Create(k, s, m), dispatched' = dispatched
    PROVE  Contract!CNext
<1>t. TypeOK /\ FreshInv
  BY DEF IndInv
<1>1. /\ nextId \in JobIds /\ nextId' = nextId + 1
      /\ jobs'[nextId].status = "queued" /\ jobs'[nextId].max = m
      /\ \A i \in JobIds : i # nextId => jobs'[i] = jobs[i]
  BY <1>t, CreateRow
<1>2. nextId \in Int /\ JobIds \subseteq Int
  BY <1>t, JobQueueAssumption DEF TypeOK, JobIds
<1> PICK j \in JobIds : j = nextId
  BY <1>1
<1>3. ContractState[j] = "new"
  BY <1>1, <1>2 DEF ContractState
<1>4. ContractState' = [ContractState EXCEPT ![j] = "queued"]
  <2>1. \A i \in JobIds : i >= nextId' <=> i >= nextId /\ i # nextId
    BY <1>1, <1>2
  <2> QED BY <1>1, <1>2, <2>1 DEF ContractState, Present
<1>5. ContractLimit' = [ContractLimit EXCEPT ![j] = m]
  BY <1>1 DEF ContractLimit
<1>6. Contract!Submit(j)
  BY <1>3, <1>4, <1>5 DEF Contract!Submit, Contract!Move, ContractLimit
<1> QED
  BY <1>6 DEF Contract!CNext

(* A write of the worker requeues, completes or fails the job it runs, or is
   lost; a panic fails it wherever it stands. *)
LEMMA WriteImplements ==
    ASSUME IndInv, WriteStep
    PROVE  Contract!CNext \/ UNCHANGED Contract!cvars
<1> DEFINE w == worker.job
<1>t. TypeOK /\ FreshInv /\ HoldInv /\ DispatchInv
  BY DEF IndInv
<1>1. /\ w \in JobIds /\ worker.pc # "idle"
      /\ nextId' = nextId /\ dispatched' = dispatched
      /\ \A i \in JobIds :
           /\ jobs'[i].max = jobs[i].max
           /\ i # w => jobs'[i] = jobs[i]
           /\ jobs[i].status = "none" => jobs'[i] = jobs[i]
           /\ \/ jobs'[i].status = jobs[i].status
              \/ jobs'[i].status \in {"succeeded", "failed"}
              \/ /\ jobs'[i].status = "queued" /\ i = w
                 /\ \/ worker.pc \in {"claimed", "resolve"}
                    \/ worker.pc = "executing" /\ AttemptsLeft(i)
  BY <1>t, WriteStepFacts
<1>2. w < nextId
  BY <1>1, <1>t DEF FreshInv
<1>3. /\ ContractLimit' = ContractLimit
      /\ ContractState' = [ContractState EXCEPT ![w] =
                             IF jobs'[w].status = "none" THEN "gone" ELSE jobs'[w].status]
      /\ ContractState[w] = IF jobs[w].status = "none" THEN "gone" ELSE jobs[w].status
  BY <1>1, <1>2, <1>t, ContractMove
<1>r. /\ dispatched[w] \in Nat /\ jobs[w].max \in 1..DefaultMax
      /\ jobs[w].attempts \in 0..AttemptCap /\ jobs[w].status \in Status
  BY <1>1, <1>t DEF TypeOK, Row
<1>4. CASE jobs'[w].status = jobs[w].status
  BY <1>1, <1>4, ContractStutter
<1>5. CASE jobs'[w].status = "queued" /\ jobs[w].status # "queued"
  <2>1. jobs[w].status # "none"
    BY <1>1, <1>5
  <2>2. worker.pc \in Holding /\ (worker.pc \in {"claimed", "resolve"} \/ AttemptsLeft(w))
    BY <1>1, <1>5 DEF Holding
  <2>3. jobs[w].status = "running"
    BY <2>1, <2>2, <1>t DEF HoldInv, Present
  <2>4. dispatched[w] < jobs[w].max
    BY <2>2, <1>1, <1>r, <1>t DEF DispatchInv, AttemptsLeft
  <2>5. Contract!Requeue(w)
    BY <1>1, <1>3, <1>5, <2>3, <2>4 DEF Contract!Requeue, Contract!Move, ContractLimit
  <2> QED BY <1>1, <2>5 DEF Contract!CNext
<1>6. CASE jobs'[w].status = "failed" /\ jobs[w].status # "failed"
  <2>1. jobs[w].status # "none"
    BY <1>1, <1>6
  <2>2. ContractState[w] \notin {"new", "gone"}
    BY <1>3, <1>r, <2>1 DEF Status, Active, Terminal
  <2>3. Contract!Fail(w)
    BY <1>1, <1>3, <1>6, <2>2 DEF Contract!Fail, Contract!Move, ContractLimit
  <2> QED BY <1>1, <2>3 DEF Contract!CNext
<1>7. CASE jobs'[w].status = "succeeded" /\ jobs[w].status # "succeeded"
  <2>1. jobs[w].status # "none"
    BY <1>1, <1>7
  <2>2. ExecuteSucceeds
    <3>1. ASSUME jobs' \in {jobs, Requeued(w), Completed(w, FALSE), ErrorSet(w)}
          PROVE  jobs'[w].status = "succeeded" => jobs[w].status = "succeeded"
      <4> PICK v \in JobIds : v = worker.job
        BY <1>1
      <4>t. jobs[v] \in Row
        BY <1>1, <1>t DEF TypeOK
      <4>1. CASE jobs' = jobs
        BY <4>1
      <4>2. CASE jobs' = Requeued(v)
        <5>1. jobs'[v] = IF Present(v)
                         THEN [jobs[v] EXCEPT !.status = "queued", !.delayed = TRUE, !.age = 0]
                         ELSE jobs[v]
          BY <4>2, <1>t, UpdatedRow DEF Requeued
        <5> QED BY <5>1, <4>t DEF Row
      <4>3. CASE jobs' = Completed(v, FALSE)
        <5>1. jobs'[v] = IF Present(v) THEN [jobs[v] EXCEPT !.status = "failed", !.age = 0]
                         ELSE jobs[v]
          BY <4>3, <1>t, UpdatedRow DEF Completed
        <5> QED BY <5>1, <4>t DEF Row
      <4>4. CASE jobs' = ErrorSet(v)
        <5>1. jobs'[v] = IF Present(v) THEN [jobs[v] EXCEPT !.age = 0] ELSE jobs[v]
          BY <4>4, <1>t, UpdatedRow DEF ErrorSet
        <5> QED BY <5>1, <4>t DEF Row
      <4> QED BY <3>1, <4>1, <4>2, <4>3, <4>4
    <3>2. ~ExecuteSucceeds => jobs' \in {jobs, Requeued(w), Completed(w, FALSE), ErrorSet(w)}
      BY DEF WriteStep, DeferBackup, AgentUnresolved, ExecuteFails, RecordError, Panic,
             ScheduleRetry, MarkCompleted, SetError
    <3> QED BY <1>7, <3>1, <3>2
  <2>3. jobs[w].status = "running"
    BY <2>1, <2>2, <1>t DEF ExecuteSucceeds, HoldInv, Holding, Present
  <2>4. Contract!Succeed(w)
    BY <1>1, <1>3, <1>7, <2>3 DEF Contract!Succeed, Contract!Move, ContractLimit
  <2> QED BY <1>1, <2>4 DEF Contract!CNext
<1> QED
  BY <1>1, <1>4, <1>5, <1>6, <1>7

(* Deletions, cancellations and the stuck-job cleanup are steps of the contract;
   time, restarts, reads and the scrubbing of payloads are not visible in it. *)
LEMMA OutsideImplements ==
    ASSUME IndInv, OutsideStep
    PROVE  Contract!CNext \/ UNCHANGED Contract!cvars
<1>t. TypeOK /\ FreshInv
  BY DEF IndInv
<1>1. /\ nextId' = nextId /\ dispatched' = dispatched
      /\ \A i \in JobIds : jobs'[i].max = jobs[i].max
  BY <1>t, OutsideRow
<1>2. ASSUME NEW j \in JobIds, jobs[j].status # "none"
      PROVE  j < nextId
  BY <1>2, <1>t, JobQueueAssumption DEF FreshInv, NoRow, TypeOK, JobIds
<1>r. \A j \in JobIds : jobs[j] \in Row /\ jobs[j].status \in Status
  BY <1>t DEF TypeOK, Row
<1>3. CASE \E j \in JobIds : DeleteRow(j)
  <2> PICK j \in JobIds : DeleteRow(j) BY <1>3
  <2>1. /\ jobs[j].status # "none" /\ jobs'[j].status = "none"
        /\ \A i \in JobIds : i # j => jobs'[i] = jobs[i]
    <3>1. Present(j)
      BY DEF DeleteRow
    <3>2. \A i \in JobIds :
            jobs'[i] = IF i = j THEN [jobs[j] EXCEPT !.status = "none", !.delayed = FALSE,
                                                     !.age = 0, !.scrubbed = FALSE]
                       ELSE jobs[i]
      BY <1>t, <3>1, UpdatedRow DEF DeleteRow
    <3> QED BY <1>r, <3>1, <3>2 DEF Present, Row
  <2>2. /\ ContractLimit' = ContractLimit
        /\ ContractState' = [ContractState EXCEPT ![j] = "gone"]
        /\ ContractState[j] = jobs[j].status
    BY <1>t, <1>1, <1>2, <2>1, ContractMove
  <2>3. Contract!Delete(j)
    BY <1>1, <1>r, <2>1, <2>2
       DEF Contract!Delete, Contract!Move, ContractLimit, Status, Active, Terminal
  <2> QED BY <2>3 DEF Contract!CNext
<1>4. CASE \E j \in JobIds : CancelUpdate(j)
  <2> PICK j \in JobIds : CancelUpdate(j) BY <1>4
  <2>1. CASE jobs[j].status = "queued"
    <3>1. /\ jobs'[j].status = "canceled"
          /\ \A i \in JobIds : i # j => jobs'[i] = jobs[i]
      <4>1. Present(j)
        BY <2>1 DEF Present
      <4>2. \A i \in JobIds :
              jobs'[i] = IF i = j THEN [jobs[j] EXCEPT !.status = "canceled", !.age = 0]
                         ELSE jobs[i]
        BY <1>t, <2>1, <4>1, UpdatedRow DEF CancelUpdate
      <4> QED BY <1>r, <4>2 DEF Row
    <3>2. /\ ContractLimit' = ContractLimit
          /\ ContractState' = [ContractState EXCEPT ![j] = "canceled"]
          /\ ContractState[j] = "queued"
      BY <1>t, <1>1, <1>2, <2>1, <3>1, ContractMove
    <3>3. Contract!Cancel(j)
      BY <1>1, <3>2 DEF Contract!Cancel, Contract!Move, ContractLimit
    <3> QED BY <3>3 DEF Contract!CNext
  <2>2. CASE jobs[j].status # "queued"
    BY <1>1, <2>2, ContractStutter DEF CancelUpdate
  <2> QED BY <2>1, <2>2
<1>5. CASE CleanupStuckRunning
  <2> DEFINE S == {j \in JobIds : Stale(j)}
  <2>1. \A i \in JobIds : /\ i \in S => jobs[i].status = "running" /\ jobs'[i].status = "failed"
                          /\ i \notin S => jobs'[i].status = jobs[i].status
    BY <1>5, <1>r DEF CleanupStuckRunning, Stale, Row
  <2>2. \A i \in S : ContractState[i] = "running"
    BY <1>2, <1>t, <2>1, JobQueueAssumption DEF ContractState, Present, TypeOK, JobIds
  <2>3. ContractState' = [i \in JobIds |-> IF i \in S THEN "failed" ELSE ContractState[i]]
    <3>1. \A i \in S : i < nextId
      BY <1>2, <2>1
    <3> QED
      BY <1>1, <1>t, <2>1, <3>1, JobQueueAssumption DEF ContractState, Present, TypeOK, JobIds
  <2>4. ContractLimit' = ContractLimit
    BY <1>1 DEF ContractLimit
  <2>5. Contract!Sweep(S)
    BY <1>1, <2>2, <2>3, <2>4 DEF Contract!Sweep, ContractLimit
  <2> QED BY <2>5 DEF Contract!CNext
<1>6. CASE \/ Restart \/ ScrubTerminalPayloads \/ Tick
           \/ \E j \in JobIds : CancelRead(j) \/ RetryDue(j)
  <2>1. \A i \in JobIds : jobs'[i].status = jobs[i].status
    <3>1. CASE \E j \in JobIds : RetryDue(j)
      BY <3>1, <1>t, <1>r, UpdatedRow DEF RetryDue, Row
    <3>2. CASE \/ Restart \/ \E j \in JobIds : CancelRead(j)
      BY <3>2 DEF Restart, CancelRead
    <3>3. CASE ScrubTerminalPayloads \/ Tick
      <4> TAKE i \in JobIds
      <4>1. \/ jobs'[i] = jobs[i]
            \/ jobs'[i] = [jobs[i] EXCEPT !.scrubbed = TRUE, !.age = 0]
            \/ jobs'[i] = [jobs[i] EXCEPT !.age = Older(@)]
        BY <3>3 DEF ScrubTerminalPayloads, Tick
      <4> QED BY <1>r, <4>1 DEF Row
    <3> QED BY <1>6, <3>1, <3>2, <3>3
  <2> QED BY <1>1, <2>1, ContractStutter
<1> QED
  BY <1>3, <1>4, <1>5, <1>6 DEF OutsideStep

(* The queue implements JobContract: seen job by job, whatever crashes, lost
   writes, cancellations and cleanups do, a job is executed at most max_attempts
   times, only while running, and never becomes active again. *)
THEOREM QueueImplementsContract == ClockOk => (Spec => ImplementsContract)
<1>1. Init => Contract!CInit
  BY JobQueueAssumption DEF Init, NoRow, Contract!CInit, ContractState, JobIds
<1>2. IndInv /\ [Next]_vars => [Contract!CNext]_(Contract!cvars)
  <2> SUFFICES ASSUME IndInv, [Next]_vars
               PROVE  Contract!CNext \/ UNCHANGED Contract!cvars
    OBVIOUS
  <2>t. TypeOK /\ FreshInv /\ HoldInv /\ DispatchInv
    BY DEF IndInv
  <2>1. CASE Enqueue \/ Failover \/ PostSuccess
    <3>1. dispatched' = dispatched
      BY <2>1 DEF Enqueue, Failover, PostSuccess
    <3>2. CASE jobs' = jobs /\ nextId' = nextId
      BY <3>1, <3>2, ContractStutter
    <3>3. CASE \E k, s : \E m \in 1..DefaultMax : Create(k, s, m)
      BY <3>1, <3>3, CreateSubmits
    <3> QED BY <2>1, <2>t, <3>2, <3>3, CreateCases
  <2>2. CASE \E j \in JobIds : ClaimNext(j)
    <3> PICK j \in JobIds : ClaimNext(j) BY <2>2
    <3>1. /\ jobs[j].status = "queued" /\ jobs'[j].status = "running"
          /\ jobs'[j].max = jobs[j].max /\ nextId' = nextId /\ dispatched' = dispatched
          /\ \A i \in JobIds : i # j => jobs'[i] = jobs[i]
      BY <2>t, ClaimRow DEF ClaimNext
    <3>2. j < nextId
      BY <2>t, <3>1, JobQueueAssumption DEF FreshInv, NoRow, TypeOK, JobIds
    <3>3. /\ ContractLimit' = ContractLimit
          /\ ContractState' = [ContractState EXCEPT ![j] = "running"]
          /\ ContractState[j] = "queued"
      BY <2>t, <3>1, <3>2, ContractMove
    <3>4. Contract!Start(j)
      BY <3>1, <3>3 DEF Contract!Start, Contract!Move, ContractLimit
    <3> QED BY <3>4 DEF Contract!CNext
  <2>3. CASE PassLimit
    BY <2>3, ContractStutter DEF PassLimit
  <2>4. CASE Dispatch
    <3>1. /\ worker.pc = "resolve" /\ worker.job \in JobIds /\ worker.job < nextId
          /\ jobs' = jobs /\ nextId' = nextId
          /\ dispatched' = [dispatched EXCEPT ![worker.job] = @ + 1]
      BY <2>4, <2>t DEF Dispatch, TypeOK, FreshInv
    <3>2. dispatched[worker.job] < jobs[worker.job].max
      BY <2>t, <3>1 DEF DispatchInv
    <3>3. ContractState[worker.job] \in {"running", "gone"}
      BY <2>t, <3>1, JobQueueAssumption
         DEF HoldInv, Holding, ContractState, Present, TypeOK, JobIds
    <3>4. ContractState' = ContractState /\ ContractLimit' = ContractLimit
      BY <3>1 DEF ContractState, Present, ContractLimit
    <3>5. Contract!Run(worker.job)
      BY <3>1, <3>2, <3>3, <3>4 DEF Contract!Run, ContractLimit
    <3> QED BY <3>1, <3>5 DEF Contract!CNext
  <2>5. CASE WriteStep
    BY <2>5, WriteImplements
  <2>6. CASE OutsideStep
    BY <2>6, OutsideImplements
  <2>7. CASE UNCHANGED vars
    BY <2>7, ContractStutter DEF vars
  <2> QED
    BY <2>1, <2>2, <2>3, <2>4, <2>5, <2>6, <2>7, StepCases
<1> QED
  BY <1>1, <1>2, Inductive, PTL DEF Spec, ImplementsContract, Contract!CSpec
=============================================================================
