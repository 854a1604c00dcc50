---------------------------- MODULE JobContract -----------------------------
(***************************************************************************)
(* What the job queue promises about one job, with no worker, no clock and *)
(* no table: a job is executed at most limit times, only while it is       *)
(* running (or was deleted under its execution), and once it has ended it  *)
(* never becomes active again.  JobQueue implements this specification.    *)
(***************************************************************************)
EXTENDS Integers

CONSTANTS
    Jobs,        \* job ids
    MaxLimit     \* largest max_attempts

VARIABLES
    state,       \* new | queued | running | succeeded | failed | canceled | gone
    limit,       \* the job's max_attempts
    runs         \* executions started

cvars == <<state, limit, runs>>

Ended == {"succeeded", "failed", "canceled"}

CInit ==
    /\ state = [j \in Jobs |-> "new"]
    /\ limit = [j \in Jobs |-> MaxLimit]
    /\ runs = [j \in Jobs |-> 0]

Move(j, s) == state' = [state EXCEPT ![j] = s]

Submit(j) ==
    /\ state[j] = "new"
    /\ Move(j, "queued")
    /\ \E m \in 1..MaxLimit : limit' = [limit EXCEPT ![j] = m]
    /\ UNCHANGED runs

Start(j) == state[j] = "queued" /\ Move(j, "running") /\ UNCHANGED <<limit, runs>>

Run(j) ==
    /\ state[j] \in {"running", "gone"}
    /\ runs[j] < limit[j]
    /\ runs' = [runs EXCEPT ![j] = @ + 1]
    /\ UNCHANGED <<state, limit>>

\* Only a job with executions left goes back to the queue.
Requeue(j) ==
    /\ state[j] = "running"
    /\ runs[j] < limit[j]
    /\ Move(j, "queued")
    /\ UNCHANGED <<limit, runs>>

Succeed(j) == state[j] = "running" /\ Move(j, "succeeded") /\ UNCHANGED <<limit, runs>>

\* Giving up, or recovering from a panic at any point of the job's handling.
Fail(j) ==
    /\ state[j] \notin {"new", "gone"}
    /\ Move(j, "failed")
    /\ UNCHANGED <<limit, runs>>

Cancel(j) == state[j] = "queued" /\ Move(j, "canceled") /\ UNCHANGED <<limit, runs>>

Delete(j) ==
    /\ state[j] \notin {"new", "gone"}
    /\ Move(j, "gone")
    /\ UNCHANGED <<limit, runs>>

\* Abandoned executions are given up together.
Sweep(S) ==
    /\ \A j \in S : state[j] = "running"
    /\ state' = [j \in Jobs |-> IF j \in S THEN "failed" ELSE state[j]]
    /\ UNCHANGED <<limit, runs>>

CNext ==
    \/ \E j \in Jobs : \/ Submit(j) \/ Start(j) \/ Run(j) \/ Requeue(j)
                       \/ Succeed(j) \/ Fail(j) \/ Cancel(j) \/ Delete(j)
    \/ \E S \in SUBSET Jobs : Sweep(S)

CSpec == CInit /\ [][CNext]_cvars
=============================================================================
