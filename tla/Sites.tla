------------------------------- MODULE Sites --------------------------------
(***************************************************************************)
(* Sites and their app processes: the API handlers that create, delete,    *)
(* start, stop, restart and reconfigure a site (internal/apihttp/sites.go, *)
(* app_process.go), the sites table (internal/store/sites.go), the worker  *)
(* that carries their jobs to the agent and writes the outcome back        *)
(* (internal/jobs/worker.go), and what the agent keeps on the host         *)
(* (internal/agenthttp/router.go, app_process.go).                         *)
(*                                                                         *)
(* A handler is a sequence of statements, each a step of its own: it reads *)
(* the row once and writes back what it read.  Of the job queue only what  *)
(* orders the jobs is kept: the oldest due job is claimed, a failed one    *)
(* waits for its retry.                                                    *)
(***************************************************************************)
EXTENDS Integers, FiniteSets, FiniteSetsExt

CONSTANTS
    Domains,
    Runtimes,      \* "static" (also php), "node" (also go, python) and
                   \* "docker" (also proxy: managed, without a port at first)
    Workload,      \* the operations the requests ask for
    Requests,      \* API requests that may overlap
    MaxSites,      \* bound: sites ever inserted (AUTOINCREMENT)
    MaxJobs,       \* bound: jobs ever inserted
    MaxPort,       \* app ports are 1..MaxPort (30000..40000 in the code)
    Quota,         \* the owner's max_sites
    MaxAttempts,   \* a job's max_attempts (3 in the code)
    SameHost,      \* the panel and the agent run on one host
    Faults         \* "insert": an INSERT may fail; "crash": the process may stop

AppOps == {"app.start", "app.stop", "app.restart"}
Ops == AppOps \cup {"site.create", "site.delete", "config"}

ASSUME SitesAssumption ==
    /\ Workload \subseteq Ops
    /\ Domains # {} /\ Requests # {}
    /\ Runtimes # {} /\ Runtimes \subseteq {"static", "node", "docker"}
    /\ {MaxSites, MaxJobs, MaxPort, Quota, MaxAttempts} \subseteq Nat \ {0}
    /\ SameHost \in BOOLEAN /\ Faults \subseteq {"insert", "crash"}

VARIABLES
    sites,       \* the sites table; status "none": not inserted yet, "gone": deleted; app is app_status
    nextSite,
    jobs,        \* the jobs table: AppOps, "site.create", "site.delete", "ssl.issue"
    nextJob,
    requests,    \* where each handler stands and what it has read
    worker,      \* [pc, job, up]
    vhost,       \* per domain, the port its nginx vhost proxies to
    unit,        \* per site, the port in its systemd unit
    up,          \* per site, whether the app process runs
    overlapped   \* history: two requests were choosing a domain or a port at once

vars == <<sites, nextSite, jobs, nextJob, requests, worker, vhost, unit, up, overlapped>>
db == <<sites, nextSite, jobs, nextJob>>
host == <<vhost, unit, up>>

SiteIds == 1..MaxSites
JobIds == 1..MaxJobs
NoPort == 0      \* app_port NULL; a vhost that proxies to no app
Absent == -1     \* no vhost
AppPorts == 1..MaxPort
AnyDomain == CHOOSE d \in Domains : TRUE
AnyRuntime == CHOOSE t \in Runtimes : TRUE

NoJob == [state |-> "none", type |-> "site.create", site |-> 0, domain |-> AnyDomain,
          port |-> NoPort, attempts |-> 0]
Resting == [pc |-> "idle", op |-> "config", site |-> 0, domain |-> AnyDomain,
            runtime |-> AnyRuntime, port |-> NoPort, old |-> NoPort, app |-> "stopped"]
Idle == [pc |-> "idle", job |-> NoJob, id |-> 0, up |-> FALSE]

Init ==
    /\ sites = [s \in SiteIds |-> [status |-> "none", domain |-> AnyDomain,
                                   runtime |-> AnyRuntime, port |-> NoPort, ssl |-> FALSE, app |-> "stopped"]]
    /\ nextSite = 1
    /\ jobs = [j \in JobIds |-> NoJob]
    /\ nextJob = 1
    /\ requests = [r \in Requests |-> Resting]
    /\ worker = Idle
    /\ vhost = [d \in Domains |-> Absent]
    /\ unit = [s \in SiteIds |-> NoPort]
    /\ up = [s \in SiteIds |-> FALSE]
    /\ overlapped = FALSE

-----------------------------------------------------------------------------
(* The sites table. *)

Exists(s) == s \in SiteIds /\ sites[s].status \in {"pending", "active"}
Live == {s \in SiteIds : Exists(s)}

\* UPDATE sites SET ... WHERE id = s; no effect without the row.
UpdateSite(s, row) == sites' = IF Exists(s) THEN [sites EXCEPT ![s] = row] ELSE sites

Listening == IF SameHost THEN {unit[s] : s \in {x \in SiteIds : up[x]}} ELSE {}

\* FindFreePort looks at every row, CheckPortAvailable at the other sites'; both
\* try to listen, which port 0 never refuses.
FreePorts == AppPorts \ ({sites[s].port : s \in Live} \cup Listening)
PortAvailable(s, p) ==
    /\ p # NoPort => p \notin Listening
    /\ p \notin {sites[x].port : x \in Live \ {s}} \ {NoPort}

-----------------------------------------------------------------------------
(* Handlers.  Goto moves request r on; Answer ends it. *)

Goto(r, pc) == requests' = [requests EXCEPT ![r].pc = pc]
Answer(r) == requests' = [requests EXCEPT ![r] = Resting]

\* Nothing holds a domain or a port between the look at it and the write:
\* Choosing requests have yet to write the one they take.
Takes == {"site.create", "config", "app.start"}
Choosing(q) ==
    requests[q].op \in Takes /\ requests[q].pc \in {"domain", "port", "insert", "check", "write"}
Begins(r, op) ==
    overlapped' = (overlapped \/ (op \in Takes /\ \E q \in Requests \ {r} : Choosing(q)))

\* POST /sites: the owner's quota, then the domain, then a port.
CreateSite(r) ==
    /\ requests[r].pc = "idle" /\ "site.create" \in Workload
    /\ Cardinality(Live) < Quota
    /\ \E d \in Domains, t \in Runtimes :
          requests' = [requests EXCEPT ![r] =
                         [Resting EXCEPT !.pc = "domain", !.op = "site.create",
                                         !.domain = d, !.runtime = t]]
    /\ Begins(r, "site.create")
    /\ UNCHANGED <<db, worker, host>>

CheckDomain(r) ==
    /\ requests[r].pc = "domain"
    /\ IF \E s \in Live : sites[s].domain = requests[r].domain
       THEN Answer(r)
       ELSE Goto(r, IF requests[r].runtime = "node" THEN "port" ELSE "insert")
    /\ UNCHANGED <<db, worker, host, overlapped>>

\* Mutant: the first port, assigned or not.
FindFirstPort(r) ==
    /\ requests[r].pc = "port"
    /\ requests' = [requests EXCEPT ![r].pc = "insert", ![r].port = Min(AppPorts)]
    /\ UNCHANGED <<db, worker, host, overlapped>>

FindFreePort(r) ==
    /\ requests[r].pc = "port"
    /\ IF FreePorts = {} THEN Answer(r)
       ELSE requests' = [requests EXCEPT ![r].pc = "insert", ![r].port = Min(FreePorts)]
    /\ UNCHANGED <<db, worker, host, overlapped>>

InsertSite(r) ==
    /\ requests[r].pc = "insert"
    /\ \/ /\ nextSite <= MaxSites
          /\ sites' = [sites EXCEPT ![nextSite] =
                         [status |-> "pending", domain |-> requests[r].domain,
                          runtime |-> requests[r].runtime, port |-> requests[r].port,
                          ssl |-> FALSE, app |-> "stopped"]]
          /\ nextSite' = nextSite + 1
          /\ requests' = [requests EXCEPT ![r].pc = "enqueue", ![r].site = nextSite]
       \/ "insert" \in Faults /\ Answer(r) /\ UNCHANGED <<sites, nextSite>>
    /\ UNCHANGED <<jobs, nextJob, worker, host, overlapped>>

\* The other handlers begin by reading the row.
Read(r, s, op, pc, p) ==
    /\ requests' = [requests EXCEPT ![r] =
                     [pc |-> pc, op |-> op, site |-> s, domain |-> sites[s].domain,
                      runtime |-> sites[s].runtime, port |-> p, old |-> sites[s].port,
                      app |-> sites[s].app]]
    /\ Begins(r, op)

ReadForDelete(r) ==
    /\ requests[r].pc = "idle" /\ "site.delete" \in Workload
    /\ \E s \in Live : Read(r, s, "site.delete", "write", sites[s].port)
    /\ UNCHANGED <<db, worker, host>>

\* Start, stop and restart; only a stop goes without a look at the port.
ReadForApp(r) ==
    /\ requests[r].pc = "idle"
    /\ \E s \in Live, op \in AppOps \cap Workload :
          /\ sites[s].runtime # "static"
          /\ op = "app.start" => sites[s].port # NoPort
          /\ Read(r, s, op, IF op = "app.stop" THEN "write" ELSE "check", sites[s].port)
    /\ UNCHANGED <<db, worker, host>>

\* The app's configuration; the body may name a port.
ReadForConfig(r) ==
    /\ requests[r].pc = "idle" /\ "config" \in Workload
    /\ \E s \in Live :
          /\ sites[s].runtime # "static"
          /\ \/ \E p \in AppPorts : Read(r, s, "config", "check", p)
             \/ Read(r, s, "config", "write", sites[s].port)
    /\ UNCHANGED <<db, worker, host>>

CheckPort(r) ==
    /\ requests[r].pc = "check"
    /\ IF PortAvailable(requests[r].site, requests[r].port) THEN Goto(r, "write") ELSE Answer(r)
    /\ UNCHANGED <<db, worker, host, overlapped>>

\* ClearAppPort, when the site is being deleted.
ClearAppPort(r) ==
    /\ requests[r].pc = "write" /\ requests[r].op = "site.delete"
    /\ UpdateSite(requests[r].site,
                  [sites[requests[r].site] EXCEPT !.port = NoPort, !.app = "stopped"])
    /\ Goto(r, "enqueue")
    /\ UNCHANGED <<nextSite, jobs, nextJob, worker, host, overlapped>>

Pending(op) == CASE op = "app.start" -> "starting"
                 [] op = "app.stop" -> "stopping"
                 [] op = "app.restart" -> "restarting"

\* UpdateAppStatus; a start with a new command writes the port it has read too.
WriteAppStatus(r) ==
    /\ requests[r].pc = "write" /\ requests[r].op \in AppOps
    /\ \E p \in {sites[requests[r].site].port}
                  \cup (IF requests[r].op = "app.start" THEN {requests[r].port} ELSE {}) :
          UpdateSite(requests[r].site,
                     [sites[requests[r].site] EXCEPT !.app = Pending(requests[r].op), !.port = p])
    /\ Goto(r, "enqueue")
    /\ UNCHANGED <<nextSite, jobs, nextJob, worker, host, overlapped>>

\* UpdateAppConfig: the new port, and the status as it was read.  A changed port
\* needs a new vhost.
WriteConfig(r) ==
    /\ requests[r].pc = "write" /\ requests[r].op = "config"
    /\ UpdateSite(requests[r].site,
                  [sites[requests[r].site] EXCEPT !.port = requests[r].port,
                                                  !.app = requests[r].app])
    /\ IF requests[r].port = requests[r].old THEN Answer(r)
       ELSE requests' = [requests EXCEPT ![r].pc = "enqueue", ![r].op = "site.create"]
    /\ UNCHANGED <<nextSite, jobs, nextJob, worker, host, overlapped>>

\* Jobs.Create: the foreign key refuses a job of a deleted site.
Inserted(type, s, d, p) ==
    /\ nextJob <= MaxJobs /\ Exists(s)
    /\ jobs' = [jobs EXCEPT ![nextJob] =
                  [state |-> "queued", type |-> type, site |-> s, domain |-> d,
                   port |-> p, attempts |-> 0]]
    /\ nextJob' = nextJob + 1

Enqueue(r) ==
    /\ requests[r].pc = "enqueue"
    /\ \/ /\ Inserted(requests[r].op, requests[r].site, requests[r].domain, requests[r].port)
          /\ IF requests[r].op = "site.delete" THEN Goto(r, "delete") ELSE Answer(r)
       \/ /\ "insert" \in Faults \/ ~Exists(requests[r].site)
          /\ UNCHANGED <<jobs, nextJob>> /\ Answer(r)
    /\ UNCHANGED <<sites, nextSite, worker, host, overlapped>>

\* Sites.Delete, one transaction: the site's jobs, then its row.
DeleteSite(r) ==
    /\ requests[r].pc = "delete"
    /\ LET s == requests[r].site IN
       /\ jobs' = [j \in JobIds |-> IF jobs[j].site = s THEN NoJob ELSE jobs[j]]
       /\ sites' = IF Exists(s) THEN [sites EXCEPT ![s].status = "gone"] ELSE sites
    /\ Answer(r)
    /\ UNCHANGED <<nextSite, nextJob, worker, host, overlapped>>

-----------------------------------------------------------------------------
(* The worker and the agent. *)

SetJob(j, state) ==
    jobs' = IF jobs[j].state = "none" THEN jobs ELSE [jobs EXCEPT ![j].state = state]

\* The oldest queued job that is due.
Claim(j) ==
    /\ worker.pc = "idle"
    /\ jobs[j].state = "queued"
    /\ \A i \in JobIds : jobs[i].state = "queued" => j <= i
    /\ jobs' = [jobs EXCEPT ![j].state = "running", ![j].attempts = @ + 1]
    /\ worker' = [pc |-> "claimed", job |-> jobs'[j], id |-> j, up |-> FALSE]
    /\ UNCHANGED <<sites, nextSite, nextJob, requests, host, overlapped>>

\* What the agent does on the host.  A start or a restart may find the app not
\* active afterwards; a stop that fails is only logged.
Applied(job) ==
    CASE job.type = "site.create" ->
            vhost' = [vhost EXCEPT ![job.domain] = job.port] /\ UNCHANGED <<unit, up>>
      [] job.type = "site.delete" ->
            /\ vhost' = [vhost EXCEPT ![job.domain] = Absent]
            /\ unit' = [unit EXCEPT ![job.site] = NoPort]
            /\ up' = [up EXCEPT ![job.site] = FALSE]
      [] job.type \in {"app.start", "app.restart"} ->
            /\ unit' = IF job.port = NoPort THEN unit ELSE [unit EXCEPT ![job.site] = job.port]
            /\ \E active \in BOOLEAN : up' = [up EXCEPT ![job.site] = active]
            /\ UNCHANGED vhost
      [] job.type = "app.stop" ->
            /\ \E failed \in BOOLEAN : up' = [up EXCEPT ![job.site] = @ /\ failed]
            /\ UNCHANGED <<vhost, unit>>
      [] job.type = "ssl.issue" -> UNCHANGED host

\* The call returns an answer.
ExecuteSucceeds ==
    /\ worker.pc = "claimed"
    /\ Applied(worker.job)
    /\ worker' = [worker EXCEPT !.pc = "executed",
                                !.up = IF worker.job.type \in {"app.start", "app.restart"}
                                       THEN up'[worker.job.site] ELSE FALSE]
    /\ UNCHANGED <<db, requests, overlapped>>

\* Mutant: the worker treats an error as an answer.
ExecuteFailsSilently ==
    /\ worker.pc = "claimed"
    /\ Applied(worker.job) \/ UNCHANGED host
    /\ worker' = [worker EXCEPT !.pc = "executed"]
    /\ UNCHANGED <<db, requests, overlapped>>

\* The call fails, before or after the agent did its work: retry or give up.
ExecuteFails ==
    /\ worker.pc = "claimed"
    /\ Applied(worker.job) \/ UNCHANGED host
    /\ SetJob(worker.id, IF worker.job.attempts < MaxAttempts THEN "waiting" ELSE "failed")
    /\ worker' = Idle
    /\ UNCHANGED <<sites, nextSite, nextJob, requests, overlapped>>

RetryDue(j) ==
    /\ jobs[j].state = "waiting"
    /\ jobs' = [jobs EXCEPT ![j].state = "queued"]
    /\ UNCHANGED <<sites, nextSite, nextJob, requests, worker, host, overlapped>>

MarkCompleted ==
    /\ worker.pc = "executed"
    /\ SetJob(worker.id, "succeeded")
    /\ worker' = [worker EXCEPT !.pc = "post"]
    /\ UNCHANGED <<sites, nextSite, nextJob, requests, host, overlapped>>

\* The site's row after the job's success.
Outcome(row) ==
    CASE worker.job.type = "site.create" -> [row EXCEPT !.status = "active"]
      [] worker.job.type = "ssl.issue" -> [row EXCEPT !.ssl = TRUE]
      [] worker.job.type \in {"app.start", "app.restart"} ->
            [row EXCEPT !.app = IF worker.up THEN "running" ELSE "errored"]
      [] worker.job.type = "app.stop" -> [row EXCEPT !.app = "stopped"]
      [] worker.job.type = "site.delete" -> row

PostSuccess ==
    /\ worker.pc = "post"
    /\ UpdateSite(worker.job.site, Outcome(sites[worker.job.site]))
    /\ worker' = IF worker.job.type = "site.create" THEN [worker EXCEPT !.pc = "ssl"] ELSE Idle
    /\ UNCHANGED <<nextSite, jobs, nextJob, requests, host, overlapped>>

\* A created site that still exists gets an ssl.issue job; its INSERT may fail.
EnqueueSSL ==
    /\ worker.pc = "ssl"
    /\ \/ Inserted("ssl.issue", worker.job.site, worker.job.domain, NoPort)
       \/ /\ "insert" \in Faults \/ ~Exists(worker.job.site)
          /\ UNCHANGED <<jobs, nextJob>>
    /\ worker' = Idle
    /\ UNCHANGED <<sites, nextSite, requests, host, overlapped>>

\* The process stops: requests and the worker's place are lost, rows stay.
Restart ==
    /\ "crash" \in Faults
    /\ requests' = [r \in Requests |-> Resting]
    /\ worker' = Idle
    /\ UNCHANGED <<db, host, overlapped>>

\* A queued job is canceled; the stuck-job clean-up fails one without a worker.
EndJob(j) ==
    /\ jobs[j].state \in {"queued", "waiting", "running"}
    /\ jobs[j].state = "running" => worker.id # j
    /\ SetJob(j, "failed")
    /\ UNCHANGED <<sites, nextSite, nextJob, requests, worker, host, overlapped>>

-----------------------------------------------------------------------------
Next ==
    \/ \E r \in Requests :
         \/ CreateSite(r) \/ CheckDomain(r) \/ FindFreePort(r) \/ InsertSite(r)
         \/ ReadForDelete(r) \/ ReadForApp(r) \/ ReadForConfig(r) \/ CheckPort(r) \/ ClearAppPort(r)
         \/ WriteAppStatus(r) \/ WriteConfig(r) \/ Enqueue(r) \/ DeleteSite(r)
    \/ \E j \in JobIds : Claim(j) \/ RetryDue(j) \/ EndJob(j)
    \/ ExecuteSucceeds \/ ExecuteFails \/ MarkCompleted \/ PostSuccess \/ EnqueueSSL
    \/ Restart

Spec == Init /\ [][Next]_vars

-----------------------------------------------------------------------------
(* Properties. *)

(* A site shown as active is served: its vhost exists, whatever older site of
   the same domain was deleted before and however late the agent cleaned up,
   as long as no two requests were choosing a domain at once. *)
ActiveIsServed ==
    ~overlapped =>
        \A s \in Live :
            /\ sites[s].status = "active"
            /\ \A j \in JobIds : jobs[j].type = "site.delete" => jobs[j].site # s
            => vhost[sites[s].domain] # Absent

(* No two sites share an app port, as long as no two requests were choosing
   one at once, whatever deletions, stops, restarts, retries and crashes come
   between the look for a port and the write. *)
PortsUnique ==
    ~overlapped =>
        \A s, t \in Live : s # t /\ sites[s].port # NoPort => sites[s].port # sites[t].port

-----------------------------------------------------------------------------
(* Claims of comments that the code does not meet. *)

\* All that was asked of site s, its certificate aside, has been done and
\* nothing is under way.
Quiet(s) ==
    /\ \A j \in JobIds : jobs[j].site = s /\ jobs[j].type # "ssl.issue"
                            => jobs[j].state = "succeeded"
    /\ worker.pc # "idle" => worker.job.site # s
    /\ \A r \in Requests : requests[r].pc # "idle" => requests[r].site # s

(* "site.delete job handles files, SSL, logs, services" (siteHandler.delete):
   once nothing is under way for a deleted site, its vhost is gone. *)
DeletedIsCleaned ==
    \A s \in SiteIds : sites[s].status = "gone" /\ Quiet(s)
        => vhost[sites[s].domain] = Absent

(* "If the port changed, regenerate the nginx vhost so the reverse proxy
   targets the new port" (appUpdateConfig). *)
VhostTargetsPort ==
    \A s \in Live : Quiet(s) /\ sites[s].port # NoPort /\ vhost[sites[s].domain] \in AppPorts
        => vhost[sites[s].domain] = sites[s].port
=============================================================================
