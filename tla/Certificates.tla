---------------------------- MODULE Certificates ----------------------------
(***************************************************************************)
(* Certificates: what the panel's rows say, what is on the host, and the   *)
(* ssl.issue and ssl.renew jobs between them.  The scheduler's tick and    *)
(* the renew-all request sweep over the rows about to expire: they list,   *)
(* then per site look for a queued job, look for a running one, and        *)
(* enqueue.  Time is counted in renewal windows of 30 days.                *)
(***************************************************************************)
EXTENDS Naturals, FiniteSets, FiniteSetsExt

CONSTANTS
    CertSites,
    Sweepers,   \* the scheduler ("tick") and renew-all requests
    CertJobs,   \* slots for unfinished jobs
    LifeTime,   \* windows a fresh certificate lives (90 days: 3)
    Tries,      \* max_attempts
    MaxDay,     \* bound on time
    CertLoads   \* bound: how often each operation and fault occurs

ASSUME CertAssumption == "tick" \in Sweepers /\ CertSites # {}

VARIABLES
    today,
    sslRow,     \* [status, expires] of the sites' ssl columns
    live,       \* sites whose status is active
    cert,       \* expiry of the certificate on the host, 0 without one
    sslJobs,    \* slot -> job
    sweep,      \* sweeper -> where it is
    runner,     \* the slot the worker runs, or 0
    certLoad,
    owed,       \* history: live sites whose row was about to expire or past it when the tick listed
    covered     \* history: sites that had an unfinished renewal, or whose insertion failed, since the tick listed

certVars == <<today, sslRow, live, cert, sslJobs, sweep, runner, certLoad, owed, covered>>

NoSslJob == [state |-> "free", type |-> "none", site |-> CHOOSE s \in CertSites : TRUE, attempts |-> 0]
CertResting == [pc |-> "idle", todo |-> {}, site |-> CHOOSE s \in CertSites : TRUE]
Expired(day) == day <= today
WithinWindow(day) == day <= today + 1

\* A site with a certificate, and one that has none yet.
CertInit ==
    /\ today = 1
    /\ sslRow \in [CertSites -> {[status |-> "active", expires |-> 1 + LifeTime], [status |-> "none", expires |-> 0]}]
    /\ cert = [s \in CertSites |-> sslRow[s].expires]
    /\ live \in {L \in SUBSET CertSites : L # {}}
    /\ sslJobs = [j \in CertJobs |-> NoSslJob] /\ runner = 0
    /\ sweep = [a \in Sweepers |-> CertResting]
    /\ certLoad \in CertLoads
    /\ owed = {} /\ covered = {}

SpendCert(op) ==
    /\ op \in DOMAIN certLoad /\ certLoad[op] > 0
    /\ certLoad' = [certLoad EXCEPT ![op] = @ - 1]

Unfinished(s, states) == \E j \in CertJobs : /\ sslJobs[j].site = s /\ sslJobs[j].type = "ssl.renew"
                                             /\ sslJobs[j].state \in states
Free == {j \in CertJobs : sslJobs[j].state = "free"}
Created(type, s) ==
    /\ Free # {}
    /\ sslJobs' = [sslJobs EXCEPT ![Min(Free)] = [state |-> "queued", type |-> type, site |-> s, attempts |-> 0]]
    /\ covered' = IF type = "ssl.renew" THEN covered \cup {s} ELSE covered

-----------------------------------------------------------------------------
(* Requests and sweeps *)

\* issue, renew and the worker's own issue job after a site.create: none looks
\* for a job that is there already.
issue(s) ==
    /\ SpendCert("issue") /\ Created("ssl.issue", s)
    /\ UNCHANGED <<today, sslRow, live, cert, sweep, runner, owed>>

renew(s) ==
    /\ SpendCert("renew") /\ Created("ssl.renew", s)
    /\ UNCHANGED <<today, sslRow, live, cert, sweep, runner, owed>>

\* Mutant: rows past their expiry are left out.
ListSSLExpiringUnexpired ==
    {s \in CertSites : sslRow[s].status = "active" /\ WithinWindow(sslRow[s].expires) /\ ~Expired(sslRow[s].expires)}

ListSSLExpiring == {s \in CertSites : sslRow[s].status = "active" /\ WithinWindow(sslRow[s].expires)}

\* A site that is not active is skipped, by the status of the list.
runSSLAutoRenew(a) ==
    /\ sweep[a].pc = "idle" /\ SpendCert(a)
    /\ sweep' = [sweep EXCEPT ![a] = [CertResting EXCEPT !.pc = "next", !.todo = ListSSLExpiring \cap live]]
    /\ IF a # "tick" THEN UNCHANGED <<owed, covered>>
       ELSE /\ covered' = {s \in CertSites : Unfinished(s, {"queued", "running"})}
            /\ owed' = {s \in live : sslRow[s].status = "active" /\ sslRow[s].expires <= today + 1}
    /\ UNCHANGED <<today, sslRow, live, cert, sslJobs, runner>>

NextSite(a) ==
    /\ sweep[a].pc = "next"
    /\ IF sweep[a].todo = {} THEN sweep' = [sweep EXCEPT ![a] = [CertResting EXCEPT !.pc = "done"]]
       ELSE \E s \in sweep[a].todo :
              sweep' = [sweep EXCEPT ![a] = [pc |-> "queued", todo |-> @.todo \ {s}, site |-> s]]
    /\ UNCHANGED <<today, sslRow, live, cert, sslJobs, runner, certLoad, owed, covered>>

LookQueued(a) ==
    /\ sweep[a].pc = "queued"
    /\ sweep' = [sweep EXCEPT ![a].pc = IF Unfinished(sweep[a].site, {"queued"}) THEN "next" ELSE "running"]
    /\ UNCHANGED <<today, sslRow, live, cert, sslJobs, runner, certLoad, owed, covered>>

LookRunning(a) ==
    /\ sweep[a].pc = "running"
    /\ sweep' = [sweep EXCEPT ![a].pc = IF Unfinished(sweep[a].site, {"running"}) THEN "next" ELSE "create"]
    /\ UNCHANGED <<today, sslRow, live, cert, sslJobs, runner, certLoad, owed, covered>>

CreateRenewal(a) ==
    /\ sweep[a].pc = "create"
    /\ sweep' = [sweep EXCEPT ![a].pc = "next"]
    /\ \/ Created("ssl.renew", sweep[a].site) /\ UNCHANGED certLoad
       \/ SpendCert("insert") /\ covered' = covered \cup {sweep[a].site} /\ UNCHANGED sslJobs
    /\ UNCHANGED <<today, sslRow, live, cert, runner, owed>>

SweepEnds(a) ==
    /\ sweep[a].pc = "done" /\ sweep' = [sweep EXCEPT ![a] = CertResting]
    /\ UNCHANGED <<today, sslRow, live, cert, sslJobs, runner, certLoad, owed, covered>>

-----------------------------------------------------------------------------
(* The worker and the agent *)

ClaimSsl(j) ==
    /\ runner = 0 /\ sslJobs[j].state = "queued" /\ runner' = j
    /\ sslJobs' = [sslJobs EXCEPT ![j].state = "running", ![j].attempts = @ + 1]
    /\ UNCHANGED <<today, sslRow, live, cert, sweep, certLoad, owed, covered>>

\* certbot certonly leaves a certificate alone that is not about to expire, and
\* so does certbot renew; both succeed.
Certbot(s) == [cert EXCEPT ![s] = IF WithinWindow(@) THEN today + LifeTime ELSE @]

Impossible(job) == job.type = "ssl.renew" /\ cert[job.site] = 0

\* The worker records an issued certificate, with 90 days from now; a renewal
\* has no case of its own.
FinishSsl ==
    /\ runner # 0 /\ ~Impossible(sslJobs[runner])
    /\ LET job == sslJobs[runner] IN
       /\ cert' = Certbot(job.site)
       /\ sslRow' = IF job.type = "ssl.renew" THEN sslRow
                    ELSE [sslRow EXCEPT ![job.site] = [status |-> "active", expires |-> today + LifeTime]]
    /\ sslJobs' = [sslJobs EXCEPT ![runner] = NoSslJob] /\ runner' = 0
    /\ UNCHANGED <<today, live, sweep, certLoad, owed, covered>>

\* certbot fails, always when there is no certificate to renew.
FailSsl ==
    /\ runner # 0
    /\ IF Impossible(sslJobs[runner]) THEN UNCHANGED certLoad ELSE SpendCert("certbot")
    /\ sslJobs' = [sslJobs EXCEPT ![runner] = IF @.attempts < Tries THEN [@ EXCEPT !.state = "queued"] ELSE NoSslJob]
    /\ runner' = 0
    /\ UNCHANGED <<today, sslRow, live, cert, sweep, owed, covered>>

\* Time passes; a site is suspended or comes back.
Window ==
    /\ today < MaxDay /\ today' = today + 1
    /\ UNCHANGED <<sslRow, live, cert, sslJobs, sweep, runner, certLoad, owed, covered>>

ToggleSite(s) ==
    /\ SpendCert("toggle") /\ live' = IF s \in live THEN live \ {s} ELSE live \cup {s}
    /\ UNCHANGED <<today, sslRow, cert, sslJobs, sweep, runner, owed, covered>>

CertNext ==
    \/ \E s \in CertSites : issue(s) \/ renew(s) \/ ToggleSite(s)
    \/ \E a \in Sweepers : runSSLAutoRenew(a) \/ NextSite(a) \/ LookQueued(a) \/ LookRunning(a) \/ CreateRenewal(a) \/ SweepEnds(a)
    \/ \E j \in CertJobs : ClaimSsl(j)
    \/ FinishSsl \/ FailSsl \/ Window

CertSpec == CertInit /\ [][CertNext]_certVars

-----------------------------------------------------------------------------
\* A tick leaves no live site behind whose row is about to expire or past its
\* expiry: a renewal was unfinished at some point of the tick, or inserting it
\* failed.  The look for queued and the look for running jobs are two queries
\* with the worker in between.
ExpiringCovered == sweep["tick"].pc = "done" => owed \subseteq covered

=============================================================================
