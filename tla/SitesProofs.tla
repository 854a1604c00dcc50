---------------------------- MODULE SitesProofs -----------------------------
(***************************************************************************)
(* Proofs about the sites and their vhosts: no two sites share a port, an  *)
(* active site is served, and sites-enabled holds what was answered last.  *)
(* They hold for every number of domains, sites, ports, jobs and requests  *)
(* in flight, with every fault and every load.                             *)
(***************************************************************************)
EXTENDS Sites, Vhosts, WellFoundedInduction, TLAPS

-----------------------------------------------------------------------------
(* Sites *)

SiteFields == {"status", "domain", "runtime", "port", "ssl", "app"}
JobFields == {"state", "type", "site", "domain", "port", "attempts"}
RequestFields == {"pc", "op", "site", "domain", "runtime", "port", "old", "app"}
JobTypesOfSites == AppOps \cup {"site.create", "site.delete", "ssl.issue"}

SiteShape(row) ==
    /\ DOMAIN row = SiteFields
    /\ row.status \in {"none", "pending", "active", "gone"} /\ row.domain \in Domains /\ row.port \in Nat
JobShape(job) ==
    /\ DOMAIN job = JobFields
    /\ job.type \in JobTypesOfSites /\ job.domain \in Domains /\ job.port \in Nat
RequestShape(req) ==
    /\ DOMAIN req = RequestFields
    /\ req.pc \in {"idle", "domain", "port", "insert", "check", "write", "enqueue", "delete"}
    /\ req.op \in Ops /\ req.domain \in Domains /\ req.port \in Nat

\* The shape of the tables, the requests, the worker and the vhosts.
SitesShape ==
    /\ DOMAIN sites = SiteIds /\ \A s \in SiteIds : SiteShape(sites[s])
    /\ nextSite \in Nat \ {0} /\ nextJob \in Nat \ {0}
    /\ DOMAIN jobs = JobIds /\ \A j \in JobIds : JobShape(jobs[j])
    /\ DOMAIN requests = Requests /\ \A r \in Requests : RequestShape(requests[r])
    /\ DOMAIN worker = {"pc", "job", "id", "up"}
    /\ worker.pc \in {"idle", "claimed", "executed", "post", "ssl"} /\ JobShape(worker.job)
    /\ DOMAIN vhost = Domains

\* Rows from nextSite and nextJob on were never inserted.
FreshInv ==
    /\ \A s \in SiteIds : s >= nextSite => sites[s].status = "none"
    /\ \A j \in JobIds : j >= nextJob => jobs[j] = NoJob

There(row) == row.status \in {"pending", "active"}
\* Site s was inserted, for domain d; a deleted site keeps its domain.
Known(table, s, d) == s \in SiteIds /\ table[s].status # "none" /\ table[s].domain = d

\* What a request has read, at each place of its handler.
Placed(req, table) ==
    /\ req.pc \in {"check", "write", "enqueue", "delete"} => Known(table, req.site, req.domain)
    /\ req.pc \in {"domain", "port", "insert"} => req.op = "site.create"
    /\ req.pc \in {"domain", "port"} => req.port = NoPort
    /\ req.pc \in {"check", "write"} => req.op # "site.create"
    /\ req.pc = "check" => req.op # "site.delete"
    /\ req.pc = "enqueue" => req.op # "config"
RequestInv == \A r \in Requests : Placed(requests[r], sites)

\* A job row belongs to a site that exists.
Belongs(job, table) ==
    job.state # "none" => /\ job.site \in SiteIds /\ There(table[job.site])
                          /\ table[job.site].domain = job.domain
JobsInv == \A j \in JobIds : Belongs(jobs[j], sites)

\* The worker's job.  A deletion the agent has yet to carry out is either
\* in the jobs table with its site, or no site of its domain is active; a
\* creation it has carried out has left a vhost.
WorkerInv ==
    /\ worker.pc # "idle" => Known(sites, worker.job.site, worker.job.domain)
    /\ worker.pc = "ssl" => worker.job.type = "site.create"
    /\ worker.pc = "claimed" /\ worker.job.type = "site.delete" =>
           IF There(sites[worker.job.site])
           THEN \E j \in JobIds : jobs[j].type = "site.delete" /\ jobs[j].site = worker.job.site
           ELSE ~overlapped => \A t \in SiteIds : sites[t].domain = worker.job.domain => sites[t].status # "active"
    /\ worker.pc \in {"executed", "post"} /\ worker.job.type = "site.create" => vhost[worker.job.domain] # Absent

ChoosingRow(req) == req.op \in Takes /\ req.pc \in {"domain", "port", "insert", "check", "write"}
OneChooses ==
    ~overlapped => \A q, r \in Requests : ChoosingRow(requests[q]) /\ ChoosingRow(requests[r]) => q = r

\* The domain or port that a choosing request has found free is still free.
StillFree(req, table) ==
    /\ req.pc \in {"port", "insert"} => \A s \in SiteIds : There(table[s]) => table[s].domain # req.domain
    /\ req.pc = "insert" /\ req.port # NoPort => \A s \in SiteIds : There(table[s]) => table[s].port # req.port
    /\ req.pc = "write" /\ req.op \in Takes /\ req.port # NoPort =>
           \A s \in SiteIds : There(table[s]) /\ s # req.site => table[s].port # req.port
ChoiceInv == ~overlapped => \A r \in Requests : StillFree(requests[r], sites)

Distinct(table) ==
    \A s, t \in SiteIds : There(table[s]) /\ There(table[t]) /\ s # t =>
        /\ table[s].domain # table[t].domain
        /\ table[s].port # NoPort => table[s].port # table[t].port
DistinctInv == ~overlapped => Distinct(sites)

Leaving(table, s) == \E j \in JobIds : table[j].type = "site.delete" /\ table[j].site = s
ServedInv ==
    ~overlapped => \A s \in SiteIds : sites[s].status = "active" /\ ~Leaving(jobs, s) => vhost[sites[s].domain] # Absent

TableInv == SitesShape /\ FreshInv /\ RequestInv /\ JobsInv
SitesInv == TableInv /\ WorkerInv /\ OneChooses /\ ChoiceInv /\ DistinctInv /\ ServedInv

-----------------------------------------------------------------------------
(* The placeholders. *)

LEMMA SitePlaceholders ==
    /\ AnyDomain \in Domains
    /\ JobShape(NoJob) /\ NoJob.state = "none" /\ NoJob.type = "site.create" /\ NoJob.site = 0
    /\ RequestShape(Resting) /\ Resting.pc = "idle" /\ Resting.op = "config"
    /\ DOMAIN Idle = {"pc", "job", "id", "up"} /\ Idle.pc = "idle" /\ Idle.job = NoJob
<1>1. AnyDomain \in Domains
  BY SitesAssumption DEF AnyDomain
<1>2. JobShape(NoJob) /\ NoJob.state = "none" /\ NoJob.type = "site.create" /\ NoJob.site = 0
  BY <1>1 DEF NoJob, JobShape, JobFields, JobTypesOfSites, NoPort
<1>3. RequestShape(Resting) /\ Resting.pc = "idle" /\ Resting.op = "config"
  BY <1>1 DEF Resting, RequestShape, RequestFields, Ops, NoPort
<1>4. DOMAIN Idle = {"pc", "job", "id", "up"} /\ Idle.pc = "idle" /\ Idle.job = NoJob
  BY DEF Idle
<1> QED BY <1>1, <1>2, <1>3, <1>4

LEMMA SitesInitInv == Init => SitesInv
<1> SUFFICES ASSUME Init PROVE SitesInv
  OBVIOUS
<1> USE SitePlaceholders
<1>1. \A s \in SiteIds : SiteShape(sites[s]) /\ sites[s].status = "none"
  BY DEF Init, SiteShape, SiteFields, NoPort
<1>2. \A j \in JobIds : jobs[j] = NoJob
  BY DEF Init
<1>3. \A r \in Requests : requests[r] = Resting
  BY DEF Init
<1>4. SitesShape
  <2>1. DOMAIN sites = SiteIds /\ DOMAIN jobs = JobIds /\ DOMAIN requests = Requests /\ DOMAIN vhost = Domains
    BY DEF Init
  <2>2. nextSite \in Nat \ {0} /\ nextJob \in Nat \ {0}
    BY DEF Init
  <2>3. /\ DOMAIN worker = {"pc", "job", "id", "up"} /\ JobShape(worker.job)
        /\ worker.pc \in {"idle", "claimed", "executed", "post", "ssl"}
    BY DEF Init
  <2>4. \A r \in Requests : RequestShape(requests[r])
    BY <1>3
  <2>5. \A j \in JobIds : JobShape(jobs[j])
    BY <1>2
  <2> QED BY <1>1, <2>1, <2>2, <2>3, <2>4, <2>5 DEF SitesShape
<1>5. FreshInv /\ JobsInv
  BY <1>1, <1>2 DEF FreshInv, JobsInv, Belongs
<1>6. RequestInv /\ OneChooses /\ ChoiceInv
  BY <1>3 DEF RequestInv, OneChooses, ChoiceInv, Placed, StillFree, ChoosingRow
<1>7. WorkerInv
  <2>1. worker.pc = "idle"
    BY DEF Init
  <2> QED BY <2>1 DEF WorkerInv
<1>8. DistinctInv /\ ServedInv
  BY <1>1 DEF DistinctInv, ServedInv, Distinct, There
<1> QED BY <1>4, <1>5, <1>6, <1>7, <1>8 DEF SitesInv, TableInv

-----------------------------------------------------------------------------
(* Steps.  No step forgets an inserted site or brings a deleted one back, and
   only the worker makes one active; the rows that ask for a deletion stay as
   long as their site does. *)

TableStep ==
    \A s \in SiteIds :
        /\ sites[s].status # "none" => sites'[s].status # "none" /\ sites'[s].domain = sites[s].domain
        /\ There(sites'[s]) /\ sites[s].status # "none" => There(sites[s])
NoneActivated ==
    \A s \in SiteIds : sites'[s].status = "active" => sites[s].status = "active" /\ sites'[s].domain = sites[s].domain
LeavingStays ==
    \A j \in JobIds : jobs[j].type = "site.delete" /\ jobs[j].site \in SiteIds /\ There(sites'[jobs[j].site]) =>
        jobs'[j].type = "site.delete" /\ jobs'[j].site = jobs[j].site
\* No site takes a new domain or a new port.
NoneTaken ==
    \A s \in SiteIds : There(sites'[s]) =>
        /\ There(sites[s]) /\ sites'[s].domain = sites[s].domain
        /\ sites'[s].port \in {sites[s].port, NoPort}
Remembers == ~overlapped' => ~overlapped

LEMMA WorkerRests ==
    ASSUME SitesInv, TableStep, NoneActivated, LeavingStays, Remembers, worker' = worker, vhost' = vhost
    PROVE  WorkerInv'
<1>1. worker.pc # "idle" => Known(sites', worker.job.site, worker.job.domain)
  BY DEF SitesInv, WorkerInv, Known, TableStep
<1>2. ASSUME worker.pc = "claimed", worker.job.type = "site.delete", There(sites'[worker.job.site])
      PROVE  \E j \in JobIds : jobs'[j].type = "site.delete" /\ jobs'[j].site = worker.job.site
  <2>1. worker.job.site \in SiteIds /\ sites[worker.job.site].status # "none"
    BY <1>2 DEF SitesInv, WorkerInv, Known
  <2>2. There(sites[worker.job.site])
    BY <1>2, <2>1 DEF TableStep
  <2>3. PICK j \in JobIds : jobs[j].type = "site.delete" /\ jobs[j].site = worker.job.site
    BY <1>2, <2>2 DEF SitesInv, WorkerInv
  <2> QED BY <1>2, <2>1, <2>3 DEF LeavingStays
<1>3. ASSUME worker.pc = "claimed", worker.job.type = "site.delete", ~There(sites'[worker.job.site]), ~overlapped',
             NEW t \in SiteIds, sites'[t].domain = worker.job.domain, sites'[t].status = "active"
      PROVE  FALSE
  <2>1. /\ worker.job.site \in SiteIds /\ sites[worker.job.site].status # "none"
        /\ sites[worker.job.site].domain = worker.job.domain
    BY <1>3 DEF SitesInv, WorkerInv, Known
  <2>2. sites[t].status = "active" /\ sites[t].domain = worker.job.domain /\ ~overlapped
    BY <1>3 DEF NoneActivated, Remembers
  <2>3. There(sites[worker.job.site])
    BY <1>3, <2>2 DEF SitesInv, WorkerInv
  <2>4. t = worker.job.site
    BY <2>1, <2>2, <2>3 DEF SitesInv, DistinctInv, Distinct, There
  <2> QED BY <1>3, <2>4 DEF There
<1>4. /\ worker.pc = "ssl" => worker.job.type = "site.create"
      /\ worker.pc \in {"executed", "post"} /\ worker.job.type = "site.create" => vhost[worker.job.domain] # Absent
  BY DEF SitesInv, WorkerInv
<1> QED BY <1>1, <1>2, <1>3, <1>4 DEF WorkerInv, Known

LEMMA ServedRests ==
    ASSUME SitesInv, NoneActivated, LeavingStays, Remembers, vhost' = vhost
    PROVE  ServedInv'
<1> SUFFICES ASSUME ~overlapped', NEW s \in SiteIds, sites'[s].status = "active", ~Leaving(jobs', s)
             PROVE  vhost'[sites'[s].domain] # Absent
  BY DEF ServedInv
<1>1. sites[s].status = "active" /\ sites'[s].domain = sites[s].domain /\ ~overlapped
  BY DEF NoneActivated, Remembers
<1>2. ~Leaving(jobs, s)
  BY DEF Leaving, LeavingStays, There
<1> QED BY <1>1, <1>2 DEF SitesInv, ServedInv

LEMMA DistinctRests ==
    ASSUME SitesInv, NoneTaken, Remembers
    PROVE  DistinctInv'
<1> SUFFICES ASSUME ~overlapped', NEW s \in SiteIds, NEW t \in SiteIds, There(sites'[s]), There(sites'[t]), s # t
             PROVE  /\ sites'[s].domain # sites'[t].domain
                    /\ sites'[s].port # NoPort => sites'[s].port # sites'[t].port
  BY DEF DistinctInv, Distinct
<1>1. /\ There(sites[s]) /\ sites'[s].domain = sites[s].domain /\ sites'[s].port \in {sites[s].port, NoPort}
      /\ There(sites[t]) /\ sites'[t].domain = sites[t].domain /\ sites'[t].port \in {sites[t].port, NoPort}
  BY DEF NoneTaken
<1>2. sites[s].domain # sites[t].domain /\ (sites[s].port # NoPort => sites[s].port # sites[t].port)
  BY <1>1 DEF SitesInv, DistinctInv, Distinct, Remembers
<1> QED BY <1>1, <1>2

LEMMA StillFreeRests ==
    ASSUME NEW req, NEW before, NEW after, StillFree(req, before),
           \A s \in SiteIds : There(after[s]) =>
               There(before[s]) /\ after[s].domain = before[s].domain /\ after[s].port \in {before[s].port, NoPort}
    PROVE  StillFree(req, after)
  BY DEF StillFree

LEMMA ChoiceRests ==
    ASSUME SitesInv, NoneTaken, Remembers, requests' = requests
    PROVE  ChoiceInv'
<1> SUFFICES ASSUME ~overlapped', NEW r \in Requests PROVE StillFree(requests[r], sites')
  BY DEF ChoiceInv
<1>1. StillFree(requests[r], sites)
  BY DEF SitesInv, ChoiceInv, Remembers
<1> QED BY <1>1, StillFreeRests DEF NoneTaken

LEMMA PlacedRests ==
    ASSUME TableStep, NEW req, Placed(req, sites)
    PROVE  Placed(req, sites')
  BY DEF TableStep, Placed, Known

LEMMA RequestsRest ==
    ASSUME SitesInv, TableStep, requests' = requests
    PROVE  RequestInv'
  BY PlacedRests DEF SitesInv, TableInv, RequestInv

LEMMA OneChoosesRests ==
    ASSUME SitesInv, Remembers, requests' = requests
    PROVE  OneChooses'
  BY DEF SitesInv, Remembers, OneChooses

\* Job rows change their state and their attempts only.
JobRowsKeep ==
    /\ nextJob' = nextJob /\ DOMAIN jobs' = JobIds
    /\ \A j \in JobIds :
          /\ DOMAIN jobs'[j] = DOMAIN jobs[j]
          /\ jobs'[j].type = jobs[j].type /\ jobs'[j].site = jobs[j].site
          /\ jobs'[j].domain = jobs[j].domain /\ jobs'[j].port = jobs[j].port
          /\ jobs[j].state = "none" => jobs'[j] = jobs[j]

-----------------------------------------------------------------------------
(* Handler steps: request r is at row afterwards. *)

RequestStep(r, row) ==
    DOMAIN requests' = Requests /\ \A q \in Requests : requests'[q] = IF q = r THEN row ELSE requests[q]

LEMMA RequestSet ==
    ASSUME SitesInv, NEW r \in Requests, NEW row, requests' = [requests EXCEPT ![r] = row]
    PROVE  RequestStep(r, row)
  BY DEF RequestStep, SitesInv, TableInv, SitesShape

LEMMA RequestGoes ==
    ASSUME SitesInv, NEW r \in Requests, NEW pc, Goto(r, pc),
           pc \in {"idle", "domain", "port", "insert", "check", "write", "enqueue", "delete"}
    PROVE  \E row : /\ RequestStep(r, row) /\ RequestShape(row) /\ row.pc = pc
                    /\ row.op = requests[r].op /\ row.site = requests[r].site
                    /\ row.domain = requests[r].domain /\ row.port = requests[r].port
<1>1. PICK row : row = [requests[r] EXCEPT !.pc = pc]
  OBVIOUS
<1>2. RequestShape(requests[r])
  BY DEF SitesInv, TableInv, SitesShape
<1>3. /\ RequestShape(row) /\ row.pc = pc
      /\ row.op = requests[r].op /\ row.site = requests[r].site
      /\ row.domain = requests[r].domain /\ row.port = requests[r].port
  BY <1>1, <1>2 DEF RequestShape, RequestFields
<1>4. requests' = [requests EXCEPT ![r] = row]
  BY <1>1 DEF Goto
<1> QED BY <1>3, <1>4, RequestSet

LEMMA RestingRow ==
    ASSUME NEW table
    PROVE  /\ RequestShape(Resting) /\ Placed(Resting, table) /\ StillFree(Resting, table)
           /\ ~ChoosingRow(Resting)
  BY SitePlaceholders DEF Placed, StillFree, ChoosingRow

LEMMA RequestMoves ==
    ASSUME SitesInv, TableStep, NEW r \in Requests, NEW row, RequestStep(r, row), Placed(row, sites')
    PROVE  RequestInv'
<1> SUFFICES ASSUME NEW q \in Requests PROVE Placed(requests'[q], sites')
  BY DEF RequestInv
<1>1. CASE q = r
  BY <1>1 DEF RequestStep
<1>2. CASE q # r
  BY <1>2, PlacedRests DEF RequestStep, SitesInv, TableInv, RequestInv
<1> QED BY <1>1, <1>2

LEMMA ChoiceMoves ==
    ASSUME SitesInv, NoneTaken, Remembers, NEW r \in Requests, NEW row, RequestStep(r, row),
           ~overlapped' => StillFree(row, sites')
    PROVE  ChoiceInv'
<1> SUFFICES ASSUME ~overlapped', NEW q \in Requests PROVE StillFree(requests'[q], sites')
  BY DEF ChoiceInv
<1>1. CASE q = r
  BY <1>1 DEF RequestStep
<1>2. CASE q # r
  <2>1. StillFree(requests[q], sites)
    BY DEF SitesInv, ChoiceInv, Remembers
  <2>2. StillFree(requests[q], sites')
    BY <2>1, StillFreeRests DEF NoneTaken
  <2> QED BY <1>2, <2>2 DEF RequestStep
<1> QED BY <1>1, <1>2

LEMMA ChooserMoves ==
    ASSUME SitesInv, Remembers, NEW r \in Requests, NEW row, RequestStep(r, row),
           ChoosingRow(row) => ChoosingRow(requests[r])
    PROVE  OneChooses'
<1>1. \A q \in Requests : ChoosingRow(requests'[q]) => ChoosingRow(requests[q])
  BY DEF RequestStep
<1> QED BY <1>1 DEF OneChooses, SitesInv, Remembers

LEMMA ChooserBegins ==
    ASSUME SitesInv, NEW r \in Requests, NEW row, RequestStep(r, row), NEW op, Begins(r, op), row.op = op
    PROVE  OneChooses' /\ Remembers
<1>1. Remembers
  BY DEF Remembers, Begins
<1>2. SUFFICES ASSUME ~overlapped', NEW p \in Requests, NEW q \in Requests, p # q,
                      ChoosingRow(requests'[p]), ChoosingRow(requests'[q])
               PROVE  FALSE
  BY <1>1 DEF OneChooses
<1>3. ~overlapped /\ ~(op \in Takes /\ \E x \in Requests \ {r} : Choosing(x))
  BY <1>2 DEF Begins
<1>4. \A x \in Requests \ {r} : ChoosingRow(requests'[x]) => Choosing(x) /\ ChoosingRow(requests[x])
  BY DEF RequestStep, ChoosingRow, Choosing
<1>5. CASE p # r /\ q # r
  BY <1>2, <1>3, <1>4, <1>5 DEF SitesInv, OneChooses
<1>6. CASE p = r
  <2>1. op \in Takes
    BY <1>2, <1>6 DEF RequestStep, ChoosingRow
  <2> QED BY <1>2, <1>3, <1>4, <1>6, <2>1
<1>7. CASE q = r
  <2>1. op \in Takes
    BY <1>2, <1>7 DEF RequestStep, ChoosingRow
  <2> QED BY <1>2, <1>3, <1>4, <1>7, <2>1
<1> QED BY <1>5, <1>6, <1>7

\* The tables, the worker and the vhosts stay.
OthersStay == UNCHANGED <<sites, nextSite, jobs, nextJob, worker, vhost>>

LEMMA TablesStay ==
    ASSUME SitesInv, sites' = sites, jobs' = jobs
    PROVE  TableStep /\ NoneActivated /\ LeavingStays /\ NoneTaken
  BY DEF TableStep, NoneActivated, LeavingStays, NoneTaken

LEMMA HandlerStep ==
    ASSUME SitesInv, NEW r \in Requests, NEW row, RequestStep(r, row), OthersStay,
           RequestShape(row), Placed(row, sites), Remembers, OneChooses', ~overlapped' => StillFree(row, sites)
    PROVE  SitesInv'
<1>1. sites' = sites /\ jobs' = jobs /\ nextSite' = nextSite /\ nextJob' = nextJob /\ worker' = worker /\ vhost' = vhost
  BY DEF OthersStay
<1>2. TableStep /\ NoneActivated /\ LeavingStays /\ NoneTaken
  BY <1>1, TablesStay
<1>3. SitesShape'
  <2>1. DOMAIN requests' = Requests /\ \A q \in Requests : RequestShape(requests'[q])
    BY DEF RequestStep, SitesInv, TableInv, SitesShape
  <2> QED BY <1>1, <2>1 DEF SitesInv, TableInv, SitesShape
<1>4. FreshInv' /\ JobsInv'
  BY <1>1 DEF SitesInv, TableInv, FreshInv, JobsInv
<1>5. RequestInv' /\ ChoiceInv'
  BY <1>1, <1>2, RequestMoves, ChoiceMoves
<1>6. WorkerInv' /\ ServedInv' /\ DistinctInv'
  BY <1>1, <1>2, WorkerRests, ServedRests, DistinctRests
<1> QED BY <1>3, <1>4, <1>5, <1>6 DEF SitesInv, TableInv

LEMMA AnswerStep ==
    ASSUME SitesInv, NEW r \in Requests, Answer(r), OthersStay, overlapped' = overlapped
    PROVE  SitesInv'
<1>1. RequestStep(r, Resting)
  BY RequestSet DEF Answer
<1>2. Remembers
  BY DEF Remembers
<1>3. OneChooses'
  BY <1>1, <1>2, ChooserMoves, RestingRow
<1> QED BY <1>1, <1>2, <1>3, HandlerStep, RestingRow

LEMMA CreateSiteInv == ASSUME SitesInv, NEW r \in Requests, CreateSite(r) PROVE SitesInv'
<1>1. PICK d \in Domains, t \in Runtimes :
         requests' = [requests EXCEPT ![r] =
                        [Resting EXCEPT !.pc = "domain", !.op = "site.create", !.domain = d, !.runtime = t]]
  BY DEF CreateSite
<1>2. PICK row : row = [Resting EXCEPT !.pc = "domain", !.op = "site.create", !.domain = d, !.runtime = t]
  OBVIOUS
<1>3. RequestShape(row) /\ row.pc = "domain" /\ row.op = "site.create" /\ row.port = NoPort
  <2>1. Resting.port = NoPort
    BY DEF Resting
  <2> QED BY <1>2, <2>1, SitePlaceholders DEF RequestShape, RequestFields, Ops
<1>4. RequestStep(r, row)
  BY <1>1, <1>2, RequestSet
<1>5. Placed(row, sites) /\ StillFree(row, sites)
  BY <1>3 DEF Placed, StillFree
<1>6. Begins(r, "site.create") /\ OthersStay
  BY DEF CreateSite, OthersStay, db, host
<1>7. OneChooses' /\ Remembers
  BY <1>3, <1>4, <1>6, ChooserBegins
<1> QED BY <1>3, <1>4, <1>5, <1>6, <1>7, HandlerStep

LEMMA CheckDomainInv == ASSUME SitesInv, NEW r \in Requests, CheckDomain(r) PROVE SitesInv'
<1>1. OthersStay /\ overlapped' = overlapped /\ requests[r].pc = "domain"
  BY DEF CheckDomain, OthersStay, db, host
<1>2. CASE Answer(r)
  BY <1>1, <1>2, AnswerStep
<1>3. ASSUME NEW pc \in {"port", "insert"}, Goto(r, pc), ~\E s \in Live : sites[s].domain = requests[r].domain
      PROVE  SitesInv'
  <2>1. PICK row : /\ RequestStep(r, row) /\ RequestShape(row) /\ row.pc = pc
                   /\ row.op = requests[r].op /\ row.site = requests[r].site
                   /\ row.domain = requests[r].domain /\ row.port = requests[r].port
    BY <1>3, RequestGoes
  <2>2. Placed(requests[r], sites)
    BY DEF SitesInv, TableInv, RequestInv
  <2>3. row.op = "site.create" /\ row.port = NoPort
    BY <1>1, <2>1, <2>2 DEF Placed
  <2>4. Placed(row, sites)
    BY <1>3, <2>1, <2>3 DEF Placed
  <2>5. \A s \in SiteIds : There(sites[s]) => sites[s].domain # row.domain
    BY <1>3, <2>1 DEF Live, Exists, There
  <2>6. StillFree(row, sites)
    BY <1>3, <2>1, <2>3, <2>5 DEF StillFree
  <2>7. Remembers /\ ChoosingRow(requests[r])
    BY <1>1, <2>1, <2>3 DEF Remembers, ChoosingRow, Takes
  <2>8. OneChooses'
    BY <2>1, <2>7, ChooserMoves
  <2> QED BY <1>1, <2>1, <2>4, <2>6, <2>7, <2>8, HandlerStep
<1> QED BY <1>2, <1>3 DEF CheckDomain

(* A set of naturals has a least element: the naturals are well-founded. *)
LEMMA LeastIn ==
    ASSUME NEW S \in SUBSET Nat, S # {}
    PROVE  Min(S) \in S
<1>1. IsWellFoundedOn({ss \in Nat \X Nat : ss[1] < ss[2]}, Nat)
  BY NatLessThanWellFounded DEF OpToRel
<1>2. PICK R : R = {ss \in Nat \X Nat : ss[1] < ss[2]}
  OBVIOUS
<1>3. PICK x \in S : \A y \in S : ~(<<y, x>> \in R)
  BY <1>1, <1>2, WFMin
<1>4. \A y \in S : ~(y < x)
  BY <1>2, <1>3
<1>5. \A y \in S : x =< y
  BY <1>4
<1> QED BY <1>5 DEF Min

LEMMA FindFreePortInv == ASSUME SitesInv, NEW r \in Requests, FindFreePort(r) PROVE SitesInv'
<1>1. OthersStay /\ overlapped' = overlapped /\ requests[r].pc = "port"
  BY DEF FindFreePort, OthersStay, db, host
<1>2. CASE Answer(r)
  BY <1>1, <1>2, AnswerStep
<1>3. ASSUME FreePorts # {},
             requests' = [requests EXCEPT ![r].pc = "insert", ![r].port = Min(FreePorts)]
      PROVE  SitesInv'
  <2>1. PICK p : p = Min(FreePorts)
    OBVIOUS
  <2>2. p \in Nat /\ p # NoPort /\ \A s \in SiteIds : There(sites[s]) => sites[s].port # p
    <3>1. FreePorts \in SUBSET Nat
      BY DEF FreePorts, AppPorts
    <3>2. p \in FreePorts
      BY <1>3, <2>1, <3>1, LeastIn
    <3>3. p \in AppPorts /\ p \notin {sites[s].port : s \in Live}
      BY <3>2 DEF FreePorts
    <3>4. p \in Nat /\ p # NoPort
      BY <3>3 DEF AppPorts, NoPort
    <3> QED BY <3>3, <3>4 DEF Live, Exists, There
  <2>3. PICK row : row = [requests[r] EXCEPT !.pc = "insert", !.port = p]
    OBVIOUS
  <2>4. RequestShape(requests[r]) /\ Placed(requests[r], sites)
    BY DEF SitesInv, TableInv, SitesShape, RequestInv
  <2>5. /\ RequestShape(row) /\ row.pc = "insert" /\ row.port = p
        /\ row.op = "site.create" /\ row.domain = requests[r].domain
    <3>1. requests[r].op = "site.create"
      BY <1>1, <2>4 DEF Placed
    <3> QED BY <2>2, <2>3, <2>4, <3>1 DEF RequestShape, RequestFields
  <2>6. RequestStep(r, row)
    <3>1. requests' = [requests EXCEPT ![r] = row]
      BY <1>3, <2>1, <2>3
    <3> QED BY <3>1, RequestSet
  <2>7. Placed(row, sites)
    BY <2>5 DEF Placed
  <2>8. Remembers /\ ChoosingRow(requests[r])
    BY <1>1, <2>4 DEF Remembers, ChoosingRow, Takes, Placed
  <2>9. OneChooses'
    BY <2>6, <2>8, ChooserMoves
  <2>10. ASSUME ~overlapped' PROVE StillFree(row, sites)
    <3>1. StillFree(requests[r], sites)
      BY <1>1, <2>10 DEF SitesInv, ChoiceInv
    <3> QED BY <1>1, <2>2, <2>5, <3>1 DEF StillFree
  <2> QED BY <1>1, <2>5, <2>6, <2>7, <2>8, <2>9, <2>10, HandlerStep
<1> QED BY <1>2, <1>3 DEF FindFreePort

(* Requests that begin by reading a row. *)
LEMMA ReadStep ==
    ASSUME SitesInv, NEW r \in Requests, NEW s \in Live, NEW op \in Ops \ {"site.create"}, NEW pc \in {"check", "write"},
           NEW p \in Nat, Read(r, s, op, pc, p), OthersStay,
           pc = "check" => op # "site.delete",
           pc = "write" /\ op \in Takes => p = sites[s].port
    PROVE  SitesInv'
<1>1. PICK row : row = [pc |-> pc, op |-> op, site |-> s, domain |-> sites[s].domain,
                        runtime |-> sites[s].runtime, port |-> p, old |-> sites[s].port, app |-> sites[s].app]
  OBVIOUS
<1>2. s \in SiteIds /\ There(sites[s]) /\ SiteShape(sites[s])
  BY DEF Live, Exists, There, SitesInv, TableInv, SitesShape
<1>3. /\ RequestShape(row) /\ row.pc = pc /\ row.op = op /\ row.site = s /\ row.domain = sites[s].domain
      /\ row.port = p
  BY <1>1, <1>2 DEF RequestShape, RequestFields, SiteShape
<1>4. requests' = [requests EXCEPT ![r] = row] /\ Begins(r, op)
  BY <1>1 DEF Read
<1>5. RequestStep(r, row)
  BY <1>4, RequestSet
<1>6. Placed(row, sites)
  BY <1>2, <1>3 DEF Placed, Known, There
<1>7. OneChooses' /\ Remembers
  BY <1>3, <1>4, <1>5, ChooserBegins
<1>8. ASSUME ~overlapped' PROVE StillFree(row, sites)
  <2>1. Distinct(sites)
    BY <1>7, <1>8 DEF SitesInv, DistinctInv, Remembers
  <2> QED BY <1>2, <1>3, <2>1 DEF Distinct, StillFree
<1> QED BY <1>3, <1>5, <1>6, <1>7, <1>8, HandlerStep

LEMMA ReadForDeleteInv == ASSUME SitesInv, NEW r \in Requests, ReadForDelete(r) PROVE SitesInv'
<1>1. PICK s \in Live : Read(r, s, "site.delete", "write", sites[s].port)
  BY DEF ReadForDelete
<1>2. OthersStay /\ sites[s].port \in Nat
  BY DEF ReadForDelete, OthersStay, db, host, Live, SitesInv, TableInv, SitesShape, SiteShape
<1> QED BY <1>1, <1>2, ReadStep DEF Ops, Takes

LEMMA ReadForAppInv == ASSUME SitesInv, NEW r \in Requests, ReadForApp(r) PROVE SitesInv'
<1>1. PICK s \in Live, op \in AppOps : Read(r, s, op, IF op = "app.stop" THEN "write" ELSE "check", sites[s].port)
  BY DEF ReadForApp
<1>2. OthersStay /\ sites[s].port \in Nat
  BY DEF ReadForApp, OthersStay, db, host, Live, SitesInv, TableInv, SitesShape, SiteShape
<1>3. op \in Ops \ {"site.create"} /\ op # "site.delete"
  BY DEF Ops, AppOps
<1>4. CASE op = "app.stop"
  BY <1>1, <1>2, <1>3, <1>4, ReadStep DEF Takes
<1>5. CASE op # "app.stop"
  BY <1>1, <1>2, <1>3, <1>5, ReadStep
<1> QED BY <1>4, <1>5

LEMMA ReadForConfigInv == ASSUME SitesInv, NEW r \in Requests, ReadForConfig(r) PROVE SitesInv'
<1>1. PICK s \in Live : \/ \E p \in AppPorts : Read(r, s, "config", "check", p)
                        \/ Read(r, s, "config", "write", sites[s].port)
  BY DEF ReadForConfig
<1>2. OthersStay /\ sites[s].port \in Nat
  BY DEF ReadForConfig, OthersStay, db, host, Live, SitesInv, TableInv, SitesShape, SiteShape
<1>3. "config" \in Ops \ {"site.create"}
  BY DEF Ops
<1>4. ASSUME NEW p \in AppPorts, Read(r, s, "config", "check", p) PROVE SitesInv'
  <2>1. p \in Nat
    BY DEF AppPorts
  <2> QED BY <1>2, <1>3, <1>4, <2>1, ReadStep
<1>5. CASE Read(r, s, "config", "write", sites[s].port)
  BY <1>2, <1>3, <1>5, ReadStep
<1> QED BY <1>1, <1>4, <1>5

LEMMA CheckPortInv == ASSUME SitesInv, NEW r \in Requests, CheckPort(r) PROVE SitesInv'
<1>1. OthersStay /\ overlapped' = overlapped /\ requests[r].pc = "check"
  BY DEF CheckPort, OthersStay, db, host
<1>2. CASE Answer(r)
  BY <1>1, <1>2, AnswerStep
<1>3. ASSUME PortAvailable(requests[r].site, requests[r].port), Goto(r, "write")
      PROVE  SitesInv'
  <2>1. PICK row : /\ RequestStep(r, row) /\ RequestShape(row) /\ row.pc = "write"
                   /\ row.op = requests[r].op /\ row.site = requests[r].site
                   /\ row.domain = requests[r].domain /\ row.port = requests[r].port
    BY <1>3, RequestGoes
  <2>2. Placed(requests[r], sites)
    BY DEF SitesInv, TableInv, RequestInv
  <2>3. Placed(row, sites)
    BY <1>1, <2>1, <2>2 DEF Placed
  <2>4. row.port # NoPort => \A s \in SiteIds : There(sites[s]) /\ s # row.site => sites[s].port # row.port
    BY <1>3, <2>1 DEF PortAvailable, Live, Exists, There
  <2>5. StillFree(row, sites)
    BY <2>1, <2>4 DEF StillFree
  <2>6. Remembers /\ (ChoosingRow(row) => ChoosingRow(requests[r]))
    BY <1>1, <2>1 DEF Remembers, ChoosingRow
  <2>7. OneChooses'
    BY <2>1, <2>6, ChooserMoves
  <2> QED BY <1>1, <2>1, <2>3, <2>5, <2>6, <2>7, HandlerStep
<1> QED BY <1>2, <1>3 DEF CheckPort

-----------------------------------------------------------------------------
(* Handlers that write the tables. *)

\* A request that chooses nothing has nothing to lose.
LEMMA NotChoosing ==
    ASSUME NEW req, NEW table, NEW other, Placed(req, table), ~ChoosingRow(req)
    PROVE  StillFree(req, other)
  BY DEF Placed, ChoosingRow, StillFree, Takes

\* The request that wrote what it chose was the only one that chose.
LEMMA ChooserWrites ==
    ASSUME SitesInv, Remembers, NEW r \in Requests, NEW row, RequestStep(r, row), ChoosingRow(requests[r]),
           row.pc \in {"idle", "enqueue"}
    PROVE  ChoiceInv' /\ OneChooses'
<1>1. OneChooses'
  BY ChooserMoves
<1>2. ASSUME ~overlapped', NEW q \in Requests PROVE StillFree(requests'[q], sites')
  <2>1. CASE q = r
    BY <2>1 DEF RequestStep, StillFree
  <2>2. CASE q # r
    <3>1. ~ChoosingRow(requests[q])
      BY <1>2, <2>2 DEF SitesInv, OneChooses, Remembers
    <3>2. Placed(requests[q], sites)
      BY DEF SitesInv, TableInv, RequestInv
    <3> QED BY <2>2, <3>1, <3>2, NotChoosing DEF RequestStep
  <2> QED BY <2>1, <2>2
<1> QED BY <1>1, <1>2 DEF ChoiceInv

LEMMA JobsStay ==
    ASSUME SitesInv, jobs' = jobs,
           \A s \in SiteIds : There(sites[s]) => There(sites'[s]) /\ sites'[s].domain = sites[s].domain
    PROVE  JobsInv'
  BY DEF SitesInv, TableInv, JobsInv, Belongs

\* Row s has port p, if it is there; statuses and domains stay.
PortWritten(s, p) ==
    /\ DOMAIN sites' = SiteIds
    /\ \A t \in SiteIds :
          /\ SiteShape(sites'[t]) /\ sites'[t].status = sites[t].status /\ sites'[t].domain = sites[t].domain
          /\ sites'[t].port = IF t = s /\ There(sites[t]) THEN p ELSE sites[t].port

LEMMA UpdateWrites ==
    ASSUME SitesInv, NEW s \in SiteIds, NEW row, UpdateSite(s, row), SiteShape(row),
           row.status = sites[s].status, row.domain = sites[s].domain
    PROVE  PortWritten(s, row.port)
<1>1. DOMAIN sites = SiteIds /\ \A t \in SiteIds : SiteShape(sites[t])
  BY DEF SitesInv, TableInv, SitesShape
<1>2. CASE Exists(s)
  <2>1. sites' = [sites EXCEPT ![s] = row] /\ There(sites[s])
    BY <1>2 DEF UpdateSite, Exists, There
  <2> QED BY <1>1, <2>1 DEF PortWritten
<1>3. CASE ~Exists(s)
  <2>1. sites' = sites /\ ~There(sites[s])
    BY <1>3 DEF UpdateSite, Exists, There
  <2> QED BY <1>1, <2>1 DEF PortWritten
<1> QED BY <1>2, <1>3

LEMMA WrittenTables ==
    ASSUME SitesInv, NEW s, NEW p, PortWritten(s, p), jobs' = jobs
    PROVE  TableStep /\ NoneActivated /\ LeavingStays /\ JobsInv'
<1>1. TableStep /\ NoneActivated
  BY DEF PortWritten, TableStep, NoneActivated, There
<1>2. LeavingStays
  BY DEF LeavingStays
<1>3. JobsInv'
  BY JobsStay DEF PortWritten, There
<1> QED BY <1>1, <1>2, <1>3

LEMMA WriteStep ==
    ASSUME SitesInv, NEW r \in Requests, NEW row, RequestStep(r, row), RequestShape(row),
           row.pc \in {"idle", "enqueue"}, Placed(row, sites), NEW s \in SiteIds, NEW p, PortWritten(s, p),
           UNCHANGED <<nextSite, jobs, nextJob, worker, vhost, overlapped>>,
           \/ p \in {NoPort, sites[s].port}
           \/ requests[r].pc = "write" /\ requests[r].op \in Takes /\ requests[r].site = s /\ requests[r].port = p
    PROVE  SitesInv'
<1>1. /\ jobs' = jobs /\ nextSite' = nextSite /\ nextJob' = nextJob /\ worker' = worker /\ vhost' = vhost
      /\ overlapped' = overlapped /\ Remembers
  BY DEF Remembers
<1>2. TableStep /\ NoneActivated /\ LeavingStays /\ JobsInv'
  BY <1>1, WrittenTables
<1>3. SitesShape'
  <2>1. DOMAIN requests' = Requests /\ \A q \in Requests : RequestShape(requests'[q])
    BY DEF RequestStep, SitesInv, TableInv, SitesShape
  <2> QED BY <1>1, <2>1 DEF SitesInv, TableInv, SitesShape, PortWritten
<1>4. FreshInv'
  BY <1>1 DEF SitesInv, TableInv, FreshInv, PortWritten
<1>5. RequestInv'
  BY <1>2, RequestMoves, PlacedRests
<1>6. WorkerInv' /\ ServedInv'
  BY <1>1, <1>2, WorkerRests, ServedRests
<1>7. OneChooses' /\ ChoiceInv' /\ DistinctInv'
  <2>1. CASE p \in {NoPort, sites[s].port}
    <3>1. NoneTaken
      BY <2>1 DEF NoneTaken, PortWritten, There
    <3>2. StillFree(row, sites') /\ ~ChoosingRow(row)
      BY DEF StillFree, ChoosingRow
    <3> QED BY <1>1, <3>1, <3>2, ChoiceMoves, ChooserMoves, DistinctRests
  <2>2. CASE requests[r].pc = "write" /\ requests[r].op \in Takes /\ requests[r].site = s /\ requests[r].port = p
    <3>1. ChoosingRow(requests[r])
      BY <2>2 DEF ChoosingRow
    <3>2. ASSUME ~overlapped PROVE Distinct(sites')
      <4>1. p # NoPort => \A t \in SiteIds : There(sites[t]) /\ t # s => sites[t].port # p
        BY <2>2, <3>2 DEF SitesInv, ChoiceInv, StillFree
      <4>2. Distinct(sites)
        BY <3>2 DEF SitesInv, DistinctInv
      <4> SUFFICES ASSUME NEW t \in SiteIds, NEW u \in SiteIds, There(sites'[t]), There(sites'[u]), t # u
                   PROVE  /\ sites'[t].domain # sites'[u].domain
                          /\ sites'[t].port # NoPort => sites'[t].port # sites'[u].port
        BY DEF Distinct
      <4>3. /\ There(sites[t]) /\ sites'[t].domain = sites[t].domain
            /\ sites'[t].port = IF t = s THEN p ELSE sites[t].port
            /\ There(sites[u]) /\ sites'[u].domain = sites[u].domain
            /\ sites'[u].port = IF u = s THEN p ELSE sites[u].port
        BY DEF PortWritten, There
      <4>4. sites[t].domain # sites[u].domain /\ (sites[t].port # NoPort => sites[t].port # sites[u].port)
        BY <4>2, <4>3 DEF Distinct
      <4> QED BY <4>1, <4>3, <4>4
    <3> QED BY <1>1, <3>1, <3>2, ChooserWrites DEF DistinctInv
  <2> QED BY <2>1, <2>2
<1> QED BY <1>2, <1>3, <1>4, <1>5, <1>6, <1>7 DEF SitesInv, TableInv

LEMMA InsertSiteInv == ASSUME SitesInv, NEW r \in Requests, InsertSite(r) PROVE SitesInv'
<1>1. /\ requests[r].pc = "insert" /\ jobs' = jobs /\ nextJob' = nextJob /\ worker' = worker /\ vhost' = vhost
      /\ overlapped' = overlapped /\ Remembers
  BY DEF InsertSite, host, Remembers
<1>2. CASE Answer(r) /\ UNCHANGED <<sites, nextSite>>
  BY <1>1, <1>2, AnswerStep DEF OthersStay
<1>3. ASSUME nextSite <= MaxSites,
             sites' = [sites EXCEPT ![nextSite] =
                         [status |-> "pending", domain |-> requests[r].domain,
                          runtime |-> requests[r].runtime, port |-> requests[r].port,
                          ssl |-> FALSE, app |-> "stopped"]],
             nextSite' = nextSite + 1,
             requests' = [requests EXCEPT ![r].pc = "enqueue", ![r].site = nextSite]
      PROVE  SitesInv'
  <2>1. PICK new : new = [status |-> "pending", domain |-> requests[r].domain, runtime |-> requests[r].runtime,
                          port |-> requests[r].port, ssl |-> FALSE, app |-> "stopped"]
    OBVIOUS
  <2>2. RequestShape(requests[r]) /\ Placed(requests[r], sites)
    BY DEF SitesInv, TableInv, SitesShape, RequestInv
  <2>3. /\ SiteShape(new) /\ new.status = "pending" /\ new.domain = requests[r].domain
        /\ new.port = requests[r].port
    BY <2>1, <2>2 DEF SiteShape, SiteFields, RequestShape
  <2>4. nextSite \in SiteIds /\ nextSite \in Nat \ {0} /\ sites[nextSite].status = "none"
    <3>1. nextSite \in Nat \ {0}
      BY DEF SitesInv, TableInv, SitesShape
    <3>2. MaxSites \in Nat
      BY SitesAssumption
    <3>3. nextSite \in SiteIds
      BY <1>3, <3>1, <3>2 DEF SiteIds
    <3> QED BY <3>1, <3>3 DEF SitesInv, TableInv, FreshInv
  <2>5. DOMAIN sites' = SiteIds /\ \A s \in SiteIds : sites'[s] = IF s = nextSite THEN new ELSE sites[s]
    BY <1>3, <2>1, <2>4 DEF SitesInv, TableInv, SitesShape
  <2>6. PICK row : row = [requests[r] EXCEPT !.pc = "enqueue", !.site = nextSite]
    OBVIOUS
  <2>7. /\ RequestShape(row) /\ row.pc = "enqueue" /\ row.site = nextSite /\ row.op = "site.create"
        /\ row.domain = requests[r].domain
    <3>1. requests[r].op = "site.create"
      BY <1>1, <2>2 DEF Placed
    <3> QED BY <2>2, <2>6, <3>1 DEF RequestShape, RequestFields
  <2>8. RequestStep(r, row)
    <3>1. requests' = [requests EXCEPT ![r] = row]
      BY <1>3, <2>6
    <3> QED BY <3>1, RequestSet
  <2>9. TableStep /\ NoneActivated
    BY <2>3, <2>4, <2>5 DEF TableStep, NoneActivated
  <2>10. LeavingStays
    BY <1>1 DEF LeavingStays
  <2>11. JobsInv'
    BY <1>1, <2>4, <2>5, JobsStay DEF There
  <2>12. Placed(row, sites')
    BY <2>3, <2>4, <2>5, <2>7 DEF Placed, Known
  <2>13. RequestInv'
    BY <2>8, <2>9, <2>12, RequestMoves
  <2>14. SitesShape'
    <3>1. DOMAIN requests' = Requests /\ \A q \in Requests : RequestShape(requests'[q])
      BY <2>7, <2>8 DEF RequestStep, SitesInv, TableInv, SitesShape
    <3>2. \A s \in SiteIds : SiteShape(sites'[s])
      BY <2>3, <2>5 DEF SitesInv, TableInv, SitesShape
    <3>3. nextSite' \in Nat \ {0}
      BY <1>3, <2>4
    <3> QED BY <1>1, <2>5, <3>1, <3>2, <3>3 DEF SitesInv, TableInv, SitesShape
  <2>15. FreshInv'
    <3>1. ASSUME NEW s \in SiteIds, s >= nextSite' PROVE sites'[s].status = "none"
      <4>1. s \in Nat /\ s >= nextSite /\ s # nextSite
        BY <1>3, <2>4, <3>1 DEF SiteIds
      <4> QED BY <2>5, <4>1 DEF SitesInv, TableInv, FreshInv
    <3> QED BY <1>1, <3>1 DEF SitesInv, TableInv, FreshInv
  <2>16. WorkerInv' /\ ServedInv'
    BY <1>1, <2>9, <2>10, WorkerRests, ServedRests
  <2>17. ChoosingRow(requests[r])
    BY <1>1, <2>2 DEF ChoosingRow, Takes, Placed
  <2>18. ChoiceInv' /\ OneChooses'
    BY <1>1, <2>7, <2>8, <2>17, ChooserWrites
  <2>19. DistinctInv'
    <3> SUFFICES ASSUME ~overlapped, NEW s \in SiteIds, NEW t \in SiteIds, There(sites'[s]), There(sites'[t]), s # t
                 PROVE  /\ sites'[s].domain # sites'[t].domain
                        /\ sites'[s].port # NoPort => sites'[s].port # sites'[t].port
      BY <1>1 DEF DistinctInv, Distinct
    <3>1. StillFree(requests[r], sites) /\ Distinct(sites)
      BY DEF SitesInv, ChoiceInv, DistinctInv
    <3>2. \A x \in SiteIds : There(sites[x]) =>
             /\ sites[x].domain # new.domain
             /\ new.port # NoPort => sites[x].port # new.port
      BY <1>1, <2>3, <3>1 DEF StillFree
    <3>3. CASE s = nextSite
      BY <2>5, <3>2, <3>3
    <3>4. CASE t = nextSite
      BY <2>5, <3>2, <3>4
    <3>5. CASE s # nextSite /\ t # nextSite
      BY <2>5, <3>1, <3>5 DEF Distinct
    <3> QED BY <3>3, <3>4, <3>5
  <2> QED BY <2>11, <2>13, <2>14, <2>15, <2>16, <2>18, <2>19 DEF SitesInv, TableInv
<1> QED BY <1>2, <1>3 DEF InsertSite

\* What a request at "write" knows of its site.
LEMMA AtWrite ==
    ASSUME SitesInv, NEW r \in Requests, requests[r].pc = "write"
    PROVE  /\ requests[r].site \in SiteIds /\ SiteShape(sites[requests[r].site])
           /\ Known(sites, requests[r].site, requests[r].domain)
           /\ RequestShape(requests[r]) /\ requests[r].op # "site.create"
<1>1. Placed(requests[r], sites) /\ RequestShape(requests[r])
  BY DEF SitesInv, TableInv, SitesShape, RequestInv
<1>2. Known(sites, requests[r].site, requests[r].domain) /\ requests[r].op # "site.create"
  BY <1>1 DEF Placed
<1> QED BY <1>1, <1>2 DEF Known, SitesInv, TableInv, SitesShape

LEMMA ClearAppPortInv == ASSUME SitesInv, NEW r \in Requests, ClearAppPort(r) PROVE SitesInv'
<1>1. requests[r].pc = "write" /\ requests[r].op = "site.delete" /\ Goto(r, "enqueue")
  BY DEF ClearAppPort
<1>2. PICK s : s = requests[r].site
  OBVIOUS
<1>3. PICK new : new = [sites[s] EXCEPT !.port = NoPort, !.app = "stopped"]
  OBVIOUS
<1>4. s \in SiteIds /\ SiteShape(sites[s]) /\ Known(sites, s, requests[r].domain)
  BY <1>1, <1>2, AtWrite
<1>5. SiteShape(new) /\ new.status = sites[s].status /\ new.domain = sites[s].domain /\ new.port = NoPort
  BY <1>3, <1>4 DEF SiteShape, SiteFields, NoPort
<1>6. UpdateSite(s, new)
  BY <1>2, <1>3 DEF ClearAppPort
<1>7. PortWritten(s, NoPort)
  BY <1>4, <1>5, <1>6, UpdateWrites
<1>8. PICK row : /\ RequestStep(r, row) /\ RequestShape(row) /\ row.pc = "enqueue"
                 /\ row.op = requests[r].op /\ row.site = requests[r].site
                 /\ row.domain = requests[r].domain /\ row.port = requests[r].port
  BY <1>1, RequestGoes
<1>9. Placed(row, sites)
  BY <1>1, <1>2, <1>4, <1>8 DEF Placed
<1>10. UNCHANGED <<nextSite, jobs, nextJob, worker, vhost, overlapped>>
  BY DEF ClearAppPort, host
<1> QED BY <1>4, <1>7, <1>8, <1>9, <1>10, WriteStep

LEMMA WriteAppStatusInv == ASSUME SitesInv, NEW r \in Requests, WriteAppStatus(r) PROVE SitesInv'
<1>1. requests[r].pc = "write" /\ requests[r].op \in AppOps /\ Goto(r, "enqueue")
  BY DEF WriteAppStatus
<1>2. PICK s : s = requests[r].site
  OBVIOUS
<1>3. PICK p \in {sites[s].port} \cup (IF requests[r].op = "app.start" THEN {requests[r].port} ELSE {}) :
         UpdateSite(s, [sites[s] EXCEPT !.app = Pending(requests[r].op), !.port = p])
  BY <1>2 DEF WriteAppStatus
<1>4. PICK new : new = [sites[s] EXCEPT !.app = Pending(requests[r].op), !.port = p]
  OBVIOUS
<1>5. /\ s \in SiteIds /\ SiteShape(sites[s]) /\ Known(sites, s, requests[r].domain)
      /\ RequestShape(requests[r])
  BY <1>1, <1>2, AtWrite
<1>6. p = sites[s].port \/ (requests[r].op = "app.start" /\ p = requests[r].port)
  BY <1>3
<1>7. SiteShape(new) /\ new.status = sites[s].status /\ new.domain = sites[s].domain /\ new.port = p
  <2>1. p \in Nat
    BY <1>5, <1>6 DEF SiteShape, RequestShape
  <2>2. PICK app : app = Pending(requests[r].op)
    OBVIOUS
  <2>3. new = [sites[s] EXCEPT !.app = app, !.port = p]
    BY <1>4, <2>2
  <2> QED BY <1>5, <2>1, <2>3 DEF SiteShape, SiteFields
<1>8. PortWritten(s, p)
  BY <1>3, <1>4, <1>5, <1>7, UpdateWrites
<1>9. PICK row : /\ RequestStep(r, row) /\ RequestShape(row) /\ row.pc = "enqueue"
                 /\ row.op = requests[r].op /\ row.site = requests[r].site
                 /\ row.domain = requests[r].domain /\ row.port = requests[r].port
  BY <1>1, RequestGoes
<1>10. Placed(row, sites)
  BY <1>1, <1>2, <1>5, <1>9 DEF Placed, AppOps
<1>11. UNCHANGED <<nextSite, jobs, nextJob, worker, vhost, overlapped>>
  BY DEF WriteAppStatus, host
<1>12. CASE p = sites[s].port
  BY <1>5, <1>8, <1>9, <1>10, <1>11, <1>12, WriteStep
<1>13. CASE requests[r].op = "app.start" /\ p = requests[r].port
  <2>1. requests[r].pc = "write" /\ requests[r].op \in Takes /\ requests[r].site = s /\ requests[r].port = p
    BY <1>1, <1>2, <1>13 DEF Takes
  <2> QED BY <1>5, <1>8, <1>9, <1>10, <1>11, <2>1, WriteStep
<1> QED BY <1>6, <1>12, <1>13

LEMMA WriteConfigInv == ASSUME SitesInv, NEW r \in Requests, WriteConfig(r) PROVE SitesInv'
<1>1. requests[r].pc = "write" /\ requests[r].op = "config"
  BY DEF WriteConfig
<1>2. PICK s, p : s = requests[r].site /\ p = requests[r].port
  OBVIOUS
<1>3. PICK new : new = [sites[s] EXCEPT !.port = p, !.app = requests[r].app]
  OBVIOUS
<1>4. /\ s \in SiteIds /\ SiteShape(sites[s]) /\ Known(sites, s, requests[r].domain)
      /\ RequestShape(requests[r]) /\ p \in Nat
  BY <1>1, <1>2, AtWrite DEF RequestShape
<1>5. SiteShape(new) /\ new.status = sites[s].status /\ new.domain = sites[s].domain /\ new.port = p
  BY <1>3, <1>4 DEF SiteShape, SiteFields
<1>6. UpdateSite(s, new)
  BY <1>2, <1>3 DEF WriteConfig
<1>7. PortWritten(s, p)
  BY <1>4, <1>5, <1>6, UpdateWrites
<1>8. UNCHANGED <<nextSite, jobs, nextJob, worker, vhost, overlapped>>
  BY DEF WriteConfig, host
<1>9. requests[r].pc = "write" /\ requests[r].op \in Takes /\ requests[r].site = s /\ requests[r].port = p
  BY <1>1, <1>2 DEF Takes
<1>10. CASE Answer(r)
  <2>1. RequestStep(r, Resting)
    BY <1>10, RequestSet DEF Answer
  <2> QED BY <1>4, <1>7, <1>8, <1>9, <2>1, WriteStep, RestingRow, SitePlaceholders
<1>11. CASE requests' = [requests EXCEPT ![r].pc = "enqueue", ![r].op = "site.create"]
  <2>1. PICK row : row = [requests[r] EXCEPT !.pc = "enqueue", !.op = "site.create"]
    OBVIOUS
  <2>2. /\ RequestShape(row) /\ row.pc = "enqueue" /\ row.op = "site.create" /\ row.site = s
        /\ row.domain = requests[r].domain
    BY <1>2, <1>4, <2>1 DEF RequestShape, RequestFields, Ops
  <2>3. RequestStep(r, row)
    <3>1. requests' = [requests EXCEPT ![r] = row]
      BY <1>11, <2>1
    <3> QED BY <3>1, RequestSet
  <2>4. Placed(row, sites)
    BY <1>4, <2>2 DEF Placed
  <2> QED BY <1>4, <1>7, <1>8, <1>9, <2>2, <2>3, <2>4, WriteStep
<1> QED BY <1>10, <1>11 DEF WriteConfig

\* A new job row, of a site that exists.
JobInserted(job) ==
    /\ nextJob \in JobIds /\ nextJob' = nextJob + 1 /\ DOMAIN jobs' = JobIds
    /\ \A j \in JobIds : jobs'[j] = IF j = nextJob THEN job ELSE jobs[j]

LEMMA InsertedJob ==
    ASSUME SitesInv, NEW type \in JobTypesOfSites, NEW s, NEW d \in Domains, NEW p \in Nat, Inserted(type, s, d, p)
    PROVE  \E job : /\ JobInserted(job) /\ JobShape(job) /\ job.type = type /\ job.site = s /\ job.domain = d
                    /\ s \in SiteIds /\ There(sites[s])
<1>1. PICK job : job = [state |-> "queued", type |-> type, site |-> s, domain |-> d, port |-> p, attempts |-> 0]
  OBVIOUS
<1>2. JobShape(job) /\ job.type = type /\ job.site = s /\ job.domain = d
  BY <1>1 DEF JobShape, JobFields
<1>3. s \in SiteIds /\ There(sites[s]) /\ nextJob <= MaxJobs /\ nextJob' = nextJob + 1
  BY DEF Inserted, Exists, There
<1>4. nextJob \in JobIds
  <2>1. nextJob \in Nat \ {0} /\ MaxJobs \in Nat
    BY SitesAssumption DEF SitesInv, TableInv, SitesShape
  <2> QED BY <1>3, <2>1 DEF JobIds
<1>5. jobs' = [jobs EXCEPT ![nextJob] = job]
  BY <1>1 DEF Inserted
<1>6. JobInserted(job)
  BY <1>3, <1>4, <1>5 DEF JobInserted, SitesInv, TableInv, SitesShape
<1> QED BY <1>2, <1>3, <1>6

LEMMA InsertedTables ==
    ASSUME SitesInv, sites' = sites, nextSite' = nextSite, NEW job, JobInserted(job), JobShape(job),
           job.site \in SiteIds, There(sites[job.site]), sites[job.site].domain = job.domain
    PROVE  /\ TableStep /\ NoneActivated /\ NoneTaken /\ LeavingStays /\ JobsInv' /\ FreshInv'
           /\ DOMAIN jobs' = JobIds /\ nextJob' \in Nat \ {0} /\ \A j \in JobIds : JobShape(jobs'[j])
<1>1. TableStep /\ NoneActivated /\ NoneTaken
  BY DEF TableStep, NoneActivated, NoneTaken
<1>2. nextJob \in Nat \ {0} /\ nextJob \in JobIds /\ jobs[nextJob] = NoJob
  BY DEF JobInserted, SitesInv, TableInv, SitesShape, FreshInv
<1>3. LeavingStays
  BY <1>2, SitePlaceholders DEF LeavingStays, JobInserted
<1>4. JobsInv'
  BY DEF JobsInv, JobInserted, Belongs, SitesInv, TableInv
<1>5. FreshInv'
  <2>1. ASSUME NEW j \in JobIds, j >= nextJob' PROVE jobs'[j] = NoJob
    <3>1. j \in Nat /\ j >= nextJob /\ j # nextJob
      BY <1>2, <2>1 DEF JobInserted, JobIds
    <3> QED BY <3>1 DEF JobInserted, SitesInv, TableInv, FreshInv
  <2> QED BY <2>1 DEF SitesInv, TableInv, FreshInv
<1>6. DOMAIN jobs' = JobIds /\ nextJob' \in Nat \ {0} /\ \A j \in JobIds : JobShape(jobs'[j])
  BY <1>2 DEF JobInserted, SitesInv, TableInv, SitesShape
<1> QED BY <1>1, <1>3, <1>4, <1>5, <1>6

LEMMA EnqueueInv == ASSUME SitesInv, NEW r \in Requests, Enqueue(r) PROVE SitesInv'
<1>1. /\ requests[r].pc = "enqueue" /\ sites' = sites /\ nextSite' = nextSite /\ worker' = worker
      /\ vhost' = vhost /\ overlapped' = overlapped /\ Remembers
  BY DEF Enqueue, host, Remembers
<1>2. CASE Answer(r) /\ UNCHANGED <<jobs, nextJob>>
  BY <1>1, <1>2, AnswerStep DEF OthersStay
<1>3. ASSUME Inserted(requests[r].op, requests[r].site, requests[r].domain, requests[r].port),
             IF requests[r].op = "site.delete" THEN Goto(r, "delete") ELSE Answer(r)
      PROVE  SitesInv'
  <2>1. RequestShape(requests[r]) /\ Placed(requests[r], sites)
    BY DEF SitesInv, TableInv, SitesShape, RequestInv
  <2>2. /\ requests[r].op \in JobTypesOfSites /\ requests[r].domain \in Domains /\ requests[r].port \in Nat
        /\ Known(sites, requests[r].site, requests[r].domain)
    BY <1>1, <2>1 DEF RequestShape, Placed, Ops, JobTypesOfSites
  <2>3. PICK job : /\ JobInserted(job) /\ JobShape(job) /\ job.site = requests[r].site
                   /\ job.domain = requests[r].domain /\ job.site \in SiteIds /\ There(sites[job.site])
    <3>1. PICK type, s, d, p : /\ type = requests[r].op /\ s = requests[r].site
                               /\ d = requests[r].domain /\ p = requests[r].port
      OBVIOUS
    <3>2. Inserted(type, s, d, p) /\ type \in JobTypesOfSites /\ d \in Domains /\ p \in Nat
      BY <1>3, <2>2, <3>1
    <3>3. PICK job : /\ JobInserted(job) /\ JobShape(job) /\ job.type = type /\ job.site = s /\ job.domain = d
                     /\ s \in SiteIds /\ There(sites[s])
      BY <3>2, InsertedJob
    <3> QED BY <3>1, <3>3
  <2>4. /\ TableStep /\ NoneActivated /\ NoneTaken /\ LeavingStays /\ JobsInv' /\ FreshInv'
        /\ DOMAIN jobs' = JobIds /\ nextJob' \in Nat \ {0} /\ \A j \in JobIds : JobShape(jobs'[j])
    BY <1>1, <2>2, <2>3, InsertedTables DEF Known
  <2>5. PICK row : RequestStep(r, row) /\ RequestShape(row) /\ Placed(row, sites) /\ row.pc \in {"idle", "delete"}
    <3>1. CASE requests[r].op = "site.delete"
      <4>1. PICK row : /\ RequestStep(r, row) /\ RequestShape(row) /\ row.pc = "delete"
                       /\ row.op = requests[r].op /\ row.site = requests[r].site
                       /\ row.domain = requests[r].domain /\ row.port = requests[r].port
        BY <1>3, <3>1, RequestGoes
      <4>2. Placed(row, sites)
        BY <2>2, <4>1 DEF Placed
      <4> QED BY <4>1, <4>2
    <3>2. CASE requests[r].op # "site.delete"
      <4>1. RequestStep(r, Resting)
        BY <1>3, <3>2, RequestSet DEF Answer
      <4> QED BY <4>1, RestingRow, SitePlaceholders
    <3> QED BY <3>1, <3>2
  <2>6. StillFree(row, sites') /\ ~ChoosingRow(row)
    BY <2>5 DEF StillFree, ChoosingRow
  <2>7. RequestInv' /\ ChoiceInv' /\ OneChooses'
    BY <1>1, <2>4, <2>5, <2>6, RequestMoves, ChoiceMoves, ChooserMoves
  <2>8. WorkerInv' /\ ServedInv' /\ DistinctInv'
    BY <1>1, <2>4, WorkerRests, ServedRests, DistinctRests
  <2>9. SitesShape'
    <3>1. DOMAIN requests' = Requests /\ \A q \in Requests : RequestShape(requests'[q])
      BY <2>5 DEF RequestStep, SitesInv, TableInv, SitesShape
    <3> QED BY <1>1, <2>4, <3>1 DEF SitesInv, TableInv, SitesShape
  <2> QED BY <2>4, <2>7, <2>8, <2>9 DEF SitesInv, TableInv
<1> QED BY <1>2, <1>3 DEF Enqueue

LEMMA DeleteSiteInv == ASSUME SitesInv, NEW r \in Requests, DeleteSite(r) PROVE SitesInv'
<1>1. /\ requests[r].pc = "delete" /\ nextSite' = nextSite /\ nextJob' = nextJob /\ worker' = worker
      /\ vhost' = vhost /\ overlapped' = overlapped /\ Remembers /\ Answer(r)
  BY DEF DeleteSite, host, Remembers
<1>2. PICK s : s = requests[r].site
  OBVIOUS
<1>3. s \in SiteIds
  BY <1>1, <1>2 DEF SitesInv, TableInv, RequestInv, Placed, Known
<1>4. DOMAIN jobs' = JobIds /\ \A j \in JobIds : jobs'[j] = IF jobs[j].site = s THEN NoJob ELSE jobs[j]
  BY <1>2 DEF DeleteSite
<1>5. /\ DOMAIN sites' = SiteIds
      /\ \A t \in SiteIds :
            /\ SiteShape(sites'[t]) /\ sites'[t].domain = sites[t].domain /\ sites'[t].port = sites[t].port
            /\ sites'[t].status = IF t = s /\ There(sites[t]) THEN "gone" ELSE sites[t].status
  <2>1. sites' = IF Exists(s) THEN [sites EXCEPT ![s].status = "gone"] ELSE sites
    BY <1>2 DEF DeleteSite
  <2>2. DOMAIN sites = SiteIds /\ \A t \in SiteIds : SiteShape(sites[t])
    BY DEF SitesInv, TableInv, SitesShape
  <2>3. Exists(s) <=> There(sites[s])
    BY <1>3 DEF Exists, There
  <2>4. CASE Exists(s)
    <3>1. PICK new : new = [sites[s] EXCEPT !.status = "gone"]
      OBVIOUS
    <3>2. /\ SiteShape(new) /\ new.domain = sites[s].domain /\ new.port = sites[s].port /\ new.status = "gone"
      BY <1>3, <2>2, <3>1 DEF SiteShape, SiteFields
    <3>3. sites' = [sites EXCEPT ![s] = new]
      BY <2>1, <2>4, <3>1
    <3> QED BY <1>3, <2>2, <2>3, <2>4, <3>2, <3>3
  <2>5. CASE ~Exists(s)
    BY <2>1, <2>2, <2>3, <2>5
  <2> QED BY <2>4, <2>5
<1>6. TableStep /\ NoneActivated /\ NoneTaken
  BY <1>5 DEF TableStep, NoneActivated, NoneTaken, There
<1>7. LeavingStays
  BY <1>4, <1>5 DEF LeavingStays, There
<1>8. RequestStep(r, Resting)
  BY <1>1, RequestSet DEF Answer
<1>9. RequestInv' /\ ChoiceInv' /\ OneChooses'
  BY <1>1, <1>6, <1>8, RestingRow, RequestMoves, ChoiceMoves, ChooserMoves
<1>10. WorkerInv' /\ ServedInv' /\ DistinctInv'
  BY <1>1, <1>6, <1>7, WorkerRests, ServedRests, DistinctRests
<1>11. JobsInv'
  <2> SUFFICES ASSUME NEW j \in JobIds PROVE Belongs(jobs'[j], sites')
    BY DEF JobsInv
  <2>1. CASE jobs[j].site = s
    BY <1>4, <2>1, SitePlaceholders DEF Belongs
  <2>2. CASE jobs[j].site # s
    BY <1>4, <1>5, <2>2 DEF Belongs, There, SitesInv, TableInv, JobsInv
  <2> QED BY <2>1, <2>2
<1>12. FreshInv'
  BY <1>1, <1>4, <1>5 DEF SitesInv, TableInv, FreshInv, There
<1>13. SitesShape'
  <2>1. DOMAIN requests' = Requests /\ \A q \in Requests : RequestShape(requests'[q])
    BY <1>8, RestingRow DEF RequestStep, SitesInv, TableInv, SitesShape
  <2>2. \A j \in JobIds : JobShape(jobs'[j])
    BY <1>4, SitePlaceholders DEF SitesInv, TableInv, SitesShape
  <2> QED BY <1>1, <1>4, <1>5, <2>1, <2>2 DEF SitesInv, TableInv, SitesShape
<1> QED BY <1>9, <1>10, <1>11, <1>12, <1>13 DEF SitesInv, TableInv

-----------------------------------------------------------------------------
(* The worker. *)

LEMMA KeptJobs ==
    ASSUME SitesInv, JobRowsKeep, sites' = sites, nextSite' = nextSite
    PROVE  /\ LeavingStays /\ JobsInv' /\ FreshInv' /\ nextJob' = nextJob
           /\ DOMAIN jobs' = JobIds /\ \A j \in JobIds : JobShape(jobs'[j])
<1>1. LeavingStays
  BY DEF JobRowsKeep, LeavingStays
<1>2. \A j \in JobIds : JobShape(jobs'[j])
  BY DEF JobRowsKeep, JobShape, SitesInv, TableInv, SitesShape
<1>3. JobsInv'
  BY DEF JobRowsKeep, JobsInv, Belongs, SitesInv, TableInv
<1>4. FreshInv'
  BY SitePlaceholders DEF JobRowsKeep, FreshInv, SitesInv, TableInv
<1> QED BY <1>1, <1>2, <1>3, <1>4 DEF JobRowsKeep

LEMMA JobSet ==
    ASSUME SitesInv, NEW j, NEW state, SetJob(j, state), nextJob' = nextJob
    PROVE  JobRowsKeep
<1>1. DOMAIN jobs = JobIds /\ \A i \in JobIds : DOMAIN jobs[i] = JobFields
  BY DEF SitesInv, TableInv, SitesShape, JobShape
<1>2. CASE jobs[j].state = "none"
  BY <1>1, <1>2 DEF SetJob, JobRowsKeep
<1>3. CASE jobs[j].state # "none"
  <2>1. PICK new : new = [jobs[j] EXCEPT !.state = state]
    OBVIOUS
  <2>2. jobs' = [jobs EXCEPT ![j] = new]
    BY <1>3, <2>1 DEF SetJob
  <2>3. ASSUME j \in JobIds
        PROVE  /\ DOMAIN new = DOMAIN jobs[j] /\ new.type = jobs[j].type /\ new.site = jobs[j].site
               /\ new.domain = jobs[j].domain /\ new.port = jobs[j].port
    BY <1>1, <2>1, <2>3 DEF JobFields
  <2> QED BY <1>1, <1>3, <2>2, <2>3 DEF JobRowsKeep
<1> QED BY <1>2, <1>3

\* What remains to show of a step of the worker that leaves sites and requests.
LEMMA WorkerStep ==
    ASSUME SitesInv, sites' = sites, nextSite' = nextSite, requests' = requests, overlapped' = overlapped,
           JobRowsKeep, WorkerInv', ServedInv', DOMAIN vhost' = Domains,
           DOMAIN worker' = {"pc", "job", "id", "up"}, JobShape(worker'.job),
           worker'.pc \in {"idle", "claimed", "executed", "post", "ssl"}
    PROVE  SitesInv'
<1>1. TableStep /\ NoneTaken /\ Remembers
  BY DEF TableStep, NoneTaken, Remembers
<1>2. JobsInv' /\ FreshInv' /\ nextJob' = nextJob /\ DOMAIN jobs' = JobIds /\ \A j \in JobIds : JobShape(jobs'[j])
  BY KeptJobs
<1>3. RequestInv' /\ ChoiceInv' /\ OneChooses' /\ DistinctInv'
  BY <1>1, RequestsRest, ChoiceRests, OneChoosesRests, DistinctRests
<1>4. SitesShape'
  BY <1>2 DEF SitesInv, TableInv, SitesShape
<1> QED BY <1>2, <1>3, <1>4 DEF SitesInv, TableInv

LEMMA ServedKept ==
    ASSUME SitesInv, JobRowsKeep, sites' = sites, nextSite' = nextSite, overlapped' = overlapped, vhost' = vhost
    PROVE  ServedInv'
<1>1. NoneActivated /\ Remembers
  BY DEF NoneActivated, Remembers
<1> QED BY <1>1, KeptJobs, ServedRests

LEMMA QueueStep ==
    ASSUME SitesInv, JobRowsKeep, UNCHANGED <<sites, nextSite, requests, worker, vhost, overlapped>>
    PROVE  SitesInv'
<1>1. TableStep /\ NoneActivated /\ Remembers
  BY DEF TableStep, NoneActivated, Remembers
<1>2. WorkerInv'
  BY <1>1, KeptJobs, WorkerRests
<1>3. ServedInv'
  BY ServedKept
<1> QED BY <1>2, <1>3, WorkerStep DEF SitesInv, TableInv, SitesShape

LEMMA RetryDueInv == ASSUME SitesInv, NEW j \in JobIds, RetryDue(j) PROVE SitesInv'
<1>1. SetJob(j, "queued") /\ nextJob' = nextJob
  BY DEF RetryDue, SetJob
<1>2. JobRowsKeep
  BY <1>1, JobSet
<1> QED BY <1>2, QueueStep DEF RetryDue, host

LEMMA EndJobInv == ASSUME SitesInv, NEW j \in JobIds, EndJob(j) PROVE SitesInv'
<1>1. SetJob(j, "failed") /\ nextJob' = nextJob
  BY DEF EndJob
<1>2. JobRowsKeep
  BY <1>1, JobSet
<1> QED BY <1>2, QueueStep DEF EndJob, host

LEMMA ClaimInv == ASSUME SitesInv, NEW j \in JobIds, Claim(j) PROVE SitesInv'
<1>1. /\ jobs[j].state = "queued" /\ UNCHANGED <<sites, nextSite, nextJob, requests, vhost, overlapped>>
      /\ worker' = [pc |-> "claimed", job |-> jobs'[j], id |-> j, up |-> FALSE]
  BY DEF Claim, host
<1>2. DOMAIN jobs = JobIds /\ \A i \in JobIds : DOMAIN jobs[i] = JobFields
  BY DEF SitesInv, TableInv, SitesShape, JobShape
<1>3. PICK new : new = [jobs[j] EXCEPT !.state = "running", !.attempts = @ + 1]
  OBVIOUS
<1>4. jobs' = [jobs EXCEPT ![j] = new]
  BY <1>3 DEF Claim
<1>5. /\ DOMAIN new = DOMAIN jobs[j] /\ new.type = jobs[j].type /\ new.site = jobs[j].site
      /\ new.domain = jobs[j].domain /\ new.port = jobs[j].port
  BY <1>2, <1>3 DEF JobFields
<1>6. JobRowsKeep
  BY <1>1, <1>2, <1>4, <1>5 DEF JobRowsKeep
<1>7. /\ DOMAIN worker' = {"pc", "job", "id", "up"} /\ worker'.pc = "claimed" /\ worker'.job = new
  BY <1>1, <1>2, <1>4
<1>8. JobShape(new)
  BY <1>5 DEF JobShape, SitesInv, TableInv, SitesShape
<1>9. new.site \in SiteIds /\ There(sites[new.site]) /\ sites[new.site].domain = new.domain
  BY <1>1, <1>5 DEF SitesInv, TableInv, JobsInv, Belongs
<1>10. WorkerInv'
  <2>1. new.type = "site.delete" => jobs'[j].type = "site.delete" /\ jobs'[j].site = new.site
    BY <1>2, <1>4
  <2>2. Known(sites, new.site, new.domain)
    BY <1>9 DEF Known, There
  <2> QED BY <1>1, <1>7, <1>9, <2>1, <2>2 DEF WorkerInv, Known
<1>11. ServedInv'
  BY <1>1, <1>6, ServedKept
<1> QED BY <1>1, <1>6, <1>7, <1>8, <1>10, <1>11, WorkerStep DEF SitesInv, TableInv, SitesShape

\* What a call to the agent may do to the vhosts.
VhostStep(job) ==
    /\ DOMAIN vhost' = Domains
    /\ \A d \in Domains : \/ vhost'[d] \in {vhost[d], job.port}
                          \/ job.type = "site.delete" /\ d = job.domain

LEMMA AppliedVhosts ==
    ASSUME DOMAIN vhost = Domains, NEW job, JobShape(job), Applied(job)
    PROVE  VhostStep(job) /\ (job.type = "site.create" => vhost'[job.domain] = job.port)
<1>1. job.domain \in Domains
  BY DEF JobShape
<1>2. CASE job.type = "site.create"
  <2>1. vhost' = [vhost EXCEPT ![job.domain] = job.port]
    BY <1>2 DEF Applied
  <2> QED BY <1>1, <1>2, <2>1 DEF VhostStep
<1>3. CASE job.type = "site.delete"
  <2>1. vhost' = [vhost EXCEPT ![job.domain] = Absent]
    BY <1>3 DEF Applied
  <2> QED BY <1>1, <1>3, <2>1 DEF VhostStep
<1>4. CASE job.type \in AppOps \cup {"ssl.issue"}
  <2>1. vhost' = vhost
    BY <1>4 DEF Applied, AppOps, host
  <2> QED BY <1>4, <2>1 DEF VhostStep, AppOps
<1> QED BY <1>2, <1>3, <1>4 DEF JobShape, JobTypesOfSites

LEMMA CalledServed ==
    ASSUME SitesInv, worker.pc = "claimed", VhostStep(worker.job), JobRowsKeep,
           sites' = sites, nextSite' = nextSite, overlapped' = overlapped
    PROVE  ServedInv'
<1> SUFFICES ASSUME ~overlapped, NEW s \in SiteIds, sites[s].status = "active", ~Leaving(jobs', s)
             PROVE  vhost'[sites[s].domain] # Absent
  BY DEF ServedInv
<1>1. ~Leaving(jobs, s)
  BY DEF Leaving, JobRowsKeep
<1>2. vhost[sites[s].domain] # Absent /\ sites[s].domain \in Domains
  BY <1>1 DEF SitesInv, ServedInv, TableInv, SitesShape, SiteShape
<1>3. worker.job.port # Absent
  BY DEF SitesInv, TableInv, SitesShape, JobShape, Absent
<1>4. CASE worker.job.type = "site.delete" /\ worker.job.domain = sites[s].domain
  <2>1. worker.job.site \in SiteIds /\ sites[worker.job.site].domain = sites[s].domain
    BY <1>4 DEF SitesInv, WorkerInv, Known
  <2>2. There(sites[worker.job.site])
    BY <1>4 DEF SitesInv, WorkerInv
  <2>3. s = worker.job.site
    BY <2>1, <2>2 DEF SitesInv, DistinctInv, Distinct, There
  <2>4. Leaving(jobs, worker.job.site)
    BY <1>4, <2>2 DEF SitesInv, WorkerInv, Leaving
  <2> QED BY <1>1, <2>3, <2>4
<1>5. CASE ~(worker.job.type = "site.delete" /\ worker.job.domain = sites[s].domain)
  BY <1>2, <1>3, <1>5 DEF VhostStep
<1> QED BY <1>4, <1>5

LEMMA ExecuteSucceedsInv == ASSUME SitesInv, ExecuteSucceeds PROVE SitesInv'
<1>1. /\ worker.pc = "claimed" /\ Applied(worker.job)
      /\ UNCHANGED <<sites, nextSite, jobs, nextJob, requests, overlapped>>
  BY DEF ExecuteSucceeds, db
<1>2. PICK x : worker' = [worker EXCEPT !.pc = "executed", !.up = x]
  BY DEF ExecuteSucceeds
<1>3. DOMAIN worker' = {"pc", "job", "id", "up"} /\ worker'.pc = "executed" /\ worker'.job = worker.job
  BY <1>2 DEF SitesInv, TableInv, SitesShape
<1>4. JobShape(worker.job) /\ DOMAIN vhost = Domains
  BY DEF SitesInv, TableInv, SitesShape
<1>5. VhostStep(worker.job) /\ (worker.job.type = "site.create" => vhost'[worker.job.domain] = worker.job.port)
  BY <1>1, <1>4, AppliedVhosts
<1>6. JobRowsKeep
  BY <1>1 DEF JobRowsKeep, SitesInv, TableInv, SitesShape
<1>7. ServedInv'
  BY <1>1, <1>5, <1>6, CalledServed
<1>8. WorkerInv'
  <2>1. worker.job.port # Absent
    BY <1>4 DEF JobShape, Absent
  <2>2. Known(sites, worker.job.site, worker.job.domain)
    BY <1>1 DEF SitesInv, WorkerInv
  <2> QED BY <1>1, <1>3, <1>5, <2>1, <2>2 DEF WorkerInv, Known
<1> QED BY <1>1, <1>3, <1>4, <1>5, <1>6, <1>7, <1>8, WorkerStep DEF VhostStep

LEMMA IdleWorker == ASSUME worker' = Idle PROVE WorkerInv'
<1>1. worker'.pc = "idle"
  BY SitePlaceholders
<1> QED BY <1>1 DEF WorkerInv

LEMMA ExecuteFailsInv == ASSUME SitesInv, ExecuteFails PROVE SitesInv'
<1>1. /\ worker.pc = "claimed" /\ worker' = Idle /\ (Applied(worker.job) \/ vhost' = vhost)
      /\ UNCHANGED <<sites, nextSite, nextJob, requests, overlapped>>
  BY DEF ExecuteFails, host
<1>2. JobRowsKeep
  BY <1>1, JobSet DEF ExecuteFails
<1>3. VhostStep(worker.job)
  <2>1. JobShape(worker.job) /\ DOMAIN vhost = Domains
    BY DEF SitesInv, TableInv, SitesShape
  <2>2. CASE Applied(worker.job)
    BY <2>1, <2>2, AppliedVhosts
  <2>3. CASE vhost' = vhost
    BY <2>1, <2>3 DEF VhostStep
  <2> QED BY <1>1, <2>2, <2>3
<1>4. ServedInv'
  BY <1>1, <1>2, <1>3, CalledServed
<1>5. WorkerInv'
  BY <1>1, IdleWorker
<1> QED BY <1>1, <1>2, <1>3, <1>4, <1>5, WorkerStep, SitePlaceholders DEF VhostStep

LEMMA MarkCompletedInv == ASSUME SitesInv, MarkCompleted PROVE SitesInv'
<1>1. /\ worker.pc = "executed" /\ worker' = [worker EXCEPT !.pc = "post"]
      /\ UNCHANGED <<sites, nextSite, nextJob, requests, overlapped, vhost>>
  BY DEF MarkCompleted, host
<1>2. JobRowsKeep
  BY <1>1, JobSet DEF MarkCompleted
<1>3. DOMAIN worker' = {"pc", "job", "id", "up"} /\ worker'.pc = "post" /\ worker'.job = worker.job
  BY <1>1 DEF SitesInv, TableInv, SitesShape
<1>4. ServedInv'
  BY <1>1, <1>2, ServedKept
<1>5. WorkerInv'
  BY <1>1, <1>3 DEF SitesInv, WorkerInv, Known
<1> QED BY <1>1, <1>2, <1>3, <1>4, <1>5, WorkerStep DEF SitesInv, TableInv, SitesShape

LEMMA PostSuccessInv == ASSUME SitesInv, PostSuccess PROVE SitesInv'
<1>1. /\ worker.pc = "post" /\ UNCHANGED <<nextSite, jobs, nextJob, requests, overlapped, vhost>>
      /\ worker' = IF worker.job.type = "site.create" THEN [worker EXCEPT !.pc = "ssl"] ELSE Idle
      /\ Remembers
  BY DEF PostSuccess, host, Remembers
<1>2. PICK s : s = worker.job.site
  OBVIOUS
<1>3. PICK new : new = Outcome(sites[s])
  OBVIOUS
<1>4. s \in SiteIds /\ sites[s].domain = worker.job.domain /\ SiteShape(sites[s]) /\ JobShape(worker.job)
  BY <1>1, <1>2 DEF SitesInv, WorkerInv, Known, TableInv, SitesShape
<1>5. /\ SiteShape(new) \/ ~There(sites[s])
      /\ There(sites[s]) => /\ new.domain = sites[s].domain /\ new.port = sites[s].port
                            /\ new.status = IF worker.job.type = "site.create" THEN "active" ELSE sites[s].status
  <2>1. CASE worker.job.type = "site.create"
    <3>1. new = [sites[s] EXCEPT !.status = "active"]
      BY <1>3, <2>1 DEF Outcome
    <3> QED BY <1>4, <2>1, <3>1 DEF SiteShape, SiteFields
  <2>2. CASE worker.job.type = "ssl.issue"
    <3>1. new = [sites[s] EXCEPT !.ssl = TRUE]
      BY <1>3, <2>2 DEF Outcome
    <3> QED BY <1>4, <2>2, <3>1 DEF SiteShape, SiteFields
  <2>3. CASE worker.job.type \in {"app.start", "app.restart"}
    <3>1. PICK app : app = IF worker.up THEN "running" ELSE "errored"
      OBVIOUS
    <3>2. new = [sites[s] EXCEPT !.app = app]
      BY <1>3, <2>3, <3>1 DEF Outcome
    <3> QED BY <1>4, <2>3, <3>2 DEF SiteShape, SiteFields
  <2>4. CASE worker.job.type = "app.stop"
    <3>1. new = [sites[s] EXCEPT !.app = "stopped"]
      BY <1>3, <2>4 DEF Outcome
    <3> QED BY <1>4, <2>4, <3>1 DEF SiteShape, SiteFields
  <2>5. CASE worker.job.type = "site.delete"
    <3>1. new = sites[s]
      BY <1>3, <2>5 DEF Outcome
    <3> QED BY <1>4, <2>5, <3>1
  <2> QED BY <1>4, <2>1, <2>2, <2>3, <2>4, <2>5 DEF JobShape, JobTypesOfSites, AppOps
<1>6. /\ DOMAIN sites' = SiteIds
      /\ \A t \in SiteIds : sites'[t] = IF t = s /\ There(sites[t]) THEN new ELSE sites[t]
  <2>1. sites' = IF Exists(s) THEN [sites EXCEPT ![s] = new] ELSE sites
    BY <1>2, <1>3 DEF PostSuccess, UpdateSite
  <2>2. Exists(s) <=> There(sites[s])
    BY <1>4 DEF Exists, There
  <2>3. DOMAIN sites = SiteIds
    BY DEF SitesInv, TableInv, SitesShape
  <2>4. CASE Exists(s)
    BY <1>4, <2>1, <2>2, <2>3, <2>4
  <2>5. CASE ~Exists(s)
    BY <2>1, <2>2, <2>3, <2>5
  <2> QED BY <2>4, <2>5
<1>7. \A t \in SiteIds :
         /\ SiteShape(sites'[t]) /\ sites'[t].domain = sites[t].domain /\ sites'[t].port = sites[t].port
         /\ sites'[t].status = IF t = s /\ There(sites[t]) /\ worker.job.type = "site.create"
                               THEN "active" ELSE sites[t].status
  BY <1>5, <1>6 DEF SitesInv, TableInv, SitesShape
<1>8. TableStep /\ NoneTaken
  BY <1>7 DEF TableStep, NoneTaken, There
<1>9. RequestInv' /\ ChoiceInv' /\ OneChooses' /\ DistinctInv'
  BY <1>1, <1>8, RequestsRest, ChoiceRests, OneChoosesRests, DistinctRests
<1>10. JobsInv'
  BY <1>1, <1>7, JobsStay DEF There
<1>11. FreshInv'
  BY <1>1, <1>7 DEF SitesInv, TableInv, FreshInv, There
<1>12. /\ DOMAIN worker' = {"pc", "job", "id", "up"} /\ JobShape(worker'.job) /\ worker'.pc \in {"idle", "ssl"}
       /\ worker'.pc = "ssl" => worker'.job = worker.job /\ worker.job.type = "site.create"
  <2>1. CASE worker.job.type = "site.create"
    <3>1. DOMAIN worker' = {"pc", "job", "id", "up"} /\ worker'.pc = "ssl" /\ worker'.job = worker.job
      BY <1>1, <2>1 DEF SitesInv, TableInv, SitesShape
    <3> QED BY <1>4, <2>1, <3>1
  <2>2. CASE worker.job.type # "site.create"
    <3>1. worker' = Idle
      BY <1>1, <2>2
    <3> QED BY <3>1, SitePlaceholders
  <2> QED BY <2>1, <2>2
<1>13. SitesShape'
  BY <1>1, <1>6, <1>7, <1>12 DEF SitesInv, TableInv, SitesShape
<1>14. WorkerInv'
  <2>1. sites[s].status # "none" /\ sites'[s].status # "none" /\ sites'[s].domain = worker.job.domain
    BY <1>1, <1>2, <1>4, <1>7 DEF SitesInv, WorkerInv, Known
  <2> QED BY <1>2, <1>4, <1>12, <2>1 DEF WorkerInv, Known
<1>15. ServedInv'
  <2> SUFFICES ASSUME ~overlapped, NEW t \in SiteIds, sites'[t].status = "active", ~Leaving(jobs, t)
               PROVE  vhost[sites[t].domain] # Absent
    BY <1>1, <1>7 DEF ServedInv
  <2>1. CASE t = s /\ worker.job.type = "site.create"
    BY <1>1, <1>4, <2>1 DEF SitesInv, WorkerInv
  <2>2. CASE ~(t = s /\ worker.job.type = "site.create")
    <3>1. sites[t].status = "active"
      BY <1>7, <2>2
    <3> QED BY <3>1 DEF SitesInv, ServedInv
  <2> QED BY <2>1, <2>2
<1> QED BY <1>9, <1>10, <1>11, <1>13, <1>14, <1>15 DEF SitesInv, TableInv

LEMMA EnqueueSSLInv == ASSUME SitesInv, EnqueueSSL PROVE SitesInv'
<1>1. /\ worker.pc = "ssl" /\ worker' = Idle /\ UNCHANGED <<sites, nextSite, requests, vhost, overlapped>>
  BY DEF EnqueueSSL, host
<1>2. WorkerInv' /\ Remembers
  BY <1>1, IdleWorker DEF Remembers
<1>3. CASE UNCHANGED <<jobs, nextJob>>
  <2>1. JobRowsKeep
    BY <1>3 DEF JobRowsKeep, SitesInv, TableInv, SitesShape
  <2>2. ServedInv'
    BY <1>1, <2>1, ServedKept
  <2> QED BY <1>1, <1>2, <2>1, <2>2, WorkerStep, SitePlaceholders DEF SitesInv, TableInv, SitesShape
<1>4. CASE Inserted("ssl.issue", worker.job.site, worker.job.domain, NoPort)
  <2>1. PICK s, d, p : s = worker.job.site /\ d = worker.job.domain /\ p = NoPort
    OBVIOUS
  <2>2. Known(sites, s, d) /\ d \in Domains
    BY <1>1, <2>1 DEF SitesInv, WorkerInv, TableInv, SitesShape, JobShape
  <2>3. "ssl.issue" \in JobTypesOfSites /\ p \in Nat /\ Inserted("ssl.issue", s, d, p)
    BY <1>4, <2>1 DEF JobTypesOfSites, NoPort
  <2>4. PICK job : /\ JobInserted(job) /\ JobShape(job) /\ job.type = "ssl.issue" /\ job.site = s /\ job.domain = d
                   /\ s \in SiteIds /\ There(sites[s])
    BY <2>2, <2>3, InsertedJob
  <2>5. /\ TableStep /\ NoneActivated /\ NoneTaken /\ LeavingStays /\ JobsInv' /\ FreshInv'
        /\ DOMAIN jobs' = JobIds /\ nextJob' \in Nat \ {0} /\ \A j \in JobIds : JobShape(jobs'[j])
    BY <1>1, <2>2, <2>4, InsertedTables DEF Known
  <2>6. RequestInv' /\ ChoiceInv' /\ OneChooses' /\ DistinctInv' /\ ServedInv'
    BY <1>1, <1>2, <2>5, RequestsRest, ChoiceRests, OneChoosesRests, DistinctRests, ServedRests
  <2>7. SitesShape'
    BY <1>1, <2>5, SitePlaceholders DEF SitesInv, TableInv, SitesShape
  <2> QED BY <1>2, <2>5, <2>6, <2>7 DEF SitesInv, TableInv
<1> QED BY <1>3, <1>4 DEF EnqueueSSL

LEMMA RestartInv == ASSUME SitesInv, Restart PROVE SitesInv'
<1>1. /\ worker' = Idle /\ UNCHANGED <<sites, nextSite, jobs, nextJob, vhost, overlapped>>
      /\ DOMAIN requests' = Requests /\ \A r \in Requests : requests'[r] = Resting
  BY DEF Restart, db, host
<1>2. WorkerInv' /\ Remembers
  BY <1>1, IdleWorker DEF Remembers
<1>3. TableStep /\ NoneActivated /\ LeavingStays /\ NoneTaken
  BY <1>1, TablesStay
<1>4. ServedInv' /\ DistinctInv'
  BY <1>1, <1>2, <1>3, ServedRests, DistinctRests
<1>5. RequestInv' /\ ChoiceInv' /\ OneChooses'
  BY <1>1, RestingRow DEF RequestInv, ChoiceInv, OneChooses
<1>6. JobsInv' /\ FreshInv'
  BY <1>1 DEF SitesInv, TableInv, JobsInv, FreshInv
<1>7. SitesShape'
  BY <1>1, RestingRow, SitePlaceholders DEF SitesInv, TableInv, SitesShape
<1> QED BY <1>2, <1>4, <1>5, <1>6, <1>7 DEF SitesInv, TableInv

LEMMA SitesNextInv == SitesInv /\ [Next]_vars => SitesInv'
<1> SUFFICES ASSUME SitesInv, [Next]_vars PROVE SitesInv'
  OBVIOUS
<1>1. ASSUME NEW r \in Requests,
             \/ CreateSite(r) \/ CheckDomain(r) \/ FindFreePort(r) \/ InsertSite(r)
             \/ ReadForDelete(r) \/ ReadForApp(r) \/ ReadForConfig(r) \/ CheckPort(r) \/ ClearAppPort(r)
             \/ WriteAppStatus(r) \/ WriteConfig(r) \/ Enqueue(r) \/ DeleteSite(r)
      PROVE  SitesInv'
  BY <1>1, CreateSiteInv, CheckDomainInv, FindFreePortInv, InsertSiteInv, ReadForDeleteInv, ReadForAppInv,
     ReadForConfigInv, CheckPortInv, ClearAppPortInv, WriteAppStatusInv, WriteConfigInv, EnqueueInv, DeleteSiteInv
<1>2. ASSUME NEW j \in JobIds, Claim(j) \/ RetryDue(j) \/ EndJob(j) PROVE SitesInv'
  BY <1>2, ClaimInv, RetryDueInv, EndJobInv
<1>3. CASE ExecuteSucceeds \/ ExecuteFails \/ MarkCompleted \/ PostSuccess \/ EnqueueSSL \/ Restart
  BY <1>3, ExecuteSucceedsInv, ExecuteFailsInv, MarkCompletedInv, PostSuccessInv, EnqueueSSLInv, RestartInv
<1>4. CASE UNCHANGED vars
  BY <1>4 DEF vars, SitesInv, TableInv, SitesShape, FreshInv, RequestInv, JobsInv, WorkerInv, OneChooses, ChoiceInv,
     DistinctInv, ServedInv
<1> QED BY <1>1, <1>2, <1>3, <1>4 DEF Next

LEMMA SitesInvHolds == Spec => []SitesInv
  BY SitesInitInv, SitesNextInv, PTL DEF Spec

(* No two sites share an app port, as long as no two requests were choosing
   one at once: what FindFreePort and CheckPortAvailable found free is free
   when the row is written, whatever deletions, stops, restarts, jobs and
   crashes of the panel come between. *)
THEOREM PortsUniqueHolds == Spec => []PortsUnique
<1>1. SitesInv => PortsUnique
  BY DEF SitesInv, DistinctInv, Distinct, PortsUnique, Live, Exists, There
<1> QED BY <1>1, SitesInvHolds, PTL

(* A site shown as active has its vhost: no late or retried clean-up of an
   older site of its domain removes the one that the agent made for it. *)
THEOREM ActiveIsServedHolds == Spec => []ActiveIsServed
<1>1. SitesInv => ActiveIsServed
  BY DEF SitesInv, ServedInv, ActiveIsServed, Live, Exists, Leaving
<1> QED BY <1>1, SitesInvHolds, PTL

-----------------------------------------------------------------------------
(* Vhosts *)


FileOf(B) == [text : {"none", "good", "bad", "template"}, auth : B, ips : {"none", "good", "bad"}, block : B]
Flags == BOOLEAN
FileSet == FileOf(Flags)
VOps == {"none", "update", "validate", "security"}
Places == {"idle", "read", "write", "available", "test", "restore", "restoreAvailable", "try", "remove", "rename",
           "htpasswd", "generate"}
VRow == [pc : Places, op : VOps, site : Vsites, new : FileSet, sec : Securities,
         oldEnabled : FileSet, oldAvailable : FileSet]

\* The variables that the property depends on have their types.
VhostsTypeOK ==
    /\ enabled \in [Vsites -> FileSet] /\ available \in [Vsites -> FileSet] /\ bak \in [Vsites -> FileSet]
    /\ answered \in [Vsites -> FileSet] /\ security \in [Vsites -> Securities]
    /\ vreq \in [VRequests -> VRow]
    /\ DOMAIN alone = Vsites

Bare(f) == [f EXCEPT !.block = FALSE]
Active(r) == vreq[r] # NoVhostRequest
Edited(s) == \E r \in VRequests : Active(r) /\ vreq[r].site = s

\* A site whose operations never overlapped has one request at most, and none
\* while the bot blocker is at work.
NoOverlap ==
    \A s \in Vsites : alone[s] =>
        /\ \A q, r \in VRequests : Active(q) /\ Active(r) /\ vreq[q].site = s /\ vreq[r].site = s => q = r
        /\ bots # "idle" => ~Edited(s)

\* While no request edits the site, what was answered is in place.
InPlace ==
    \A s \in Vsites : alone[s] => answered[s] # NoFile /\ (~Edited(s) => Bare(enabled[s]) = answered[s])

\* Where a request is, given the live file, the backup and the last answer:
\* up to its write the live file is the answered one; what it remembers to
\* restore is the answered one; what it writes has no block and is what is
\* tested.
Stage(row, live, backup, answer) ==
    LET at(op, pcs) == row.op = op /\ row.pc \in pcs IN
    /\ row.pc = "available" => row.op \in {"update", "security"}
    /\ at("update", {"read", "write", "restoreAvailable"}) \/ at("security", {"htpasswd", "generate", "write"})
          => Bare(live) = answer
    /\ at("update", {"write", "available", "test", "restore"}) => Bare(row.oldEnabled) = answer
    /\ row.op = "validate" => Bare(row.oldEnabled) = answer /\ backup = row.oldEnabled
    /\ at("update", {"read", "write", "available", "test"}) \/ at("security", {"write", "available", "test"})
          => ~row.new.block /\ row.new # NoFile
    /\ at("update", {"available", "test"}) \/ at("security", {"available", "test"}) => live = row.new

StageInv ==
    \A r \in VRequests : LET s == vreq[r].site IN
        Active(r) /\ alone[s] => Stage(vreq[r], enabled[s], bak[s], answered[s])

VhostsInv == VhostsTypeOK /\ NoOverlap /\ InPlace /\ StageInv

-----------------------------------------------------------------------------
(* Setting one field of a file, whatever the flags are. *)
LEMMA FileUpdates ==
    ASSUME NEW B, NEW f \in FileOf(B), NEW b \in B, NEW c \in B
    PROVE  /\ [f EXCEPT !.block = b] \in FileOf(B) /\ f.block \in B
           /\ [[f EXCEPT !.block = b] EXCEPT !.block = c] = [f EXCEPT !.block = c]
           /\ f.block = b => [f EXCEPT !.block = b] = f
<1>1. [f EXCEPT !.block = b] \in FileOf(B) /\ f.block \in B
  BY DEF FileOf
<1>2. [[f EXCEPT !.block = b] EXCEPT !.block = c] = [f EXCEPT !.block = c]
  BY DEF FileOf
<1>3. f.block = b => [f EXCEPT !.block = b] = f
  BY DEF FileOf
<1>4. QED
  BY <1>1, <1>2, <1>3

(* A file without a site's settings. *)
LEMMA PlainFile ==
    ASSUME NEW B, NEW b \in B, NEW t \in {"none", "good", "bad", "template"}, NEW a \in B,
           NEW i \in {"none", "good", "bad"}
    PROVE  /\ [text |-> t, auth |-> a, ips |-> i, block |-> b] \in FileOf(B)
           /\ [text |-> t, auth |-> a, ips |-> i, block |-> b].block = b
           /\ [text |-> t, auth |-> a, ips |-> i, block |-> b].text = t
  BY DEF FileOf

(* What the block of a file has to do with the rest of it. *)
LEMMA BareFacts ==
    /\ NoFile \in FileSet /\ Bare(NoFile) = NoFile
    /\ \A f \in FileSet : /\ Bare(f) \in FileSet
                          /\ ~f.block => Bare(f) = f
                          /\ \A b \in Flags : [f EXCEPT !.block = b] \in FileSet /\ Bare([f EXCEPT !.block = b]) = Bare(f)
<1>1. FALSE \in Flags
  BY DEF Flags
<1>2. ASSUME NEW f \in FileSet
      PROVE  Bare(f) \in FileSet /\ (~f.block => Bare(f) = f)
  <2>1. /\ [f EXCEPT !.block = FALSE] \in FileSet /\ f.block \in Flags
        /\ f.block = FALSE => [f EXCEPT !.block = FALSE] = f
    BY <1>1, FileUpdates, Zenon DEF FileSet
  <2>2. QED
    BY <2>1, Zenon DEF Bare, Flags
<1>3. ASSUME NEW f \in FileSet, NEW b \in Flags
      PROVE  [f EXCEPT !.block = b] \in FileSet /\ Bare([f EXCEPT !.block = b]) = Bare(f)
  <2>1. PICK no \in Flags : no = FALSE
    BY <1>1
  <2>2. /\ [f EXCEPT !.block = b] \in FileSet
        /\ [[f EXCEPT !.block = b] EXCEPT !.block = no] = [f EXCEPT !.block = no]
    <3>1. f \in FileOf(Flags)
      BY DEF FileSet
    <3>2. [f EXCEPT !.block = b] \in FileOf(Flags)
      BY <3>1 DEF FileOf
    <3>3. [[f EXCEPT !.block = b] EXCEPT !.block = no] = [f EXCEPT !.block = no]
      BY <3>1 DEF FileOf
    <3>4. QED
      BY <3>2, <3>3 DEF FileSet
  <2>3. QED
    BY <2>1, <2>2, Zenon DEF Bare
<1>4. NoFile \in FileSet /\ ~NoFile.block
  <2>1. "none" \in {"none", "good", "bad", "template"} /\ "none" \in {"none", "good", "bad"}
    OBVIOUS
  <2>2. NoFile \in FileSet /\ NoFile.block = FALSE
    BY <1>1, <2>1, PlainFile, Zenon DEF NoFile, File, FileSet
  <2>3. QED
    BY <2>2
<1>5. QED
  BY <1>2, <1>3, <1>4, Zenon

(* The template has no block, and is a file. *)
LEMMA TemplateFacts ==
    /\ NoSecurity \in Securities
    /\ \A sec \in Securities : Template(sec) \in FileSet /\ ~Template(sec).block /\ Template(sec) # NoFile
    /\ \A f \in Texts : f \in FileSet /\ ~f.block /\ f # NoFile
<1>1. NoSecurity \in Securities
  BY DEF NoSecurity, Securities
<1>2. FALSE \in Flags /\ "none" \in {"none", "good", "bad"}
  BY DEF Flags
<1>3. NoFile.text = "none"
  BY DEF NoFile, File
<1>4. ASSUME NEW t \in {"good", "bad", "template"}, NEW a \in Flags, NEW i \in {"none", "good", "bad"}
      PROVE  File(t, a, i) \in FileSet /\ ~File(t, a, i).block /\ File(t, a, i) # NoFile
  <2>1. t \in {"none", "good", "bad", "template"} /\ t # "none"
    OBVIOUS
  <2>2. PICK no \in Flags : no = FALSE
    BY <1>2
  <2>3. PICK f : f = [text |-> t, auth |-> a, ips |-> i, block |-> no]
    OBVIOUS
  <2>4. f \in FileSet /\ f.block = no /\ f.text = t
    BY <2>1, <2>3 DEF FileSet, FileOf
  <2>5. f = File(t, a, i)
    BY <2>2, <2>3, Zenon DEF File
  <2>6. QED
    BY <1>3, <2>1, <2>2, <2>4, <2>5, Zenon
<1>5. ASSUME NEW sec \in Securities
      PROVE  Template(sec) \in FileSet /\ ~Template(sec).block /\ Template(sec) # NoFile
  <2>1. sec.auth \in Flags /\ sec.ips \in {"none", "good", "bad"} /\ "template" \in {"good", "bad", "template"}
    BY DEF Securities, Flags
  <2>2. QED
    BY <1>4, <2>1, Zenon DEF Template
<1>6. ASSUME NEW f \in Texts
      PROVE  f \in FileSet /\ ~f.block /\ f # NoFile
  <2>1. PICK t \in {"good", "bad"} : f = File(t, FALSE, "none")
    BY Zenon DEF Texts
  <2>2. t \in {"good", "bad", "template"}
    OBVIOUS
  <2>3. QED
    BY <1>2, <1>4, <2>1, <2>2, Zenon
<1>7. QED
  BY <1>1, <1>5, <1>6

(* The placeholder is a row. *)
LEMMA NoRequestRow == NoVhostRequest \in VRow /\ NoVhostRequest.pc = "idle" /\ NoVhostRequest.op = "none"
<1>1. (CHOOSE s \in Vsites : TRUE) \in Vsites
  BY VhostsAssumption
<1>2. NoFile \in FileSet /\ NoSecurity \in Securities
  BY BareFacts, TemplateFacts
<1>3. PICK s \in Vsites, none \in FileSet, sec \in Securities :
          NoVhostRequest = [pc |-> "idle", op |-> "none", site |-> s, new |-> none, sec |-> sec,
                            oldEnabled |-> none, oldAvailable |-> none]
  BY <1>1, <1>2 DEF NoVhostRequest
<1>4. NoVhostRequest.pc = "idle" /\ NoVhostRequest.op = "none"
  BY <1>3
<1>5. "idle" \in Places /\ "none" \in VOps
  BY DEF Places, VOps
<1>6. NoVhostRequest \in VRow
  BY <1>3, <1>5 DEF VRow
<1>7. QED
  BY <1>4, <1>6

(* At the start every site has the template. *)
LEMMA VhostsInitial == VhostsInit => VhostsInv
<1> SUFFICES ASSUME VhostsInit PROVE VhostsInv
  OBVIOUS
<1>1. PICK f : f = Template(NoSecurity)
  OBVIOUS
<1>2. f \in FileSet /\ ~f.block /\ f # NoFile
  BY <1>1, TemplateFacts
<1>3. \A s \in Vsites : enabled[s] = f /\ answered[s] = f
  BY <1>1 DEF VhostsInit
<1>4. NoFile \in FileSet /\ NoSecurity \in Securities /\ NoVhostRequest \in VRow
  BY BareFacts, TemplateFacts, NoRequestRow
<1>5. VhostsTypeOK
  BY <1>1, <1>2, <1>4 DEF VhostsInit, VhostsTypeOK
<1>6. \A r \in VRequests : ~Active(r)
  BY DEF VhostsInit, Active
<1>7. InPlace
  BY <1>2, <1>3, BareFacts DEF InPlace
<1>8. NoOverlap /\ StageInv
  BY <1>6 DEF NoOverlap, StageInv, Edited
<1>9. QED
  BY <1>5, <1>7, <1>8 DEF VhostsInv

-----------------------------------------------------------------------------
\* One request is written, and files change at its site only.
VWrite(r, row, z) ==
    /\ vreq' = [vreq EXCEPT ![r] = row] /\ row \in VRow
    /\ enabled' \in [Vsites -> FileSet] /\ available' \in [Vsites -> FileSet] /\ bak' \in [Vsites -> FileSet]
    /\ answered' \in [Vsites -> FileSet] /\ security' \in [Vsites -> Securities]
    /\ \A s \in Vsites \ {z} : enabled'[s] = enabled[s] /\ bak'[s] = bak[s] /\ answered'[s] = answered[s]

(* The other requests stay. *)
LEMMA VWriteEffect ==
    ASSUME VhostsInv, NEW r \in VRequests, NEW row, NEW z \in Vsites, VWrite(r, row, z), DOMAIN alone' = Vsites
    PROVE  /\ VhostsTypeOK' /\ vreq'[r] = row
           /\ \A q \in VRequests \ {r} : vreq'[q] = vreq[q]
  BY DEF VhostsInv, VhostsTypeOK, VWrite

(* A request goes on, or ends. *)
LEMMA EditStep ==
    ASSUME VhostsInv, NEW r \in VRequests, NEW row, NEW z \in Vsites, VWrite(r, row, z),
           Active(r), vreq[r].site = z, row = NoVhostRequest \/ row.site = z, UNCHANGED <<bots, alone>>,
           alone[z] => answered'[z] # NoFile,
           alone[z] /\ row = NoVhostRequest => Bare(enabled'[z]) = answered'[z],
           alone[z] /\ row # NoVhostRequest => Stage(row, enabled'[z], bak'[z], answered'[z])
    PROVE  VhostsInv'
<1>1. /\ VhostsTypeOK' /\ vreq'[r] = row
      /\ \A q \in VRequests \ {r} : vreq'[q] = vreq[q]
  <2>1. DOMAIN alone' = Vsites
    BY DEF VhostsInv, VhostsTypeOK
  <2>2. QED
    BY <2>1, VWriteEffect
<1>2. \A q \in VRequests : Active(q)' => Active(q) /\ vreq'[q].site = vreq[q].site
  BY <1>1 DEF Active
<1>3. NoOverlap'
  BY <1>2 DEF VhostsInv, NoOverlap, Edited
<1>4. InPlace'
  <2> SUFFICES ASSUME NEW s \in Vsites, alone[s]
               PROVE  answered'[s] # NoFile /\ (~Edited(s)' => Bare(enabled'[s]) = answered'[s])
    BY DEF InPlace
  <2>1. CASE s = z
    <3>1. ~Edited(s)' => row = NoVhostRequest
      BY <1>1, <2>1 DEF Edited, Active
    <3>2. QED
      BY <2>1, <3>1
  <2>2. CASE s # z
    <3>1. Edited(s) => Edited(s)'
      BY <1>1, <2>2 DEF Edited, Active
    <3>2. QED
      BY <2>2, <3>1 DEF VhostsInv, InPlace, VWrite
  <2>3. QED
    BY <2>1, <2>2
<1>5. StageInv'
  <2> SUFFICES ASSUME NEW q \in VRequests, Active(q)', alone[vreq'[q].site]
               PROVE  Stage(vreq'[q], enabled'[vreq'[q].site], bak'[vreq'[q].site], answered'[vreq'[q].site])
    BY DEF StageInv
  <2>1. CASE q = r
    BY <1>1, <2>1 DEF Active
  <2>2. CASE q # r
    <3>1. PICK s \in Vsites : s = vreq[q].site
      BY DEF VhostsInv, VhostsTypeOK, VRow
    <3>2. vreq'[q] = vreq[q] /\ Active(q) /\ alone[s]
      BY <1>1, <1>2, <2>2, <3>1
    <3>3. s # z
      BY <2>2, <3>1, <3>2 DEF VhostsInv, NoOverlap
    <3>4. Stage(vreq[q], enabled[s], bak[s], answered[s])
      BY <3>1, <3>2 DEF VhostsInv, StageInv
    <3>5. QED
      BY <3>1, <3>2, <3>3, <3>4 DEF VWrite
  <2>3. QED
    BY <2>1, <2>2
<1>6. QED
  BY <1>1, <1>3, <1>4, <1>5 DEF VhostsInv

(* A request starts; if the site has another, they overlap from then on. *)
LEMMA StartStep ==
    ASSUME VhostsInv, NEW r \in VRequests, NEW row, NEW z \in Vsites, VWrite(r, row, z),
           ~Active(r), row # NoVhostRequest, row.site = z, Starts(z), UNCHANGED <<bots, answered>>,
           alone[z] /\ ~Edited(z) => Stage(row, enabled'[z], bak'[z], answered[z])
    PROVE  VhostsInv'
<1>1. /\ DOMAIN alone' = Vsites /\ (alone'[z] => alone[z] /\ ~InFlight(z))
      /\ \A s \in Vsites \ {z} : alone'[s] = alone[s]
  BY DEF Starts, VhostsInv, VhostsTypeOK
<1>2. /\ VhostsTypeOK' /\ vreq'[r] = row
      /\ \A q \in VRequests \ {r} : vreq'[q] = vreq[q]
  BY <1>1, VWriteEffect
<1>3. alone'[z] => alone[z] /\ ~Edited(z) /\ bots = "idle"
  BY <1>1 DEF InFlight, Edited, Active
<1>4. \A s \in Vsites \ {z} : Edited(s)' <=> Edited(s)
  BY <1>2 DEF Edited, Active
<1>5. NoOverlap'
  <2> SUFFICES ASSUME NEW s \in Vsites, alone'[s]
               PROVE  /\ \A p, q \in VRequests : Active(p)' /\ Active(q)' /\ vreq'[p].site = s /\ vreq'[q].site = s => p = q
                      /\ bots # "idle" => ~Edited(s)'
    BY DEF NoOverlap
  <2>1. CASE s = z
    <3>1. \A p \in VRequests : Active(p)' /\ vreq'[p].site = z => p = r
      BY <1>2, <1>3, <2>1 DEF Edited, Active
    <3>2. QED
      BY <1>3, <2>1, <3>1
  <2>2. CASE s # z
    <3>1. alone[s]
      BY <1>1, <2>2
    <3>2. \A p \in VRequests : Active(p)' /\ vreq'[p].site = s => Active(p) /\ vreq[p].site = s
      BY <1>2, <2>2 DEF Active
    <3>3. QED
      BY <1>4, <2>2, <3>1, <3>2 DEF VhostsInv, NoOverlap
  <2>3. QED
    BY <2>1, <2>2
<1>6. InPlace'
  <2> SUFFICES ASSUME NEW s \in Vsites, alone'[s]
               PROVE  answered'[s] # NoFile /\ (~Edited(s)' => Bare(enabled'[s]) = answered'[s])
    BY DEF InPlace
  <2>1. alone[s] /\ answered'[s] # NoFile
    BY <1>1 DEF VhostsInv, InPlace
  <2>2. CASE s = z
    <3>1. Edited(s)'
      BY <1>2, <2>2 DEF Edited, Active
    <3>2. QED
      BY <2>1, <3>1
  <2>3. CASE s # z
    BY <1>4, <2>1, <2>3 DEF VhostsInv, InPlace, VWrite
  <2>4. QED
    BY <2>2, <2>3
<1>7. StageInv'
  <2> SUFFICES ASSUME NEW q \in VRequests, Active(q)', alone'[vreq'[q].site]
               PROVE  Stage(vreq'[q], enabled'[vreq'[q].site], bak'[vreq'[q].site], answered'[vreq'[q].site])
    BY DEF StageInv
  <2>1. CASE q = r
    BY <1>2, <1>3, <2>1
  <2>2. CASE q # r
    <3>1. PICK s \in Vsites : s = vreq[q].site
      BY DEF VhostsInv, VhostsTypeOK, VRow
    <3>2. vreq'[q] = vreq[q] /\ Active(q) /\ alone'[s]
      BY <1>2, <2>2, <3>1 DEF Active
    <3>3. s # z
      BY <1>3, <3>1, <3>2 DEF Edited
    <3>4. Stage(vreq[q], enabled[s], bak[s], answered[s])
      BY <1>1, <3>1, <3>2, <3>3 DEF VhostsInv, StageInv
    <3>5. QED
      BY <3>1, <3>2, <3>3, <3>4 DEF VWrite
  <2>3. QED
    BY <2>1, <2>2
<1>8. QED
  BY <1>2, <1>5, <1>6, <1>7 DEF VhostsInv

-----------------------------------------------------------------------------
(* What is known of a request in flight. *)
LEMMA ActiveFacts ==
    ASSUME VhostsInv, NEW r \in VRequests, Active(r)
    PROVE  /\ vreq[r] \in VRow /\ vreq[r].site \in Vsites /\ vreq[r].new \in FileSet
           /\ vreq[r].oldEnabled \in FileSet /\ vreq[r].oldAvailable \in FileSet
           /\ \A z \in Vsites : z = vreq[r].site /\ alone[z] =>
                 answered[z] # NoFile /\ Stage(vreq[r], enabled[z], bak[z], answered[z])
<1>1. /\ vreq[r] \in VRow /\ vreq[r].site \in Vsites /\ vreq[r].new \in FileSet
      /\ vreq[r].oldEnabled \in FileSet /\ vreq[r].oldAvailable \in FileSet
  BY DEF VhostsInv, VhostsTypeOK, VRow
<1>2. \A z \in Vsites : z = vreq[r].site /\ alone[z] =>
          answered[z] # NoFile /\ Stage(vreq[r], enabled[z], bak[z], answered[z])
  BY DEF VhostsInv, InPlace, StageInv
<1>3. QED
  BY <1>1, <1>2

(* A request with an operation is one. *)
LEMMA InFlightFacts ==
    ASSUME VhostsInv, NEW r \in VRequests, NEW op \in VOps \ {"none"}, vreq[r].op = op
    PROVE  /\ Active(r) /\ vreq[r] \in VRow /\ vreq[r].site \in Vsites /\ vreq[r].new \in FileSet
           /\ vreq[r].oldEnabled \in FileSet /\ vreq[r].oldAvailable \in FileSet
           /\ \A z \in Vsites : z = vreq[r].site /\ alone[z] =>
                 answered[z] # NoFile /\ Stage(vreq[r], enabled[z], bak[z], answered[z])
<1>1. Active(r)
  BY NoRequestRow DEF Active
<1>2. QED
  BY <1>1, ActiveFacts

\* A request goes to another place.
Moved(row, old, pc) ==
    /\ row \in VRow /\ row.pc = pc /\ row.op = old.op /\ row.site = old.site /\ row.new = old.new
    /\ row.oldEnabled = old.oldEnabled /\ row # NoVhostRequest

(* Going changes the place only. *)
LEMMA GoesWrites ==
    ASSUME VhostsInv, NEW r \in VRequests, NEW pc \in Places \ {"idle"}, Goes(r, pc)
    PROVE  \E row : vreq' = [vreq EXCEPT ![r] = row] /\ Moved(row, vreq[r], pc)
<1>1. PICK old \in VRow : old = vreq[r]
  BY DEF VhostsInv, VhostsTypeOK
<1>2. PICK row : row = [old EXCEPT !.pc = pc]
  OBVIOUS
<1>3. /\ row \in VRow /\ row.pc = pc /\ row.op = old.op /\ row.site = old.site /\ row.new = old.new
      /\ row.oldEnabled = old.oldEnabled
  BY <1>2 DEF VRow
<1>4. row # NoVhostRequest
  BY <1>3, NoRequestRow
<1>5. vreq' = [vreq EXCEPT ![r] = row]
  BY <1>1, <1>2 DEF Goes, VhostsInv, VhostsTypeOK
<1>6. QED
  BY <1>1, <1>3, <1>4, <1>5 DEF Moved

(* A file is put at one site. *)
LEMMA PutEffect ==
    ASSUME NEW files \in [Vsites -> FileSet], NEW z \in Vsites, NEW f \in FileSet
    PROVE  /\ [files EXCEPT ![z] = f] \in [Vsites -> FileSet] /\ [files EXCEPT ![z] = f][z] = f
           /\ \A s \in Vsites \ {z} : [files EXCEPT ![z] = f][s] = files[s]
  OBVIOUS

(* Steps that touch neither the live file nor the backup nor the answer. *)
LEMMA QuietStep ==
    ASSUME VhostsInv, NEW r \in VRequests, Active(r),
           NEW row, vreq' = [vreq EXCEPT ![r] = row], row \in VRow, row # NoVhostRequest, row.site = vreq[r].site,
           available' \in [Vsites -> FileSet], UNCHANGED <<enabled, bak, answered, security, bots, alone>>,
           \A live, backup, answer : Stage(vreq[r], live, backup, answer) /\ live = enabled[vreq[r].site]
                                         => Stage(row, live, backup, answer)
    PROVE  VhostsInv'
<1>1. PICK z \in Vsites : z = vreq[r].site
  BY ActiveFacts
<1>2. VWrite(r, row, z)
  BY DEF VWrite, VhostsInv, VhostsTypeOK
<1>3. alone[z] => answered[z] # NoFile /\ Stage(vreq[r], enabled[z], bak[z], answered[z])
  BY <1>1, ActiveFacts
<1>4. alone[z] => Stage(row, enabled'[z], bak'[z], answered'[z])
  BY <1>1, <1>3
<1>5. QED
  BY <1>1, <1>2, <1>3, <1>4, EditStep

(* The steps that only go on. *)
LEMMA QuietKeeps ==
    ASSUME VhostsInv, NEW r \in VRequests,
           \/ WriteTestFails(r) \/ WriteHtpasswd(r)
           \/ At(r, "update", "test") /\ Goes(r, "restore") /\ UNCHANGED <<bots, nginxFiles, saved, security, vLoad, alone, answered>>
    PROVE  VhostsInv'
<1>1. /\ UNCHANGED <<enabled, bak, answered, security, bots, alone>>
      /\ available' \in [Vsites -> FileSet]
  BY DEF WriteTestFails, WriteHtpasswd, nginxFiles, VhostsInv, VhostsTypeOK
<1>2. PICK op \in VOps \ {"none"}, pc \in Places \ {"idle"} :
          /\ vreq[r].op = op /\ Goes(r, pc)
          /\ \/ op = "validate" /\ pc = "rename"
             \/ op = "security" /\ pc = "generate" /\ vreq[r].pc = "htpasswd"
             \/ op = "update" /\ pc = "restore" /\ vreq[r].pc = "test"
  BY DEF WriteTestFails, WriteHtpasswd, At, VOps, Places
<1>3. PICK row : vreq' = [vreq EXCEPT ![r] = row] /\ Moved(row, vreq[r], pc)
  BY <1>2, GoesWrites
<1>4. ASSUME NEW live, NEW backup, NEW answer, Stage(vreq[r], live, backup, answer)
      PROVE  Stage(row, live, backup, answer)
  <2>1. CASE op = "validate"
    BY <1>2, <1>3, <1>4, <2>1 DEF Stage, Moved
  <2>2. CASE op = "security"
    BY <1>2, <1>3, <1>4, <2>2 DEF Stage, Moved
  <2>3. CASE op = "update"
    BY <1>2, <1>3, <1>4, <2>3 DEF Stage, Moved
  <2>4. QED
    BY <1>2, <2>1, <2>2, <2>3
<1>5. QED
  BY <1>1, <1>2, <1>3, <1>4, InFlightFacts, QuietStep DEF Moved

(* The copy in sites-available. *)
LEMMA WriteAvailableKeeps ==
    ASSUME VhostsInv, NEW r \in VRequests, WriteAvailable(r)
    PROVE  VhostsInv'
<1>1. UNCHANGED <<enabled, bak, answered, security, bots, alone>> /\ vreq[r].pc = "available" /\ Goes(r, "test") /\ Active(r)
  BY NoRequestRow DEF WriteAvailable, Active
<1>2. available' \in [Vsites -> FileSet]
  BY <1>1, ActiveFacts DEF WriteAvailable, Put, VhostsInv, VhostsTypeOK
<1>3. "test" \in Places \ {"idle"}
  BY DEF Places
<1>4. PICK row : vreq' = [vreq EXCEPT ![r] = row] /\ Moved(row, vreq[r], "test")
  BY <1>1, <1>3, GoesWrites
<1>5. ASSUME NEW live, NEW backup, NEW answer, Stage(vreq[r], live, backup, answer)
      PROVE  Stage(row, live, backup, answer)
  BY <1>1, <1>4, <1>5 DEF Stage, Moved
<1>6. QED
  BY <1>1, <1>2, <1>4, <1>5, QuietStep DEF Moved

(* The previous files are read: the live one is the answered one. *)
LEMMA ReadPreviousKeeps ==
    ASSUME VhostsInv, NEW r \in VRequests, ReadPrevious(r)
    PROVE  VhostsInv'
<1>1. /\ UNCHANGED <<enabled, bak, answered, security, bots, alone>>
      /\ available' \in [Vsites -> FileSet]
      /\ vreq[r].op = "update" /\ vreq[r].pc = "read"
  BY DEF ReadPrevious, nginxFiles, VhostsInv, VhostsTypeOK, At
<1>2. "update" \in VOps \ {"none"} /\ "write" \in Places
  BY DEF VOps, Places
<1>3. PICK old \in VRow, z \in Vsites : old = vreq[r] /\ z = old.site
  BY <1>1, <1>2, InFlightFacts
<1>4. PICK e \in FileSet, a \in FileSet : e = enabled[z] /\ a = available[z]
  BY DEF VhostsInv, VhostsTypeOK
<1>5. PICK row : row = [old EXCEPT !.pc = "write", !.oldEnabled = e, !.oldAvailable = a]
  OBVIOUS
<1>6. /\ row \in VRow /\ row.pc = "write" /\ row.op = "update" /\ row.site = z /\ row.new = old.new
      /\ row.oldEnabled = e
  BY <1>1, <1>2, <1>3, <1>5 DEF VRow
<1>7. vreq' = [vreq EXCEPT ![r] = row]
  BY <1>3, <1>4, <1>5 DEF ReadPrevious, EnabledNow, VhostsInv, VhostsTypeOK
<1>8. row # NoVhostRequest
  BY <1>6, NoRequestRow
<1>9. ASSUME NEW live, NEW backup, NEW answer, Stage(vreq[r], live, backup, answer), live = enabled[z]
      PROVE  Stage(row, live, backup, answer)
  BY <1>1, <1>3, <1>4, <1>6, <1>9 DEF Stage
<1>10. QED
  BY <1>1, <1>2, <1>3, <1>6, <1>7, <1>8, <1>9, InFlightFacts, QuietStep

(* The template is generated. *)
LEMMA GenerateVhostKeeps ==
    ASSUME VhostsInv, NEW r \in VRequests, GenerateVhost(r)
    PROVE  VhostsInv'
<1>1. /\ UNCHANGED <<enabled, bak, answered, security, bots, alone>>
      /\ available' \in [Vsites -> FileSet]
      /\ vreq[r].op = "security" /\ vreq[r].pc = "generate"
  BY DEF GenerateVhost, VhostsInv, VhostsTypeOK, At
<1>2. "security" \in VOps \ {"none"} /\ "write" \in Places
  BY DEF VOps, Places
<1>3. PICK old \in VRow, z \in Vsites : old = vreq[r] /\ z = old.site
  BY <1>1, <1>2, InFlightFacts
<1>4. PICK f \in FileSet : f = Template(security[z]) /\ ~f.block /\ f # NoFile
  <2>1. PICK sec \in Securities : sec = security[z]
    BY DEF VhostsInv, VhostsTypeOK
  <2>2. QED
    BY <2>1, TemplateFacts
<1>5. PICK row : row = [old EXCEPT !.pc = "write", !.new = f]
  OBVIOUS
<1>6. row \in VRow /\ row.pc = "write" /\ row.op = "security" /\ row.site = z /\ row.new = f
  BY <1>1, <1>2, <1>3, <1>5 DEF VRow
<1>7. vreq' = [vreq EXCEPT ![r] = row]
  BY <1>3, <1>4, <1>5 DEF GenerateVhost, VhostsInv, VhostsTypeOK
<1>8. row # NoVhostRequest
  BY <1>6, NoRequestRow
<1>9. ASSUME NEW live, NEW backup, NEW answer, Stage(vreq[r], live, backup, answer)
      PROVE  Stage(row, live, backup, answer)
  BY <1>1, <1>4, <1>6, <1>9 DEF Stage
<1>10. QED
  BY <1>1, <1>2, <1>3, <1>6, <1>7, <1>8, <1>9, InFlightFacts, QuietStep

(* Steps that write the live file. *)
LEMMA LiveStep ==
    ASSUME VhostsInv, NEW r \in VRequests, NEW op \in VOps \ {"none"}, vreq[r].op = op, NEW f \in FileSet,
           enabled' = Put(enabled, r, f), NEW pc \in Places \ {"idle"}, Goes(r, pc),
           UNCHANGED <<available, bak, answered, security, bots, alone>>,
           \A row, live, backup, answer : Moved(row, vreq[r], pc) /\ Stage(vreq[r], live, backup, answer)
                                             => Stage(row, f, backup, answer)
    PROVE  VhostsInv'
<1>1. PICK z \in Vsites : z = vreq[r].site
  BY InFlightFacts
<1>2. PICK row : vreq' = [vreq EXCEPT ![r] = row] /\ Moved(row, vreq[r], pc)
  BY GoesWrites
<1>3. /\ enabled' \in [Vsites -> FileSet] /\ enabled'[z] = f
      /\ \A s \in Vsites \ {z} : enabled'[s] = enabled[s]
  BY <1>1 DEF Put, VhostsInv, VhostsTypeOK
<1>4. VWrite(r, row, z)
  BY <1>2, <1>3 DEF VWrite, Moved, VhostsInv, VhostsTypeOK
<1>5. Active(r) /\ (alone[z] => answered[z] # NoFile /\ Stage(vreq[r], enabled[z], bak[z], answered[z]))
  BY <1>1, InFlightFacts
<1>6. alone[z] => Stage(row, enabled'[z], bak'[z], answered'[z])
  BY <1>2, <1>3, <1>5
<1>7. QED
  BY <1>1, <1>2, <1>4, <1>5, <1>6, EditStep DEF Moved

(* The new text goes live, and the old one comes back. *)
LEMMA LiveKeeps ==
    ASSUME VhostsInv, NEW r \in VRequests,
           WriteEnabled(r) \/ RestoreEnabled(r) \/ WriteTest(r) \/ RemoveTest(r)
    PROVE  VhostsInv'
<1>1. NoFile \in FileSet /\ {"update", "security", "validate"} \subseteq VOps \ {"none"}
      /\ {"available", "restoreAvailable", "remove", "rename"} \subseteq Places \ {"idle"}
  BY BareFacts DEF VOps, Places
<1>2. CASE WriteEnabled(r)
  <2>1. PICK op \in {"update", "security"} : vreq[r].op = op /\ vreq[r].pc = "write"
    BY <1>2 DEF WriteEnabled
  <2>2. op \in VOps \ {"none"}
    BY <1>1
  <2>3. PICK f \in FileSet : f = vreq[r].new
    BY <2>1, <2>2, InFlightFacts
  <2>4. ASSUME NEW row, NEW live, NEW backup, NEW answer, Moved(row, vreq[r], "available"),
               Stage(vreq[r], live, backup, answer)
        PROVE  Stage(row, f, backup, answer)
    BY <2>1, <2>3, <2>4 DEF Stage, Moved
  <2>5. /\ enabled' = Put(enabled, r, f) /\ Goes(r, "available")
        /\ UNCHANGED <<available, bak, answered, security, bots, alone>>
    BY <1>2, <2>3 DEF WriteEnabled
  <2>6. QED
    BY <1>1, <2>1, <2>2, <2>4, <2>5, LiveStep
<1>3. CASE RestoreEnabled(r)
  <2>1. vreq[r].op = "update" /\ vreq[r].pc = "restore"
    BY <1>3 DEF RestoreEnabled, At
  <2>2. PICK f \in FileSet : f = vreq[r].oldEnabled
    BY <1>1, <2>1, InFlightFacts
  <2>3. ASSUME NEW row, NEW live, NEW backup, NEW answer, Moved(row, vreq[r], "restoreAvailable"),
               Stage(vreq[r], live, backup, answer)
        PROVE  Stage(row, f, backup, answer)
    BY <2>1, <2>2, <2>3 DEF Stage, Moved
  <2>4. /\ enabled' = Put(enabled, r, f) /\ Goes(r, "restoreAvailable")
        /\ UNCHANGED <<available, bak, answered, security, bots, alone>>
    BY <1>3, <2>2 DEF RestoreEnabled
  <2>5. QED
    BY <1>1, <2>1, <2>3, <2>4, LiveStep
<1>4. CASE WriteTest(r) \/ RemoveTest(r)
  <2>1. vreq[r].op = "validate"
    BY <1>4 DEF WriteTest, RemoveTest, At
  <2>2. PICK f \in FileSet, pc \in {"remove", "rename"} :
            /\ enabled' = Put(enabled, r, f) /\ Goes(r, pc)
            /\ UNCHANGED <<available, bak, answered, security, bots, alone>>
    <3>1. vreq[r].new \in FileSet
      BY <1>1, <2>1, InFlightFacts
    <3>2. QED
      BY <1>1, <1>4, <3>1 DEF WriteTest, RemoveTest
  <2>3. ASSUME NEW row, NEW live, NEW backup, NEW answer, Moved(row, vreq[r], pc),
               Stage(vreq[r], live, backup, answer)
        PROVE  Stage(row, f, backup, answer)
    BY <2>1, <2>2, <2>3 DEF Stage, Moved
  <2>4. pc \in Places \ {"idle"}
    BY <1>1
  <2>5. QED
    BY <1>1, <2>1, <2>2, <2>3, <2>4, LiveStep
<1>5. QED
  BY <1>2, <1>3, <1>4

(* A request ends. *)
LEMMA EndStep ==
    ASSUME VhostsInv, NEW r \in VRequests, NEW op \in VOps \ {"none"}, vreq[r].op = op, Ends(r),
           NEW z \in Vsites, z = vreq[r].site,
           enabled' \in [Vsites -> FileSet], available' \in [Vsites -> FileSet], bak' \in [Vsites -> FileSet],
           answered' \in [Vsites -> FileSet],
           \A s \in Vsites \ {z} : enabled'[s] = enabled[s] /\ bak'[s] = bak[s] /\ answered'[s] = answered[s],
           UNCHANGED <<security, bots, alone>>,
           Stage(vreq[r], enabled[z], bak[z], answered[z]) /\ answered[z] # NoFile
              => Bare(enabled'[z]) = answered'[z] /\ answered'[z] # NoFile
    PROVE  VhostsInv'
<1>1. PICK row : row = NoVhostRequest
  OBVIOUS
<1>2. row \in VRow /\ vreq' = [vreq EXCEPT ![r] = row]
  BY <1>1, NoRequestRow DEF Ends
<1>3. security' \in [Vsites -> Securities]
  BY DEF VhostsInv, VhostsTypeOK
<1>4. VWrite(r, row, z)
  BY <1>2, <1>3 DEF VWrite
<1>5. Active(r) /\ (alone[z] => answered[z] # NoFile /\ Stage(vreq[r], enabled[z], bak[z], answered[z]))
  BY InFlightFacts
<1>6. QED
  BY <1>1, <1>4, <1>5, EditStep

(* The ends that change no file: the answered one is live, or the one that is
   live is answered. *)
LEMMA AnswerKeeps ==
    ASSUME VhostsInv, NEW r \in VRequests,
           \/ WriteFails(r) \/ TestSecurity(r)
           \/ At(r, "update", "test") /\ Ends(r) /\ Answers(r, vreq[r].new)
              /\ UNCHANGED <<bots, nginxFiles, saved, security, vLoad, alone>>
    PROVE  VhostsInv'
<1>1. PICK op \in VOps \ {"none"} : vreq[r].op = op
  BY DEF WriteFails, TestSecurity, At, VOps
<1>2. PICK z \in Vsites : z = vreq[r].site
  BY <1>1, InFlightFacts
<1>3. PICK f \in FileSet : f = vreq[r].new
  BY <1>1, InFlightFacts
<1>4. UNCHANGED <<enabled, bak, available, security, bots, alone>> /\ Ends(r)
  BY DEF WriteFails, TestSecurity, nginxFiles
<1>5. CASE WriteFails(r)
  <2>1. UNCHANGED answered /\ vreq[r].op = "update" /\ vreq[r].pc = "write"
    BY <1>5 DEF WriteFails, At
  <2>2. Stage(vreq[r], enabled[z], bak[z], answered[z]) => Bare(enabled[z]) = answered[z]
    BY <2>1 DEF Stage
  <2>3. QED
    BY <1>1, <1>2, <1>4, <2>1, <2>2, EndStep DEF VhostsInv, VhostsTypeOK
<1>6. CASE ~WriteFails(r)
  <2>1. /\ answered' = [answered EXCEPT ![z] = f]
        /\ vreq[r].op \in {"update", "security"} /\ vreq[r].pc = "test"
    BY <1>2, <1>3, <1>6 DEF TestSecurity, Answers, Put, At
  <2>2. /\ answered' \in [Vsites -> FileSet] /\ answered'[z] = f
        /\ \A s \in Vsites \ {z} : answered'[s] = answered[s]
    BY <2>1 DEF VhostsInv, VhostsTypeOK
  <2>3. Stage(vreq[r], enabled[z], bak[z], answered[z]) => enabled[z] = f /\ ~f.block /\ f # NoFile
    BY <1>3, <2>1 DEF Stage
  <2>4. ~f.block => Bare(f) = f
    BY BareFacts
  <2>5. Stage(vreq[r], enabled[z], bak[z], answered[z]) => Bare(enabled'[z]) = answered'[z] /\ answered'[z] # NoFile
    BY <1>4, <2>2, <2>3, <2>4
  <2>6. QED
    BY <1>1, <1>2, <1>4, <2>2, <2>5, EndStep DEF VhostsInv, VhostsTypeOK
<1>7. QED
  BY <1>5, <1>6

(* The rollback ends. *)
LEMMA RestoreAvailableKeeps ==
    ASSUME VhostsInv, NEW r \in VRequests, RestoreAvailable(r)
    PROVE  VhostsInv'
<1>1. /\ vreq[r].op = "update" /\ vreq[r].pc = "restoreAvailable" /\ Ends(r)
      /\ UNCHANGED <<enabled, bak, answered, security, bots, alone>>
  BY DEF RestoreAvailable, At
<1>2. "update" \in VOps \ {"none"}
  BY DEF VOps
<1>3. PICK z \in Vsites : z = vreq[r].site
  BY <1>1, <1>2, InFlightFacts
<1>4. available' \in [Vsites -> FileSet]
  <2>1. vreq[r].oldAvailable \in FileSet
    BY <1>1, <1>2, InFlightFacts
  <2>2. QED
    BY <2>1 DEF RestoreAvailable, Put, VhostsInv, VhostsTypeOK
<1>5. Stage(vreq[r], enabled[z], bak[z], answered[z]) => Bare(enabled[z]) = answered[z]
  BY <1>1 DEF Stage
<1>6. QED
  BY <1>1, <1>2, <1>3, <1>4, <1>5, EndStep DEF VhostsInv, VhostsTypeOK

(* The validation puts the original back: there was one, as the answered file
   is a file. *)
LEMMA RenameBackKeeps ==
    ASSUME VhostsInv, NEW r \in VRequests, RenameBack(r)
    PROVE  VhostsInv'
<1>1. /\ vreq[r].op = "validate" /\ Ends(r)
      /\ UNCHANGED <<available, answered, security, bots, alone>>
  BY DEF RenameBack, At
<1>2. "validate" \in VOps \ {"none"}
  BY DEF VOps
<1>3. PICK z \in Vsites : z = vreq[r].site
  BY <1>1, <1>2, InFlightFacts
<1>4. PICK b \in FileSet : b = bak[z]
  BY DEF VhostsInv, VhostsTypeOK
<1>5. NoFile \in FileSet /\ Bare(NoFile) = NoFile
  BY BareFacts
<1>6. CASE HadOriginal(r) /\ b # NoFile
  <2>1. enabled' = [enabled EXCEPT ![z] = b] /\ bak' = [bak EXCEPT ![z] = NoFile]
    BY <1>3, <1>4, <1>6 DEF RenameBack, Put
  <2>2. /\ enabled' \in [Vsites -> FileSet] /\ bak' \in [Vsites -> FileSet] /\ enabled'[z] = b
        /\ \A s \in Vsites \ {z} : enabled'[s] = enabled[s] /\ bak'[s] = bak[s]
    BY <1>5, <2>1 DEF VhostsInv, VhostsTypeOK
  <2>3. Stage(vreq[r], enabled[z], bak[z], answered[z]) => Bare(b) = answered[z]
    BY <1>1, <1>4 DEF Stage
  <2>4. QED
    BY <1>1, <1>2, <1>3, <2>2, <2>3, EndStep DEF VhostsInv, VhostsTypeOK
<1>7. CASE ~(HadOriginal(r) /\ b # NoFile)
  <2>1. UNCHANGED <<enabled, bak>>
    BY <1>3, <1>4, <1>7 DEF RenameBack
  <2>2. Stage(vreq[r], enabled[z], bak[z], answered[z]) => vreq[r].oldEnabled = b /\ Bare(b) = answered[z]
    BY <1>1, <1>4 DEF Stage
  <2>3. ~(Stage(vreq[r], enabled[z], bak[z], answered[z]) /\ answered[z] # NoFile)
    BY <1>5, <1>7, <2>2 DEF HadOriginal
  <2>4. QED
    BY <1>1, <1>2, <1>3, <2>1, <2>3, EndStep DEF VhostsInv, VhostsTypeOK
<1>8. QED
  BY <1>6, <1>7

-----------------------------------------------------------------------------
(* The requests start. *)
LEMMA UpdateVhostKeeps ==
    ASSUME VhostsInv, NEW r \in VRequests, NEW z \in Vsites, NEW f \in Texts, updateVhost(r, z, f)
    PROVE  VhostsInv'
<1>1. /\ UNCHANGED <<enabled, available, bak, bots, security, answered>> /\ Starts(z) /\ ~Active(r)
  BY DEF updateVhost, nginxFiles, Active
<1>2. f \in FileSet /\ ~f.block /\ f # NoFile
  BY TemplateFacts
<1>3. CASE UNCHANGED vreq
  <2>1. /\ DOMAIN alone' = Vsites /\ \A s \in Vsites : alone'[s] => alone[s]
    BY <1>1 DEF Starts, VhostsInv, VhostsTypeOK
  <2>2. VhostsTypeOK'
    BY <1>1, <1>3, <2>1 DEF VhostsInv, VhostsTypeOK
  <2>3. NoOverlap' /\ InPlace'
    BY <1>1, <1>3, <2>1 DEF VhostsInv, NoOverlap, InPlace, Edited, Active
  <2>4. StageInv'
    <3> SUFFICES ASSUME NEW q \in VRequests, Active(q), alone'[vreq[q].site]
                 PROVE  Stage(vreq[q], enabled[vreq[q].site], bak[vreq[q].site], answered[vreq[q].site])
      BY <1>1, <1>3 DEF StageInv, Active
    <3>1. vreq[q].site \in Vsites
      BY DEF VhostsInv, VhostsTypeOK, VRow
    <3>2. QED
      BY <2>1, <3>1 DEF VhostsInv, StageInv
  <2>5. QED
    BY <2>2, <2>3, <2>4 DEF VhostsInv
<1>4. CASE vreq' # vreq
  <2>1. PICK row : row = [NoVhostRequest EXCEPT !.op = "update", !.pc = "read", !.site = z, !.new = f]
    OBVIOUS
  <2>2. "update" \in VOps /\ "read" \in Places
    BY DEF VOps, Places
  <2>3. row \in VRow /\ row.op = "update" /\ row.pc = "read" /\ row.site = z /\ row.new = f
    BY <1>2, <2>1, <2>2, NoRequestRow DEF VRow
  <2>4. VWrite(r, row, z)
    BY <1>1, <1>4, <2>1, <2>3 DEF updateVhost, VWrite, VhostsInv, VhostsTypeOK
  <2>5. row # NoVhostRequest
    BY <2>3, NoRequestRow
  <2>6. alone[z] /\ ~Edited(z) => Stage(row, enabled'[z], bak'[z], answered[z])
    BY <1>1, <1>2, <2>3 DEF VhostsInv, InPlace, Stage
  <2>7. QED
    BY <1>1, <2>3, <2>4, <2>5, <2>6, StartStep
<1>5. QED
  BY <1>3, <1>4

(* The validation sets the live file aside. *)
LEMMA ValidateVhostKeeps ==
    ASSUME VhostsInv, NEW r \in VRequests, NEW z \in Vsites, NEW f \in Texts, validateVhost(r, z, f)
    PROVE  VhostsInv'
<1>1. /\ UNCHANGED <<available, bots, security, answered>> /\ Starts(z) /\ ~Active(r)
  BY DEF validateVhost, Active
<1>2. f \in FileSet /\ NoFile \in FileSet /\ Bare(NoFile) = NoFile
  BY TemplateFacts, BareFacts
<1>3. PICK e \in FileSet : e = enabled[z]
  BY DEF VhostsInv, VhostsTypeOK
<1>4. PICK row : row = [NoVhostRequest EXCEPT !.op = "validate", !.pc = "try", !.site = z, !.new = f, !.oldEnabled = e]
  OBVIOUS
<1>5. "validate" \in VOps /\ "try" \in Places
  BY DEF VOps, Places
<1>6. row \in VRow /\ row.op = "validate" /\ row.pc = "try" /\ row.site = z /\ row.oldEnabled = e
  BY <1>2, <1>4, <1>5, NoRequestRow DEF VRow
<1>7. vreq' = [vreq EXCEPT ![r] = row]
  BY <1>3, <1>4 DEF validateVhost
<1>8. /\ enabled' \in [Vsites -> FileSet] /\ bak' \in [Vsites -> FileSet]
      /\ \A s \in Vsites \ {z} : enabled'[s] = enabled[s] /\ bak'[s] = bak[s]
      /\ e # NoFile => bak'[z] = e
  BY <1>2, <1>3 DEF validateVhost, VhostsInv, VhostsTypeOK
<1>9. VWrite(r, row, z)
  BY <1>1, <1>6, <1>7, <1>8 DEF VWrite, VhostsInv, VhostsTypeOK
<1>10. row # NoVhostRequest
  BY <1>6, NoRequestRow
<1>11. alone[z] /\ ~Edited(z) => Stage(row, enabled'[z], bak'[z], answered[z])
  <2>1. alone[z] /\ ~Edited(z) => Bare(e) = answered[z] /\ e # NoFile
    BY <1>2, <1>3 DEF VhostsInv, InPlace
  <2>2. QED
    BY <1>6, <1>8, <2>1 DEF Stage
<1>12. QED
  BY <1>1, <1>6, <1>9, <1>10, <1>11, StartStep

(* The security settings are stored first. *)
LEMMA UpdateSecurityKeeps ==
    ASSUME VhostsInv, NEW r \in VRequests, NEW z \in Vsites, NEW sec \in Securities, updateSecurity(r, z, sec)
    PROVE  VhostsInv'
<1>1. /\ UNCHANGED <<enabled, available, bak, bots, answered>> /\ Starts(z) /\ ~Active(r)
  BY DEF updateSecurity, nginxFiles, Active
<1>2. security' \in [Vsites -> Securities]
  BY DEF updateSecurity, VhostsInv, VhostsTypeOK
<1>3. PICK row : row = [NoVhostRequest EXCEPT !.op = "security", !.pc = "htpasswd", !.site = z, !.sec = sec]
  OBVIOUS
<1>4. "security" \in VOps /\ "htpasswd" \in Places
  BY DEF VOps, Places
<1>5. row \in VRow /\ row.op = "security" /\ row.pc = "htpasswd" /\ row.site = z
  BY <1>3, <1>4, NoRequestRow DEF VRow
<1>6. VWrite(r, row, z)
  BY <1>1, <1>2, <1>3, <1>5 DEF updateSecurity, VWrite, VhostsInv, VhostsTypeOK
<1>7. row # NoVhostRequest
  BY <1>5, NoRequestRow
<1>8. alone[z] /\ ~Edited(z) => Stage(row, enabled'[z], bak'[z], answered[z])
  BY <1>1, <1>5 DEF VhostsInv, InPlace, Stage
<1>9. QED
  BY <1>1, <1>5, <1>6, <1>7, <1>8, StartStep

-----------------------------------------------------------------------------
(* A step that concerns all sites: where one still counts as undisturbed, no
   request is in flight afterwards and what was answered is in place. *)
LEMMA AllSitesStep ==
    ASSUME VhostsInv, VhostsTypeOK',
           \A s \in Vsites : alone'[s] =>
              ~Edited(s)' /\ answered'[s] # NoFile /\ Bare(enabled'[s]) = answered'[s]
    PROVE  VhostsInv'
<1>1. NoOverlap' /\ InPlace'
  BY DEF NoOverlap, InPlace, Edited
<1>2. StageInv'
  <2> SUFFICES ASSUME NEW q \in VRequests, Active(q)', alone'[vreq'[q].site]
               PROVE  FALSE
    BY DEF StageInv
  <2>1. vreq'[q].site \in Vsites
    BY DEF VhostsTypeOK, VRow
  <2>2. QED
    BY <2>1 DEF Edited
<1>3. QED
  BY <1>1, <1>2 DEF VhostsInv

(* A redeployed site has the template, and that is what was answered. *)
LEMMA RedeployKeeps ==
    ASSUME VhostsInv, NEW z \in Vsites, Redeploy(z)
    PROVE  VhostsInv'
<1>1. PICK f : f = Template(NoSecurity)
  OBVIOUS
<1>2. f \in FileSet /\ f # NoFile /\ Bare(f) = f
  BY <1>1, TemplateFacts, BareFacts
<1>3. /\ enabled' = [enabled EXCEPT ![z] = f] /\ answered' = [answered EXCEPT ![z] = f]
      /\ UNCHANGED <<available, bak, security, vreq, bots>>
  BY <1>1 DEF Redeploy
<1>4. /\ DOMAIN alone' = Vsites /\ (alone'[z] => alone[z] /\ ~InFlight(z))
      /\ \A s \in Vsites \ {z} : alone'[s] = alone[s]
  BY DEF Redeploy, Starts, VhostsInv, VhostsTypeOK
<1>5. /\ enabled'[z] = f /\ answered'[z] = f
      /\ \A s \in Vsites \ {z} : enabled'[s] = enabled[s] /\ answered'[s] = answered[s]
  BY <1>3 DEF VhostsInv, VhostsTypeOK
<1>6. VhostsTypeOK'
  BY <1>2, <1>3, <1>4 DEF VhostsInv, VhostsTypeOK
<1>7. alone'[z] => alone[z] /\ ~Edited(z) /\ bots = "idle"
  BY <1>4 DEF InFlight, Edited, Active
<1>8. NoOverlap'
  BY <1>3, <1>4, <1>7 DEF VhostsInv, NoOverlap, Edited, Active
<1>9. InPlace'
  BY <1>2, <1>3, <1>4, <1>5 DEF VhostsInv, InPlace, Edited, Active
<1>10. StageInv'
  <2> SUFFICES ASSUME NEW q \in VRequests, Active(q), alone'[vreq[q].site]
               PROVE  Stage(vreq[q], enabled'[vreq[q].site], bak[vreq[q].site], answered'[vreq[q].site])
    BY <1>3 DEF StageInv, Active
  <2>1. PICK s \in Vsites : s = vreq[q].site
    BY DEF VhostsInv, VhostsTypeOK, VRow
  <2>2. s # z
    BY <1>7, <2>1 DEF Edited
  <2>3. Stage(vreq[q], enabled[s], bak[s], answered[s])
    BY <1>4, <2>1, <2>2 DEF VhostsInv, StageInv
  <2>4. QED
    BY <1>5, <2>1, <2>2, <2>3
<1>11. QED
  BY <1>6, <1>8, <1>9, <1>10 DEF VhostsInv

(* The panel stops. *)
LEMMA VhostCrashKeeps ==
    ASSUME VhostsInv, VhostCrash
    PROVE  VhostsInv'
<1>1. /\ UNCHANGED <<enabled, available, bak, answered, security>>
      /\ DOMAIN alone' = Vsites /\ \A s \in Vsites : alone'[s] => alone[s] /\ ~InFlight(s)
      /\ \A r \in VRequests : vreq'[r] = NoVhostRequest
  BY DEF VhostCrash, nginxFiles
<1>2. VhostsTypeOK'
  <2>1. vreq' \in [VRequests -> VRow]
    BY NoRequestRow DEF VhostCrash
  <2>2. QED
    BY <1>1, <2>1 DEF VhostsInv, VhostsTypeOK
<1>3. ASSUME NEW s \in Vsites, alone'[s]
      PROVE  ~Edited(s)' /\ answered'[s] # NoFile /\ Bare(enabled'[s]) = answered'[s]
  <2>1. alone[s] /\ ~Edited(s)
    BY <1>1, <1>3 DEF InFlight, Edited, Active
  <2>2. answered[s] # NoFile /\ Bare(enabled[s]) = answered[s]
    BY <2>1 DEF VhostsInv, InPlace
  <2>3. ~Edited(s)'
    BY <1>1 DEF Edited, Active
  <2>4. QED
    BY <1>1, <2>2, <2>3
<1>4. QED
  BY <1>2, <1>3, AllSitesStep

(* The block comes into the files and goes; the rest of them stays. *)
LEMMA WithBlockEffect ==
    ASSUME NEW files \in [Vsites -> FileSet], NEW b \in BOOLEAN
    PROVE  /\ WithBlock(files, b) \in [Vsites -> FileSet]
           /\ \A s \in Vsites : Bare(WithBlock(files, b)[s]) = Bare(files[s])
<1>1. NoFile \in FileSet
  BY BareFacts
<1>2. b \in Flags
  BY DEF Flags
<1>3. ASSUME NEW s \in Vsites
      PROVE  WithBlock(files, b)[s] \in FileSet /\ Bare(WithBlock(files, b)[s]) = Bare(files[s])
  <2>1. PICK f \in FileSet : f = files[s]
    OBVIOUS
  <2>2. PICK g : g = [f EXCEPT !.block = b]
    OBVIOUS
  <2>3. g \in FileSet /\ Bare(g) = Bare(f)
    BY <1>2, <2>2, BareFacts, Zenon
  <2>4. WithBlock(files, b)[s] = IF f = NoFile THEN NoFile ELSE g
    BY <2>1, <2>2, Zenon DEF WithBlock
  <2>5. QED
    BY <1>1, <2>1, <2>3, <2>4
<1>4. DOMAIN WithBlock(files, b) = Vsites /\ WithBlock(files, b) = [s \in Vsites |-> WithBlock(files, b)[s]]
  BY Zenon DEF WithBlock
<1>5. WithBlock(files, b) \in [Vsites -> FileSet]
  BY <1>3, <1>4, Zenon
<1>6. QED
  BY <1>3, <1>5

(* The bot blocker at work: the sites that count as undisturbed have no
   request. *)
LEMMA BotEditKeeps ==
    ASSUME VhostsInv, injectBotBlockInclude \/ removeBotBlockInclude
    PROVE  VhostsInv'
<1>1. /\ bots # "idle" /\ UNCHANGED <<available, answered, security, vreq, alone>>
  BY DEF injectBotBlockInclude, removeBotBlockInclude, BotUnchanged
<1>2. PICK b \in BOOLEAN : enabled' = WithBlock(enabled, b) /\ bak' = WithBlock(bak, b)
  BY DEF injectBotBlockInclude, removeBotBlockInclude
<1>3. enabled \in [Vsites -> FileSet] /\ bak \in [Vsites -> FileSet]
  BY DEF VhostsInv, VhostsTypeOK
<1>4. PICK e \in [Vsites -> FileSet], k \in [Vsites -> FileSet] : e = enabled /\ k = bak
  BY <1>3
<1>5. /\ enabled' \in [Vsites -> FileSet] /\ bak' \in [Vsites -> FileSet]
      /\ \A s \in Vsites : Bare(enabled'[s]) = Bare(enabled[s])
  <2>1. /\ WithBlock(e, b) \in [Vsites -> FileSet] /\ WithBlock(k, b) \in [Vsites -> FileSet]
        /\ \A s \in Vsites : Bare(WithBlock(e, b)[s]) = Bare(e[s])
    BY WithBlockEffect
  <2>2. QED
    BY <1>2, <1>4, <2>1
<1>6. VhostsTypeOK'
  BY <1>1, <1>5 DEF VhostsInv, VhostsTypeOK
<1>7. ASSUME NEW s \in Vsites, alone'[s]
      PROVE  ~Edited(s)' /\ answered'[s] # NoFile /\ Bare(enabled'[s]) = answered'[s]
  <2>1. ~Edited(s) /\ alone[s]
    BY <1>1, <1>7 DEF VhostsInv, NoOverlap
  <2>2. answered[s] # NoFile /\ Bare(enabled[s]) = answered[s]
    BY <2>1 DEF VhostsInv, InPlace
  <2>3. QED
    BY <1>1, <1>5, <2>1, <2>2 DEF Edited, Active
<1>8. QED
  BY <1>6, <1>7, AllSitesStep

(* The bot blocker starts. *)
LEMMA BotStartKeeps ==
    ASSUME VhostsInv, enableBotBlocker \/ disableBotBlocker
    PROVE  VhostsInv'
<1>1. /\ UNCHANGED <<enabled, available, bak, answered, security, vreq>>
      /\ DOMAIN alone' = Vsites /\ \A s \in Vsites : alone'[s] => alone[s] /\ ~InFlight(s)
  BY DEF enableBotBlocker, disableBotBlocker, BotUnchanged, StartBots
<1>2. VhostsTypeOK'
  BY <1>1 DEF VhostsInv, VhostsTypeOK
<1>3. ASSUME NEW s \in Vsites, alone'[s]
      PROVE  ~Edited(s)' /\ answered'[s] # NoFile /\ Bare(enabled'[s]) = answered'[s]
  <2>1. alone[s] /\ ~Edited(s)
    BY <1>1, <1>3 DEF InFlight, Edited, Active
  <2>2. answered[s] # NoFile /\ Bare(enabled[s]) = answered[s]
    BY <2>1 DEF VhostsInv, InPlace
  <2>3. QED
    BY <1>1, <2>1, <2>2 DEF Edited, Active
<1>4. QED
  BY <1>2, <1>3, AllSitesStep

(* Every step keeps the invariant. *)
LEMMA VhostsKeeps ==
    ASSUME VhostsInv, [VhostsNext]_vhostVars
    PROVE  VhostsInv'
<1>1. ASSUME NEW r \in VRequests, TestUpdate(r)
      PROVE  VhostsInv'
  BY <1>1, QuietKeeps, AnswerKeeps DEF TestUpdate
<1>2. CASE TestBots \/ (\E m \in {"good", "bad"} : EditMap(m)) \/ UNCHANGED vhostVars
  <2>1. /\ UNCHANGED <<enabled, available, bak, answered, security, vreq, alone>>
        /\ bots' # "idle" => bots # "idle"
    BY <1>2 DEF TestBots, EditMap, BotUnchanged, vhostVars, nginxFiles
  <2>2. QED
    BY <2>1 DEF VhostsInv, VhostsTypeOK, NoOverlap, InPlace, StageInv, Edited, Active
<1>3. QED
  BY <1>1, <1>2, UpdateVhostKeeps, WriteAvailableKeeps, ValidateVhostKeeps, UpdateSecurityKeeps, QuietKeeps, ReadPreviousKeeps,
     GenerateVhostKeeps, LiveKeeps, AnswerKeeps, RestoreAvailableKeeps, RenameBackKeeps, RedeployKeeps,
     VhostCrashKeeps, BotEditKeeps, BotStartKeeps
  DEF VhostsNext

(* For any number of sites and requests: operations on a site that do not
   overlap leave in sites-enabled what the last successful one wrote, although
   nginx -t judges all sites' files together, validation swaps the live file
   and the bot blocker edits every file. *)
THEOREM AnsweredIsLiveHolds == VhostsSpec => []AnsweredIsLive
<1>1. VhostsInit => VhostsInv
  BY VhostsInitial
<1>2. VhostsInv /\ [VhostsNext]_vhostVars => VhostsInv'
  BY VhostsKeeps
<1>3. VhostsInv => AnsweredIsLive
  <2>1. \A s \in Vsites : AtRest(s) => alone[s] /\ ~Edited(s)
    BY DEF AtRest, InFlight, Edited, Active
  <2>2. QED
    BY <2>1, Zenon DEF VhostsInv, InPlace, AnsweredIsLive, Bare
<1>4. QED
  BY <1>1, <1>2, <1>3, PTL DEF VhostsSpec

=============================================================================
