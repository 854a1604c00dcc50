------------------------------- MODULE Fleet --------------------------------
(***************************************************************************)
(* The servers of the panel: the table, its API, the one-time registration *)
(* of an agent by the install script, the health checker and the metrics   *)
(* collector, composed with the sender of alerts (Alerts).  API requests,  *)
(* install scripts and check goroutines interleave; the process may crash. *)
(*                                                                         *)
(* A host is where an agent may run: the agent token in its configuration  *)
(* (0: no agent) and whether it answers.  The panel's clock is in UTC, so  *)
(* the two tests of expires_at agree.                                      *)
(***************************************************************************)
EXTENDS Alerts

CONSTANTS
    Servers,     \* server ids that may be given out (1..n)
    Hosts,       \* machines
    RegTokens,   \* registration tokens that may be issued
    Edits,       \* bound: overlapping API requests that read and write back a row
    FleetLoads   \* bound: how often each request or fault occurs

ASSUME FleetAssumption == Servers \subseteq Nat

VARIABLES
    servers,   \* the servers table
    lastServer, \* its AUTOINCREMENT counter
    secrets,   \* agent tokens generated so far
    regTokens, \* registration_tokens: "none", "fresh", "used"
    lapsed,    \* registration tokens past expires_at
    hosts,     \* agent token and state of each machine
    installs,  \* the install script on each machine
    edits,     \* update and regenerate-token requests between read and write
    checks,    \* the health check goroutine of each server
    collector, \* the metrics collector's round: servers still to ask
    metrics,   \* servers that have a row in server_metrics
    fleetLoad,
    issued,    \* the last agent token the API handed out for each server, as its administrator noted it
    notice,    \* history: the last notice about each server
    lostNotice \* history: servers whose last notice a crash swallowed

fleetVars == <<servers, lastServer, secrets, regTokens, lapsed, hosts, installs, edits, checks, collector,
               metrics, fleetLoad, issued, notice, lostNotice>>
historyVars == <<issued, notice, lostNotice>>

NoServer == [status |-> "none", health |-> "unknown", host |-> "none", token |-> 0, by |-> "api"]
NoInstall == [pc |-> "idle", reg |-> "none", saved |-> 0]
NoEdit == [op |-> "none", id |-> 0, status |-> "none"]
NoCheck == [pc |-> "idle", status |-> "none", health |-> "none", host |-> "none", found |-> "none"]
Rows == {s \in Servers : servers[s].status # "none"}

FleetInit ==
    /\ AlertsInit
    /\ servers = [s \in Servers |-> NoServer] /\ lastServer = 0 /\ secrets = 0
    /\ regTokens = [t \in RegTokens |-> "none"] /\ lapsed = {}
    /\ hosts = [h \in Hosts |-> [token |-> 0, up |-> TRUE]]
    /\ installs = [h \in Hosts |-> NoInstall]
    /\ edits = [e \in Edits |-> NoEdit]
    /\ checks = [s \in Servers |-> NoCheck]
    /\ collector = {} /\ metrics = {}
    /\ fleetLoad \in FleetLoads
    /\ issued = [s \in Servers |-> 0] /\ notice = [s \in Servers |-> "none"]
    /\ lostNotice = {}

SpendFleet(op) ==
    /\ op \in DOMAIN fleetLoad /\ fleetLoad[op] > 0
    /\ fleetLoad' = [fleetLoad EXCEPT ![op] = @ - 1]

-----------------------------------------------------------------------------
(* The servers API *)

\* Status pending, a new token that only this answer shows; the URL is optional.
createServer(h) ==
    LET s == lastServer + 1
    IN  /\ SpendFleet("create") /\ s \in Servers /\ lastServer' = s /\ secrets' = secrets + 1
        /\ servers' = [servers EXCEPT ![s] = [NoServer EXCEPT !.status = "pending", !.host = h, !.token = secrets + 1]]
        /\ issued' = [issued EXCEPT ![s] = secrets + 1]
        /\ UNCHANGED <<regTokens, lapsed, hosts, installs, edits, checks, collector, metrics, notice,
                       lostNotice, alertVars>>

\* GetByID; the handler goes on with this copy of the row.
ReadRow(e, op, s) ==
    /\ SpendFleet(op) /\ edits[e] = NoEdit /\ s \in Rows
    /\ edits' = [edits EXCEPT ![e] = [op |-> op, id |-> s, status |-> servers[s].status]]
    /\ UNCHANGED <<servers, lastServer, secrets, regTokens, lapsed, hosts, installs, checks, collector, metrics,
                   historyVars, alertVars>>

\* Update writes every editable column and the status, but not agent_token.
WriteRow(e) ==
    LET s == edits[e].id
    IN  /\ servers' = IF s \in Rows THEN [servers EXCEPT ![s].status = edits[e].status] ELSE servers
        /\ edits' = [edits EXCEPT ![e] = NoEdit]
        /\ UNCHANGED <<lastServer, regTokens, lapsed, hosts, installs, checks, collector, metrics, fleetLoad,
                       notice, lostNotice, alertVars>>

update(e) == edits[e].op = "update" /\ WriteRow(e) /\ UNCHANGED <<secrets, issued>>

\* The answer shows the new token.
regenerateToken(e) ==
    /\ edits[e].op = "regenerate" /\ WriteRow(e)
    /\ secrets' = secrets + 1
    /\ issued' = [issued EXCEPT ![edits[e].id] = secrets + 1]

\* ON DELETE CASCADE takes the metrics along.
deleteServer(s) ==
    /\ SpendFleet("delete") /\ s \in Rows
    /\ servers' = [servers EXCEPT ![s] = NoServer]
    /\ metrics' = metrics \ {s}
    /\ UNCHANGED <<lastServer, secrets, regTokens, lapsed, hosts, installs, edits, checks, collector, historyVars,
                   alertVars>>

\* An administrator writes the token an answer showed into the agent's configuration.
ConfigureAgent(s) ==
    /\ SpendFleet("configure") /\ s \in Rows /\ servers[s].host # "none" /\ issued[s] # 0
    /\ installs[servers[s].host] = NoInstall
    /\ hosts' = [hosts EXCEPT ![servers[s].host].token = issued[s]]
    /\ UNCHANGED <<servers, lastServer, secrets, regTokens, lapsed, installs, edits, checks, collector, metrics,
                   historyVars, alertVars>>

\* The machine or the network goes down or comes back.
Toggle(h) ==
    /\ SpendFleet("toggle") /\ hosts' = [hosts EXCEPT ![h].up = ~@]
    /\ UNCHANGED <<servers, lastServer, secrets, regTokens, lapsed, installs, edits, checks, collector, metrics,
                   historyVars, alertVars>>

-----------------------------------------------------------------------------
(* Registration by the install script *)

\* The database holds the hash; the token is good for an hour.
createRegistrationToken(t) ==
    /\ SpendFleet("regToken") /\ regTokens[t] = "none"
    /\ regTokens' = [regTokens EXCEPT ![t] = "fresh"]
    /\ UNCHANGED <<servers, lastServer, secrets, lapsed, hosts, installs, edits, checks, collector, metrics,
                   historyVars, alertVars>>

Lapse(t) ==
    /\ SpendFleet("lapse") /\ regTokens[t] # "none" /\ lapsed' = lapsed \cup {t}
    /\ UNCHANGED <<servers, lastServer, secrets, regTokens, hosts, installs, edits, checks, collector, metrics,
                   historyVars, alertVars>>

InstallStep(h, i, tok) ==
    /\ installs' = [installs EXCEPT ![h] = i]
    /\ hosts' = [hosts EXCEPT ![h].token = tok]
    /\ UNCHANGED <<edits, checks, collector, metrics, historyVars, alertVars>>

\* rollback_agent_install: the trap puts the saved configuration back and restarts the service.
rollback_agent_install(h) == InstallStep(h, NoInstall, installs[h].saved)

\* The configuration is saved, replaced by one with a new agent token, and the service started.
StartAgent(h, t) ==
    /\ SpendFleet("install") /\ installs[h] = NoInstall /\ regTokens[t] # "none" /\ hosts[h].up
    /\ secrets' = secrets + 1
    /\ InstallStep(h, [pc |-> "register", reg |-> t, saved |-> hosts[h].token], secrets + 1)
    /\ UNCHANGED <<servers, lastServer, regTokens, lapsed>>

\* registerAgent up to the transaction: the token exists, is not used and not expired.
registerAgent(h) ==
    LET t == installs[h].reg
    IN  /\ installs[h].pc = "register"
        /\ IF regTokens[t] = "fresh" /\ t \notin lapsed
           THEN InstallStep(h, [installs[h] EXCEPT !.pc = "consume"], hosts[h].token)
           ELSE rollback_agent_install(h)
        /\ UNCHANGED <<servers, lastServer, secrets, regTokens, lapsed, fleetLoad>>

Registered(h) == [NoServer EXCEPT !.status = "online", !.host = h, !.token = hosts[h].token, !.by = installs[h].reg]

\* Mutant: the token is tested before the transaction only.
ConsumeUnchecked(h) ==
    LET t == installs[h].reg
        s == lastServer + 1
    IN  /\ installs[h].pc = "consume" /\ s \in Servers
        /\ regTokens' = [regTokens EXCEPT ![t] = "used"] /\ lastServer' = s
        /\ servers' = [servers EXCEPT ![s] = Registered(h)]
        /\ InstallStep(h, [installs[h] EXCEPT !.pc = "answer"], hosts[h].token)
        /\ UNCHANGED <<secrets, lapsed, fleetLoad>>

\* One transaction: claim the token if it is still unused and not expired, insert the server.
ConsumeRegistrationTokenAndCreateServer(h) ==
    LET t == installs[h].reg
        s == lastServer + 1
    IN  /\ installs[h].pc = "consume" /\ s \in Servers
        /\ IF regTokens[t] = "fresh" /\ t \notin lapsed
           THEN /\ regTokens' = [regTokens EXCEPT ![t] = "used"] /\ lastServer' = s
                /\ servers' = [servers EXCEPT ![s] = Registered(h)]
                /\ InstallStep(h, [installs[h] EXCEPT !.pc = "answer"], hosts[h].token)
           ELSE rollback_agent_install(h) /\ UNCHANGED <<servers, lastServer, regTokens>>
        /\ UNCHANGED <<secrets, lapsed, fleetLoad>>

\* The body of the answer, and what the script's jq -er '.server_id' makes of it.
AgentAnswer == [data |-> [server_id |-> lastServer, status |-> "online"], request_id |-> 0]
JqFinds(answer, field) == field \in DOMAIN answer

\* The script ends: ROLLBACK_ACTIVE=0 when the id is found, the trap's rollback otherwise.
FinishInstall(h) ==
    /\ installs[h].pc = "answer"
    /\ IF JqFinds(AgentAnswer, "server_id")
       THEN InstallStep(h, NoInstall, hosts[h].token) ELSE rollback_agent_install(h)
    /\ UNCHANGED <<servers, lastServer, secrets, regTokens, lapsed, fleetLoad>>

-----------------------------------------------------------------------------
(* The health checker *)

\* Every minute; a check takes at most ten seconds.  The goroutine works with the row as listed.
checkAll ==
    /\ SpendFleet("checkAll") /\ \A s \in Servers : checks[s] = NoCheck
    /\ LET asked == {s \in Rows : servers[s].host # "none"}
       IN  /\ asked # {}
           /\ checks' = [s \in Servers |-> IF s \in asked
                            THEN [NoCheck EXCEPT !.pc = "ping", !.status = servers[s].status, !.health = servers[s].health,
                                            !.host = servers[s].host]
                            ELSE NoCheck]
    /\ UNCHANGED <<servers, lastServer, secrets, regTokens, lapsed, hosts, installs, edits, collector, metrics,
                   issued, notice, lostNotice, alertVars>>

\* GET /health needs no token: up and fast, up and slow (more than a second), or no good answer.
Answers(h) == IF hosts[h].up /\ hosts[h].token # 0 THEN {"online", "degraded"} ELSE {"offline"}

CheckStep(s, c) ==
    /\ checks' = [checks EXCEPT ![s] = c]
    /\ UNCHANGED <<lastServer, secrets, regTokens, lapsed, hosts, installs, edits, collector, metrics, fleetLoad, issued>>

checkServer(s) ==
    /\ checks[s].pc = "ping"
    /\ \E found \in Answers(checks[s].host) :
          CheckStep(s, [checks[s] EXCEPT !.pc = "health", !.found = found])
    /\ UNCHANGED <<servers, notice, lostNotice, alertVars>>

UpdateHealth(s) ==
    /\ checks[s].pc = "health"
    /\ servers' = IF s \in Rows THEN [servers EXCEPT ![s].health = checks[s].found] ELSE servers
    /\ CheckStep(s, [checks[s] EXCEPT !.pc = "status"])
    /\ UNCHANGED <<notice, lostNotice, alertVars>>

\* The status to write, given the one in the row as listed.
NewStatus(c) ==
    IF c.found = "online" /\ c.status \in {"pending", "offline"} THEN "online"
    ELSE IF c.found = "offline" /\ c.status \in {"online", "degraded"} THEN "offline" ELSE "same"

\* Mutant: a slow answer is not taken for a recovery.
NoticeSlow(c) ==
    IF c.found = "offline" /\ c.health \in {"online", "degraded", "unknown"} THEN "offline"
    ELSE IF c.found = "online" /\ c.health = "offline" THEN "online" ELSE "none"

\* The notice to send, given the health in the row as listed.
Notice(c) ==
    IF c.found = "offline" /\ c.health \in {"online", "degraded", "unknown"} THEN "offline"
    ELSE IF c.found \in {"online", "degraded"} /\ c.health = "offline" THEN "online" ELSE "none"

UpdateServerStatus(s) ==
    /\ checks[s].pc = "status"
    /\ servers' = IF s \in Rows /\ NewStatus(checks[s]) # "same"
                  THEN [servers EXCEPT ![s].status = NewStatus(checks[s])] ELSE servers
    /\ CheckStep(s, IF Notice(checks[s]) = "none" THEN NoCheck ELSE [checks[s] EXCEPT !.pc = "notify"])
    /\ UNCHANGED <<notice, lostNotice, alertVars>>

\* Sender.Send; the next round does not wait for it.
Notify(s, k) ==
    /\ checks[s].pc = "notify"
    /\ notice' = [notice EXCEPT ![s] = Notice(checks[s])]
    /\ lostNotice' = lostNotice \ {s}
    /\ CheckStep(s, NoCheck) /\ StartSend(k)
    /\ UNCHANGED servers

-----------------------------------------------------------------------------
(* The metrics collector: one server after the other, Sends included *)

NoRound == {}
Round(s) == [id |-> s, token |-> servers[s].token, host |-> servers[s].host, sends |-> 0, wait |-> 0]

CollectorStep(r) ==
    /\ collector' = r
    /\ UNCHANGED <<servers, lastServer, secrets, regTokens, lapsed, hosts, installs, edits, checks, historyVars>>

collectAll ==
    /\ SpendFleet("collect") /\ collector = {}
    /\ CollectorStep({Round(s) : s \in {s \in Rows : servers[s].host # "none"}})
    /\ UNCHANGED <<metrics, alertVars>>

NextAsked == CHOOSE r \in collector : \A q \in collector : r.id <= q.id

\* The agent compares the token; the insert fails when the server is gone.  A full disk and a hot GPU
\* each call Send.
collectFromAgent ==
    LET r == NextAsked
        answered == hosts[r.host].up /\ hosts[r.host].token = r.token
    IN  /\ collector # {} /\ r.sends = 0 /\ r.wait = 0
        /\ IF answered /\ r.id \in Rows
           THEN /\ metrics' = metrics \cup {r.id}
                /\ \E n \in 0..2 : CollectorStep((collector \ {r}) \cup
                       (IF n = 0 THEN {} ELSE {[r EXCEPT !.sends = n]}))
           ELSE CollectorStep(collector \ {r}) /\ UNCHANGED metrics
        /\ UNCHANGED <<fleetLoad, alertVars>>

Returned(n) == n # 0 => \A k \in SendSlots : sends[k].n # n

CollectorSend(k) ==
    LET r == NextAsked
    IN  /\ collector # {} /\ r.sends > 0 /\ Returned(r.wait)
        /\ CollectorStep((collector \ {r}) \cup {[r EXCEPT !.sends = @ - 1, !.wait = lastSend + 1]})
        /\ StartSend(k)
        /\ UNCHANGED <<metrics, fleetLoad>>

CollectorReturn ==
    LET r == NextAsked
    IN  /\ collector # {} /\ r.sends = 0 /\ r.wait # 0 /\ Returned(r.wait)
        /\ CollectorStep(collector \ {r})
        /\ UNCHANGED <<metrics, fleetLoad, alertVars>>

\* POST /servers/:id/metrics; the foreign key refuses an unknown server.
ingest(s) ==
    /\ SpendFleet("ingest") /\ s \in Rows /\ metrics' = metrics \cup {s}
    /\ CollectorStep(collector) /\ UNCHANGED alertVars

-----------------------------------------------------------------------------

\* The backend stops: requests, checks, the collector's round and Sends are gone.
FleetCrash ==
    /\ SpendFleet("crash")
    /\ edits' = [e \in Edits |-> NoEdit]
    /\ checks' = [s \in Servers |-> NoCheck]
    /\ collector' = NoRound
    /\ sends' = NoSends
    /\ LET cut == {h \in Hosts : installs[h].pc # "idle"}
       IN  /\ installs' = [h \in Hosts |-> NoInstall]
           /\ hosts' = [h \in Hosts |-> IF h \in cut THEN [hosts[h] EXCEPT !.token = installs[h].saved] ELSE hosts[h]]
    /\ lostNotice' = lostNotice \cup {s \in Servers : checks[s].pc \in {"status", "notify"} /\ Notice(checks[s]) # "none"}
    /\ UNCHANGED <<servers, lastServer, secrets, regTokens, lapsed, metrics, issued, notice,
                   channels, lastChannel, mailVars, alerts, lastSend, listed, existed, alertLoad>>

FleetNext ==
    \/ SendNext /\ UNCHANGED fleetVars
    \/ \E h \in Hosts : \/ createServer(h) \/ Toggle(h) \/ registerAgent(h) \/ FinishInstall(h)
                        \/ ConsumeRegistrationTokenAndCreateServer(h)
                        \/ \E t \in RegTokens : StartAgent(h, t)
    \/ createServer("none")
    \/ \E e \in Edits : \/ update(e) \/ regenerateToken(e)
                        \/ \E op \in {"update", "regenerate"}, s \in Servers : ReadRow(e, op, s)
    \/ \E s \in Servers : \/ deleteServer(s) \/ ConfigureAgent(s) \/ checkServer(s) \/ UpdateHealth(s)
                          \/ UpdateServerStatus(s) \/ ingest(s) \/ \E k \in SendSlots : Notify(s, k)
    \/ \E t \in RegTokens : createRegistrationToken(t) \/ Lapse(t)
    \/ checkAll \/ collectAll \/ collectFromAgent \/ CollectorReturn \/ FleetCrash
    \/ \E k \in SendSlots : CollectorSend(k)

FleetSpec == FleetInit /\ [][FleetNext]_<<fleetVars, alertVars>>

-----------------------------------------------------------------------------
(* A registration token makes one server, however many scripts run with it *)
(* at once: ConsumeRegistrationTokenAndCreateServer tests it again inside  *)
(* the transaction.                                                        *)
TokenMakesOneServer ==
    \A s, q \in Rows : servers[s].by = servers[q].by /\ servers[s].by # "api" => s = q

(* Whoever reads the notices knows who is offline: after a check the last  *)
(* notice about a server says offline exactly when its health does, unless *)
(* a crash came between UpdateHealth and the notice.                       *)
NoticeFollowsHealth ==
    \A s \in Rows : checks[s] = NoCheck /\ s \notin lostNotice =>
        (servers[s].health = "offline" <=> notice[s] = "offline")

=============================================================================
