------------------------------ MODULE MCPanel -------------------------------
(* The panel's own components.  Those below share no state (Fleet includes *)
(* the sender of Alerts), so each behaviour exercises one of them, part,   *)
(* while the others rest; its load bounds how often each operation and     *)
(* fault occurs.                                                           *)
EXTENDS Accounts, Licenses, RateLimiter, Fleet, SecurityMonitor, Terminals,
        BackupCopies, Databases, BackupPlans, TLC

CONSTANT Parts
VARIABLE part

Rest == "rest" :> 0

NoRequests == "site" :> 0
MCWorkloads ==
    {NoRequests, "create" :> 1 @@ "update" :> 1, "create" :> 1 @@ "site" :> 1,
     "delete" :> 1 @@ "order" :> 1 @@ "approve" :> 1, "delete" :> 1 @@ "impersonate" :> 1,
     "delete" :> 1 @@ "assign" :> 1, "site" :> 3, "site" :> 2 @@ "update" :> 1, "site" :> 1 @@ "delete" :> 1,
     "newPlan" :> 1 @@ "order" :> 1 @@ "deletePlan" :> 1, "plan" :> 2,
     "assignPlan" :> 1 @@ "deletePlan" :> 1,
     "assign" :> 1 @@ "unassign" :> 1 @@ "permission" :> 1,
     "token" :> 1 @@ "revoke" :> 1}

Email(tls, user) == [type |-> "email", to |-> "ops", from |-> "", host |-> "", tls |-> tls, user |-> user]
MCConfigs == {Hook, Email("", "u"), Email("none", "u"), Email("ssl", "")}
MCEnvironments == {[host |-> "mx", tls |-> "", user |-> user, from |-> "panel"] : user \in {"", "e"}}
MCAlertLoads == {Rest, "undelivered" :> 1 @@ "deleteChannel" :> 1, "createChannel" :> 1}

MCFleetLoads ==
    {Rest, "create" :> 1 @@ "configure" :> 1 @@ "toggle" :> 2 @@ "checkAll" :> 3 @@ "update" :> 1,
     "create" :> 1 @@ "configure" :> 1 @@ "toggle" :> 1 @@ "checkAll" :> 3 @@ "crash" :> 1,
     "create" :> 1 @@ "configure" :> 1 @@ "checkAll" :> 1 @@ "delete" :> 1 @@ "collect" :> 1,
     "create" :> 1 @@ "configure" :> 1 @@ "regenerate" :> 1 @@ "collect" :> 2 @@ "ingest" :> 1,
     "regToken" :> 1 @@ "install" :> 2 @@ "lapse" :> 1 @@ "checkAll" :> 1,
     "regToken" :> 1 @@ "install" :> 2 @@ "crash" :> 1}

MCMonitorLoads ==
    {Rest, "check" :> 3 @@ "save" :> 1 @@ "write" :> 2 @@ "unreachable" :> 1, "check" :> 2 @@ "save" :> 2 @@ "write" :> 2,
     "check" :> 3 @@ "logins" :> 3 @@ "rotate" :> 1, "check" :> 3 @@ "connect" :> 2 @@ "account" :> 1,
     "check" :> 3 @@ "crash" :> 1 @@ "logins" :> 2 @@ "account" :> 1}

MCHints == {<<"x">>, <<"u1", "x">>}
MCTermLoads ==
    {Rest, "ticket" :> 2 @@ "output" :> 2, "ticket" :> 2 @@ "clean" :> 1 @@ "exit" :> 1,
     "ticket" :> 2 @@ "clean" :> 1 @@ "dial" :> 1 @@ "pty" :> 1 @@ "crash" :> 1}

MCCopyLoads ==
    {Rest, "create" :> 1 @@ "restore" :> 2, "create" :> 1 @@ "restore" :> 1 @@ "fault" :> 2,
     "dump" :> 1 @@ "deleteProvider" :> 1 @@ "restore" :> 1, "create" :> 1 @@ "delete" :> 1 @@ "cleanup" :> 1,
     "create" :> 1 @@ "stuck" :> 1 @@ "restore" :> 1,
     "create" :> 2 @@ "retention" :> 1 @@ "cleanup" :> 1}

MCLogins == {<<"login", 0, 0>>}
MCDbWorkloads ==
    {{}, {"create", "delete"}, {"user", "delete"}, {"user", "alter"}, {"user", "import"}, {"user", "grant"}, {"ticket"}}

\* "*/2 1 1 * 2" (either day) and "0-1 * 2 2 *" (a month to jump),
\* for a year of two months of two days, with a week of three.
Star == <<[kind |-> "star", from |-> 0, to |-> 0]>>
Value(v) == <<[kind |-> "value", from |-> v, to |-> v]>>
Every(a, n) == <<[kind |-> "step", from |-> a, to |-> n]>>
Span(a, b) == <<[kind |-> "range", from |-> a, to |-> b]>>
MCCronExprs ==
    {<<Every(0, 2), Value(1), Value(1), Star, Value(2)>>,
     <<Span(0, 1), Star, Value(2), Value(2), Star>>}
MCCronGrid ==
    {<<mi, ho, da, mo, we>> : mi \in {Star, Every(0, 2)}, ho \in {Star, Value(1)}, da \in {Star, Value(2)},
                              mo \in {Star, Value(1), Value(2)}, we \in {Star, Span(0, 1), Value(2) \o Value(7)}}
MCPlanWorkloads == {{}, {"search"}, {"config", "run"}, {"schedule"}, {"provider"}}

-----------------------------------------------------------------------------
\* A component has a load exactly when it is the part exercised.
Loaded(name, given, rest) == part = name <=> given # rest
OneHook == config = [c \in Channels |-> Hook] /\ lastChannel <= 1 /\ env.user = ""

MCInit ==
    /\ part \in Parts
    /\ Init /\ Loaded("accounts", load, NoRequests)
    /\ LicenseInit /\ (part # "licenses" => licenses = [k \in Keys |-> "none"])
    /\ LimiterInit
    /\ FleetInit /\ Loaded("fleet", fleetLoad, Rest) /\ Loaded("alerts", alertLoad, Rest)
    /\ part = "fleet" => OneHook
    /\ part = "alerts" /\ "createChannel" \in DOMAIN alertLoad => OneHook
    /\ part \notin {"fleet", "alerts"} => OneHook /\ lastChannel = 0
    /\ MonitorInit /\ Loaded("monitor", monLoad, Rest) /\ (part # "monitor" => files = [p \in Paths |-> "h0"])
    /\ TermInit /\ Loaded("terminals", termLoad, Rest)
    /\ CopiesInit /\ Loaded("copies", copyLoad, Rest) /\ (part # "copies" => remote /\ siteProvider = "own")
    /\ DatabasesInit /\ Loaded("databases", dbLoad, {}) /\ (part # "databases" => rows[1].type = "mysql")
    /\ PlansInit /\ Loaded("plans", planLoad, {}) /\ \A s \in SiteIds : site[s].status = "active"

MCNext ==
    /\ UNCHANGED part
    /\ IF part = "accounts" THEN Next ELSE UNCHANGED vars
    /\ IF part = "licenses" THEN LicenseNext ELSE UNCHANGED licenseVars
    /\ IF part = "limiter" THEN LimiterNext ELSE UNCHANGED limiterVars
    /\ IF part = "fleet" THEN FleetNext
       ELSE UNCHANGED fleetVars /\ IF part = "alerts" THEN AlertsNext ELSE UNCHANGED alertVars
    /\ IF part = "monitor" THEN MonitorNext ELSE UNCHANGED monitorVars
    /\ IF part = "terminals" THEN TermNext ELSE UNCHANGED termVars
    /\ IF part = "copies" THEN CopiesNext ELSE UNCHANGED copyVars
    /\ IF part = "databases" THEN DatabasesNext ELSE UNCHANGED databaseVars
    /\ IF part = "plans" THEN PlansNext ELSE UNCHANGED planVars

MCSpec ==
    MCInit /\ [][MCNext]_<<part, vars, licenseVars, limiterVars, fleetVars, alertVars, monitorVars,
                           termVars, copyVars, databaseVars, planVars>>
=============================================================================
