-------------------------- MODULE SecurityMonitor --------------------------
(***************************************************************************)
(* The compromise indicators of one server: the agent's collectors (SSH    *)
(* log, hashes of critical files, established connections, accounts with   *)
(* uid 0), the baseline the API saves and compares with, and the panel's   *)
(* SecurityCollector, which asks every ten minutes and alerts when a       *)
(* condition's fingerprint differs from the one it alerted last.  The      *)
(* fingerprints and the SSH watermark are in memory only.                  *)
(***************************************************************************)
EXTENDS Naturals, Sequences, FiniteSets, SequencesExt

CONSTANTS
    Paths,        \* watched files
    Hashes,       \* contents of a file
    Remotes,      \* suspicious endpoints a connection may lead to
    Accounts,     \* accounts that may get uid 0
    Burst,        \* failed logins between two checks that count as brute force (20)
    LogLimit,     \* lines of a log the agent reads (authLogLimitLines)
    MonitorLoads  \* bound: how often each event occurs

\* What a server can be found with is finite, and a burst is at least one login.
ASSUME MonitorAssumption ==
    /\ IsFiniteSet(Paths) /\ IsFiniteSet(Remotes) /\ IsFiniteSet(Accounts)
    /\ Burst \in Nat \ {0} /\ LogLimit \in Nat

VARIABLES
    baseline,   \* security_baselines: hash of each path, "none" without a row
    files,      \* what is on the server: a hash, or "absent"
    remoteConns, uids, \* suspicious connections; accounts with uid 0
    logs,       \* failed logins in auth.log and auth.log.1
    prints,     \* sc.fingerprints, by rule
    watermark,  \* sc.sshWatermark
    mon,        \* the collector: the rule it is at, and the baseline it read
    saving,     \* a saveBaseline request between the agent's answer and the transaction
    monLoad,
    seen,       \* history: the condition each rule found last ({} when there is none)
    told,       \* history: the condition each rule alerted last
    attempts,   \* history: failed logins since the watermark was taken
    counted     \* history: the logs were neither rotated nor at their limit since

monitorVars == <<baseline, files, remoteConns, uids, logs, prints, watermark, mon, saving, monLoad,
                 seen, told, attempts, counted>>
serverVars == <<files, remoteConns, uids, logs, attempts, counted>>

Rules == {"ssh", "integrity", "connections", "uid0"}
NoBaseline == [p \in Paths |-> "none"]
MonitorIdle == [at |-> "idle", base |-> NoBaseline]
NoSave == [busy |-> FALSE, found |-> NoBaseline]

MonitorInit ==
    /\ baseline = NoBaseline
    /\ files \in [Paths -> {"h0", "absent"}] /\ remoteConns = {} /\ uids = {"root"}
    /\ logs = <<1, 0>>
    /\ prints = [r \in Rules |-> <<>>] /\ watermark = 0
    /\ mon = MonitorIdle /\ saving = NoSave
    /\ monLoad \in MonitorLoads
    /\ seen = [r \in Rules |-> {}] /\ told = [r \in Rules |-> {}]
    /\ attempts = 0 /\ counted = FALSE

SpendMonitor(op) ==
    /\ op \in DOMAIN monLoad /\ monLoad[op] > 0
    /\ monLoad' = [monLoad EXCEPT ![op] = @ - 1]

-----------------------------------------------------------------------------
(* What happens on the server *)

PanelUnchanged == UNCHANGED <<baseline, prints, watermark, mon, saving, seen, told>>

WriteFile(p, h) ==
    /\ SpendMonitor("write") /\ files[p] # h /\ files' = [files EXCEPT ![p] = h]
    /\ PanelUnchanged /\ UNCHANGED <<remoteConns, uids, logs, attempts, counted>>

Connect(S) ==
    /\ SpendMonitor("connect") /\ remoteConns # S /\ remoteConns' = S
    /\ PanelUnchanged /\ UNCHANGED <<files, uids, logs, attempts, counted>>

ChangeAccounts(S) ==
    /\ SpendMonitor("account") /\ uids # S /\ uids' = S
    /\ PanelUnchanged /\ UNCHANGED <<files, remoteConns, logs, attempts, counted>>

FailedLogins(n) ==
    /\ SpendMonitor("logins") /\ logs' = <<logs[1] + n, logs[2]>>
    /\ attempts' = attempts + n /\ counted' = (counted /\ logs[1] + n <= LogLimit)
    /\ PanelUnchanged /\ UNCHANGED <<files, remoteConns, uids>>

Rotate ==
    /\ SpendMonitor("rotate") /\ logs' = <<0, logs[1]>> /\ counted' = FALSE
    /\ PanelUnchanged /\ UNCHANGED <<files, remoteConns, uids, attempts>>

-----------------------------------------------------------------------------
(* The agent's collectors *)

\* The first LogLimit lines of each log are read.
parseSSHLogs == LET Read(n) == IF n > LogLimit THEN LogLimit ELSE n IN Read(logs[1]) + Read(logs[2])

\* Map iteration gives the elements in any order.
AnyOrder(S) == SetToSeqs(S)

\* checkServer: entries that do not exist are as good as not there.
Drift(base) ==
    LET rows == {p \in Paths : base[p] # "none"}
        there == {p \in Paths : files[p] # "absent"}
    IN  [changed |-> {p \in rows \cap there : base[p] # files[p]},
         missing |-> rows \ there,
         added |-> there \ rows]

-----------------------------------------------------------------------------
(* The baseline API *)

saveBaselineFetch ==
    /\ SpendMonitor("save") /\ ~saving.busy
    /\ saving' = [busy |-> TRUE, found |-> files]
    /\ UNCHANGED <<baseline, serverVars, prints, watermark, mon, seen, told>>

\* ReplaceForServer: one transaction; files that do not exist get no row.
saveBaseline ==
    /\ saving.busy
    /\ baseline' = [p \in Paths |-> IF saving.found[p] = "absent" THEN "none" ELSE saving.found[p]]
    /\ saving' = NoSave
    /\ UNCHANGED <<serverVars, prints, watermark, mon, monLoad, seen, told>>

-----------------------------------------------------------------------------
(* The collector *)

alertOnce(rule, print, what) ==
    /\ prints' = IF prints[rule] = print THEN prints ELSE [prints EXCEPT ![rule] = print]
    /\ told' = IF prints[rule] = print THEN told ELSE [told EXCEPT ![rule] = what]

Quiet == UNCHANGED <<prints, told>>
MonitorAt(rule, next) == mon.at = rule /\ mon' = [mon EXCEPT !.at = next]
Found(rule, what) == seen' = [seen EXCEPT ![rule] = what]
\* A request that fails skips its rule.
Skip(rule, next) ==
    /\ SpendMonitor("unreachable") /\ MonitorAt(rule, next) /\ Quiet
    /\ UNCHANGED <<baseline, serverVars, watermark, saving, seen>>

collectServer ==
    /\ SpendMonitor("check") /\ mon.at = "idle" /\ mon' = [mon EXCEPT !.at = "ssh"]
    /\ Quiet /\ UNCHANGED <<baseline, serverVars, watermark, saving, seen>>

\* Mutant: the logins counted at the look before count again.
FailedDeltaTotal == parseSSHLogs

\* A drop of the total is taken as a fresh baseline.
FailedDelta == IF parseSSHLogs >= watermark THEN parseSSHLogs - watermark ELSE 0

checkSSH ==
    /\ MonitorAt("ssh", "baseline")
    /\ watermark' = parseSSHLogs
    /\ IF watermark > 0 /\ FailedDelta >= Burst
       THEN alertOnce("ssh", <<FailedDelta>>, {FailedDelta}) ELSE Quiet
    /\ Found("ssh", IF counted /\ attempts >= Burst THEN {attempts} ELSE {})
    /\ attempts' = 0 /\ counted' = (parseSSHLogs > 0 /\ logs[1] <= LogLimit)
    /\ UNCHANGED <<baseline, files, remoteConns, uids, logs, saving, monLoad>>

\* ListByServer; without a baseline the rule is skipped.
readBaseline ==
    /\ mon.at = "baseline"
    /\ mon' = [at |-> IF baseline = NoBaseline THEN "connections" ELSE "integrity", base |-> baseline]
    /\ Quiet /\ UNCHANGED <<baseline, serverVars, watermark, saving, monLoad, seen>>

\* The fingerprint lists the paths in the order the maps gave them.
Prints(d) == AnyOrder(d.changed) \X AnyOrder(d.missing) \X AnyOrder(d.added)

checkIntegrity ==
    LET d == Drift(mon.base)
        all == d.changed \cup d.missing \cup d.added
    IN  /\ MonitorAt("integrity", "connections")
        /\ IF all = {} THEN Quiet ELSE \E print \in Prints(d) : alertOnce("integrity", print, {d})
        /\ Found("integrity", IF all = {} THEN {} ELSE {d})
        /\ UNCHANGED <<baseline, serverVars, watermark, saving, monLoad>>

\* The agent lists suspicious endpoints in the order of a map.
checkConnections ==
    /\ MonitorAt("connections", "uid0")
    /\ IF remoteConns = {} THEN Quiet ELSE \E print \in AnyOrder(remoteConns) : alertOnce("connections", print, remoteConns)
    /\ Found("connections", remoteConns)
    /\ UNCHANGED <<baseline, serverVars, watermark, saving, monLoad>>

\* /etc/passwd has an order; the rule alerts whatever the accounts are.
checkPersistence ==
    /\ MonitorAt("uid0", "idle")
    /\ alertOnce("uid0", SetToSeq(uids), uids)
    /\ Found("uid0", uids)
    /\ UNCHANGED <<baseline, serverVars, watermark, saving, monLoad>>

\* The backend restarts with empty maps.
MonitorCrash ==
    /\ SpendMonitor("crash")
    /\ prints' = [r \in Rules |-> <<>>] /\ watermark' = 0 /\ counted' = FALSE /\ attempts' = 0
    /\ mon' = MonitorIdle /\ saving' = NoSave
    /\ told' = [r \in Rules |-> {}]
    /\ seen' = [r \in Rules |-> {}]
    /\ UNCHANGED <<baseline, files, remoteConns, uids, logs>>

MonitorNext ==
    \/ \E p \in Paths, h \in Hashes \cup {"absent"} : WriteFile(p, h)
    \/ \E S \in SUBSET Remotes : Connect(S)
    \/ \E S \in SUBSET Accounts : ChangeAccounts({"root"} \cup S)
    \/ \E n \in {1, Burst, Burst + 1} : FailedLogins(n)
    \/ Rotate \/ saveBaselineFetch \/ saveBaseline
    \/ collectServer \/ checkSSH \/ readBaseline \/ checkIntegrity \/ checkConnections \/ checkPersistence
    \/ Skip("ssh", "baseline") \/ Skip("integrity", "connections") \/ Skip("connections", "uid0") \/ Skip("uid0", "idle")
    \/ MonitorCrash

MonitorSpec == MonitorInit /\ [][MonitorNext]_monitorVars

-----------------------------------------------------------------------------
(* What a rule found at its last look is what it alerted last: a condition *)
(* that changed between two looks is never hidden by the fingerprint of    *)
(* the one before, across baselines saved meanwhile, looks that failed and *)
(* restarts of the backend.  For SSH the condition is the number of failed *)
(* logins that really happened, while the logs are counted in full.        *)
FoundIsTold == \A r \in Rules : seen[r] # {} => told[r] = seen[r]

=============================================================================
