------------------------------- MODULE Vhosts -------------------------------
(***************************************************************************)
(* The nginx files of the sites as their settings pages change them: the   *)
(* vhost editor (saved, tested, rolled back when the test fails), the      *)
(* validation that swaps the live file for the text under test, the        *)
(* security settings that generate the vhost anew, and the agent's         *)
(* redeployment of a site, which generates it without them.  The agent's   *)
(* bot blocker edits the same files: its map defines a variable the        *)
(* blocks it injects use.  nginx -t tests all the files together.          *)
(***************************************************************************)
EXTENDS Naturals, FiniteSets

CONSTANTS
    Vsites,      \* sites
    VRequests,   \* requests in flight at a time
    VLoads       \* bound: how often each operation is asked for

ASSUME VhostsAssumption == Vsites # {}

VARIABLES
    enabled, available, \* sites-enabled and sites-available, by site
    bak,                \* the .sigarda-bak files
    saved,              \* site_vhosts
    security,           \* site_security
    htpasswd,           \* "none", or the hash of the .htpasswd file
    botMap,             \* bot-blocker.conf: "none", "good" or "bad"
    bots,               \* the agent's bot-blocker request
    vreq,               \* the requests
    vLoad,
    answered,           \* history: the config the last answer said is in place
    alone               \* history: no two operations on the site overlapped, and none was cut short

nginxFiles == <<enabled, available, bak, htpasswd, botMap>>
vhostVars == <<nginxFiles, saved, bots, security, vreq, vLoad, answered, alone>>

\* A file: text somebody wrote (good or bad for nginx), or the template with
\* its security settings; either with the bot blocker's block or without.
\* Blocked addresses are not validated.
File(text, auth, ips) == [text |-> text, auth |-> auth, ips |-> ips, block |-> FALSE]
NoFile == File("none", FALSE, "none")
Texts == {File(t, FALSE, "none") : t \in {"good", "bad"}}
Template(sec) == File("template", sec.auth, sec.ips)
Securities == [auth : BOOLEAN, hash : {"", "h"}, ips : {"none", "good", "bad"}]
NoSecurity == [auth |-> FALSE, hash |-> "", ips |-> "none"]

Broken(f) == f.text = "bad" \/ f.ips = "bad"
TestPasses ==
    /\ botMap # "bad"
    /\ \A s \in Vsites : ~Broken(enabled[s]) /\ (enabled[s].block => botMap # "none")

NoVhostRequest == [pc |-> "idle", op |-> "none", site |-> CHOOSE s \in Vsites : TRUE, new |-> NoFile,
                   sec |-> NoSecurity, oldEnabled |-> NoFile, oldAvailable |-> NoFile]

VhostsInit ==
    /\ enabled = [s \in Vsites |-> Template(NoSecurity)] /\ available = [s \in Vsites |-> NoFile]
    /\ bak = [s \in Vsites |-> NoFile]
    /\ saved = [s \in Vsites |-> NoFile] /\ security = [s \in Vsites |-> NoSecurity]
    /\ htpasswd = [s \in Vsites |-> "none"] /\ botMap = "none" /\ bots = "idle"
    /\ vreq = [r \in VRequests |-> NoVhostRequest]
    /\ vLoad \in VLoads
    /\ answered = enabled /\ alone = [s \in Vsites |-> TRUE]

SpendVhost(op) ==
    /\ op \in DOMAIN vLoad /\ vLoad[op] > 0
    /\ vLoad' = [vLoad EXCEPT ![op] = @ - 1]

InFlight(s) == bots # "idle" \/ \E r \in VRequests : vreq[r] # NoVhostRequest /\ vreq[r].site = s
Starts(s) == alone' = [alone EXCEPT ![s] = @ /\ ~InFlight(s)]

Goes(r, pc) == vreq' = [vreq EXCEPT ![r].pc = pc]
Ends(r) == vreq' = [vreq EXCEPT ![r] = NoVhostRequest]
At(r, op, pc) == vreq[r].op = op /\ vreq[r].pc = pc
EnabledNow(r) == enabled[vreq[r].site]
Put(files, r, f) == [files EXCEPT ![vreq[r].site] = f]
Answers(r, f) == answered' = Put(answered, r, f)

-----------------------------------------------------------------------------
(* updateVhost *)

\* The text goes to the database whatever nginx will think of it.
updateVhost(r, s, f) ==
    /\ vreq[r] = NoVhostRequest /\ SpendVhost("update")
    /\ \/ /\ saved' = [saved EXCEPT ![s] = f]
          /\ vreq' = [vreq EXCEPT ![r] = [NoVhostRequest EXCEPT !.op = "update", !.pc = "read", !.site = s, !.new = f]]
       \/ UNCHANGED <<saved, vreq>>
    /\ Starts(s) /\ UNCHANGED <<bots, nginxFiles, security, answered>>

ReadPrevious(r) ==
    /\ At(r, "update", "read")
    /\ vreq' = [vreq EXCEPT ![r].pc = "write", ![r].oldEnabled = EnabledNow(r),
                            ![r].oldAvailable = available[vreq[r].site]]
    /\ UNCHANGED <<bots, nginxFiles, saved, security, vLoad, answered, alone>>

\* Both files, for the editor and for the security settings.
WriteEnabled(r) ==
    /\ vreq[r].pc = "write" /\ vreq[r].op \in {"update", "security"}
    /\ enabled' = Put(enabled, r, vreq[r].new) /\ Goes(r, "available")
    /\ UNCHANGED <<bots, botMap, available, bak, htpasswd, saved, security, vLoad, answered, alone>>

\* The editor answers "saved_db_only" when the file cannot be written.
WriteFails(r) ==
    /\ At(r, "update", "write") /\ SpendVhost("readonly")
    /\ Ends(r) /\ UNCHANGED <<bots, nginxFiles, saved, security, answered, alone>>

WriteAvailable(r) ==
    /\ vreq[r].pc = "available"
    /\ available' = Put(available, r, vreq[r].new) /\ Goes(r, "test")
    /\ UNCHANGED <<bots, botMap, enabled, bak, htpasswd, saved, security, vLoad, answered, alone>>

\* Mutant: a failed test is only reported.
TestUpdateReports(r) ==
    /\ At(r, "update", "test") /\ Ends(r)
    /\ IF TestPasses THEN Answers(r, vreq[r].new) ELSE UNCHANGED answered
    /\ UNCHANGED <<bots, nginxFiles, saved, security, vLoad, alone>>

\* The reload after a passed test changes no file.
TestUpdate(r) ==
    /\ At(r, "update", "test")
    /\ IF TestPasses THEN Ends(r) /\ Answers(r, vreq[r].new)
       ELSE Goes(r, "restore") /\ UNCHANGED answered
    /\ UNCHANGED <<bots, nginxFiles, saved, security, vLoad, alone>>

RestoreEnabled(r) ==
    /\ At(r, "update", "restore")
    /\ enabled' = Put(enabled, r, vreq[r].oldEnabled) /\ Goes(r, "restoreAvailable")
    /\ UNCHANGED <<bots, botMap, available, bak, htpasswd, saved, security, vLoad, answered, alone>>

RestoreAvailable(r) ==
    /\ At(r, "update", "restoreAvailable")
    /\ available' = Put(available, r, vreq[r].oldAvailable) /\ Ends(r)
    /\ UNCHANGED <<bots, botMap, enabled, bak, htpasswd, saved, security, vLoad, answered, alone>>

-----------------------------------------------------------------------------
(* validateVhost *)

validateVhost(r, s, f) ==
    /\ vreq[r] = NoVhostRequest /\ SpendVhost("validate")
    /\ vreq' = [vreq EXCEPT ![r] = [NoVhostRequest EXCEPT !.op = "validate", !.pc = "try", !.site = s, !.new = f,
                                                 !.oldEnabled = enabled[s]]]
    /\ IF enabled[s] = NoFile THEN UNCHANGED <<bots, botMap, enabled, bak>>
       ELSE bak' = [bak EXCEPT ![s] = enabled[s]] /\ enabled' = [enabled EXCEPT ![s] = NoFile]
    /\ Starts(s) /\ UNCHANGED <<bots, botMap, available, htpasswd, saved, security, answered>>

HadOriginal(r) == vreq[r].oldEnabled # NoFile

WriteTest(r) ==
    /\ At(r, "validate", "try")
    /\ enabled' = Put(enabled, r, vreq[r].new) /\ Goes(r, "remove")
    /\ UNCHANGED <<bots, botMap, available, bak, htpasswd, saved, security, vLoad, answered, alone>>

WriteTestFails(r) ==
    /\ At(r, "validate", "try") /\ SpendVhost("readonly") /\ Goes(r, "rename")
    /\ UNCHANGED <<bots, nginxFiles, saved, security, answered, alone>>

\* After nginx -t, whatever it said.
RemoveTest(r) ==
    /\ At(r, "validate", "remove")
    /\ enabled' = Put(enabled, r, NoFile) /\ Goes(r, "rename")
    /\ UNCHANGED <<bots, botMap, available, bak, htpasswd, saved, security, vLoad, answered, alone>>

RenameBack(r) ==
    /\ At(r, "validate", "rename")
    /\ LET b == bak[vreq[r].site] IN
       IF HadOriginal(r) /\ b # NoFile
       THEN enabled' = Put(enabled, r, b) /\ bak' = Put(bak, r, NoFile)
       ELSE UNCHANGED <<bots, botMap, enabled, bak>>
    /\ Ends(r) /\ UNCHANGED <<bots, botMap, available, htpasswd, saved, security, vLoad, answered, alone>>

-----------------------------------------------------------------------------
(* updateSecurity *)

\* An empty password overwrites the stored hash.
updateSecurity(r, s, sec) ==
    /\ vreq[r] = NoVhostRequest /\ SpendVhost("security")
    /\ security' = [security EXCEPT ![s] = sec]
    /\ vreq' = [vreq EXCEPT ![r] = [NoVhostRequest EXCEPT !.op = "security", !.pc = "htpasswd", !.site = s, !.sec = sec]]
    /\ Starts(s) /\ UNCHANGED <<bots, nginxFiles, saved, answered>>

\* The hash is read back; a request without a password removes the file.
WriteHtpasswd(r) ==
    /\ At(r, "security", "htpasswd")
    /\ LET stored == security[vreq[r].site] IN
       htpasswd' = IF vreq[r].sec.auth /\ vreq[r].sec.hash # ""
                   THEN IF stored.hash = "" THEN htpasswd ELSE Put(htpasswd, r, stored.hash)
                   ELSE Put(htpasswd, r, "none")
    /\ Goes(r, "generate")
    /\ UNCHANGED <<bots, botMap, enabled, available, bak, saved, security, vLoad, answered, alone>>

\* With authentication the template's generator writes the file too, with
\* whatever hash is stored.
GenerateVhost(r) ==
    /\ At(r, "security", "generate")
    /\ LET sec == security[vreq[r].site] IN
       /\ htpasswd' = IF sec.auth THEN Put(htpasswd, r, sec.hash) ELSE htpasswd
       /\ vreq' = [vreq EXCEPT ![r].pc = "write", ![r].new = Template(sec)]
    /\ UNCHANGED <<bots, botMap, enabled, available, bak, saved, security, vLoad, answered, alone>>

\* A failed test only leaves out the reload.
TestSecurity(r) ==
    /\ At(r, "security", "test") /\ Ends(r) /\ Answers(r, vreq[r].new)
    /\ UNCHANGED <<bots, nginxFiles, saved, security, vLoad, alone>>

-----------------------------------------------------------------------------
(* The agent's bot blocker *)

WithBlock(files, b) ==
    [s \in Vsites |-> IF files[s] = NoFile THEN NoFile ELSE [files[s] EXCEPT !.block = b]]
BotUnchanged == UNCHANGED <<available, htpasswd, saved, security, vreq, answered>>
StartBots == alone' = [s \in Vsites |-> alone[s] /\ ~InFlight(s)]

\* Without the files, the map is there or not; a pattern may be no regular
\* expression.  addBotAgent and removeBotAgent need the map, updateBotBlocker
\* does not.  None rolls back when the test fails.
EditMap(m) ==
    /\ bots = "idle" /\ SpendVhost("bots") /\ botMap' = m
    /\ BotUnchanged /\ UNCHANGED <<enabled, bak, bots, alone>>

\* enableBotBlocker: the map, then a block in every listed file, the backup of
\* a validation included.
enableBotBlocker ==
    /\ bots = "idle" /\ SpendVhost("bots") /\ StartBots
    /\ botMap' = "good" /\ bots' = "inject"
    /\ BotUnchanged /\ UNCHANGED <<enabled, bak>>

injectBotBlockInclude ==
    /\ bots = "inject" /\ bots' = "test"
    /\ enabled' = WithBlock(enabled, TRUE) /\ bak' = WithBlock(bak, TRUE)
    /\ BotUnchanged /\ UNCHANGED <<botMap, vLoad, alone>>

TestBots ==
    /\ bots = "test"
    /\ IF TestPasses THEN bots' = "idle" /\ UNCHANGED botMap
       ELSE bots' = "remove" /\ botMap' = "none"
    /\ BotUnchanged /\ UNCHANGED <<enabled, bak, vLoad, alone>>

disableBotBlocker ==
    /\ bots = "idle" /\ SpendVhost("bots") /\ StartBots
    /\ botMap' = "none" /\ bots' = "remove"
    /\ BotUnchanged /\ UNCHANGED <<enabled, bak>>

removeBotBlockInclude ==
    /\ bots = "remove" /\ bots' = "idle"
    /\ enabled' = WithBlock(enabled, FALSE) /\ bak' = WithBlock(bak, FALSE)
    /\ BotUnchanged /\ UNCHANGED <<botMap, vLoad, alone>>

-----------------------------------------------------------------------------
(* The agent's site.create, and a crash of the panel. *)

\* The agent knows no security settings and no edited text.
Redeploy(s) ==
    /\ SpendVhost("deploy")
    /\ enabled' = [enabled EXCEPT ![s] = Template(NoSecurity)]
    /\ answered' = [answered EXCEPT ![s] = Template(NoSecurity)]
    /\ Starts(s) /\ UNCHANGED <<bots, botMap, available, bak, htpasswd, saved, security, vreq>>

VhostCrash ==
    /\ SpendVhost("crash") /\ (\E r \in VRequests : vreq[r] # NoVhostRequest)
    /\ vreq' = [r \in VRequests |-> NoVhostRequest]
    /\ alone' = [s \in Vsites |-> alone[s] /\ ~InFlight(s)]
    /\ UNCHANGED <<bots, nginxFiles, saved, security, answered>>

VhostsNext ==
    \/ \E r \in VRequests, s \in Vsites :
          \/ \E f \in Texts : updateVhost(r, s, f) \/ validateVhost(r, s, f)
          \/ \E sec \in Securities : updateSecurity(r, s, sec)
    \/ \E r \in VRequests :
          \/ ReadPrevious(r) \/ WriteEnabled(r) \/ WriteFails(r) \/ WriteAvailable(r)
          \/ TestUpdate(r) \/ RestoreEnabled(r) \/ RestoreAvailable(r)
          \/ WriteTest(r) \/ WriteTestFails(r) \/ RemoveTest(r) \/ RenameBack(r)
          \/ WriteHtpasswd(r) \/ GenerateVhost(r) \/ TestSecurity(r)
    \/ \E s \in Vsites : Redeploy(s)
    \/ \E m \in {"good", "bad"} : EditMap(m)
    \/ enableBotBlocker \/ injectBotBlockInclude \/ TestBots
    \/ disableBotBlocker \/ removeBotBlockInclude
    \/ VhostCrash

VhostsSpec == VhostsInit /\ [][VhostsNext]_vhostVars

-----------------------------------------------------------------------------
AtRest(s) == alone[s] /\ ~InFlight(s)

\* Operations on a site that do not overlap leave in sites-enabled what the
\* last successful one wrote, whatever the operations on other sites did to
\* nginx -t meanwhile: never a text that was refused or only validated.
AnsweredIsLive == \A s \in Vsites : AtRest(s) => [enabled[s] EXCEPT !.block = FALSE] = answered[s]

=============================================================================
