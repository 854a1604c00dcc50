---------------------------- MODULE FleetProofs -----------------------------
(***************************************************************************)
(* Proofs about the servers of the panel, the sender of alerts and the     *)
(* security monitor: one server per registration token, notices that       *)
(* follow the health of the servers, a settled record at every channel a   *)
(* Send listed, and alerts that tell what the rules found.  They hold for  *)
(* every number of servers, hosts, tokens, channels, overlapping requests  *)
(* and Sends, watched files, endpoints and accounts, and for every load.   *)
(***************************************************************************)
EXTENDS Fleet, SecurityMonitor, FiniteSetTheorems, WellFoundedInduction, TLAPS

-----------------------------------------------------------------------------
(* Servers *)

StatusOf == {"none", "pending", "online", "offline"}
HealthOf == {"unknown", "online", "degraded", "offline"}
HostOf == Hosts \cup {"none"}
ServerRow == [status : StatusOf, health : HealthOf, host : HostOf, token : Nat,
              by : RegTokens \cup {"api"}]
HostRow == [token : Nat, up : BOOLEAN]
InstallRow == [pc : {"idle", "register", "consume", "answer"}, reg : RegTokens \cup {"none"}, saved : Nat]
EditRow == [op : {"none", "update", "regenerate"}, id : Servers \cup {0}, status : StatusOf]
CheckRow == [pc : {"idle", "ping", "health", "status", "notify"}, status : StatusOf,
             health : HealthOf \cup {"none"}, host : HostOf, found : HealthOf \cup {"none"}]

\* The variables of the fleet that the properties depend on have their types.
FleetTypeOK ==
    /\ servers \in [Servers -> ServerRow]
    /\ lastServer \in Nat /\ secrets \in Nat
    /\ regTokens \in [RegTokens -> {"none", "fresh", "used"}]
    /\ hosts \in [Hosts -> HostRow]
    /\ installs \in [Hosts -> InstallRow]
    /\ edits \in [Edits -> EditRow]
    /\ checks \in [Servers -> CheckRow]
    /\ issued \in [Servers -> Nat]
    /\ notice \in [Servers -> {"none", "online", "offline"}]
    /\ \A h \in Hosts : installs[h].pc # "idle" => installs[h].reg \in RegTokens
    /\ \A e \in Edits : edits[e].op # "none" => edits[e].id \in Servers

\* A registration token that made a server is used.
UsedInv == \A s \in Rows : servers[s].by # "api" => regTokens[servers[s].by] = "used"

\* Nothing is known of a server whose id was not given out.
UnknownInv ==
    \A s \in Servers : s > lastServer => /\ servers[s].status = "none"
                                         /\ checks[s] = NoCheck /\ notice[s] = "none"

\* The health that the last notice answers to: what the row says, or what it
\* said when the check listed it, once the row has the new one.
ToldHealth(s) == IF checks[s].pc \in {"status", "notify"} THEN checks[s].health ELSE servers[s].health

\* What the check of a server has found and written so far, and what was told.
CheckFine(s) ==
    /\ checks[s].pc = "idle" => checks[s] = NoCheck
    /\ checks[s].pc \in {"health", "status", "notify"} => checks[s].found \in {"online", "degraded", "offline"}
    /\ checks[s].pc = "notify" => Notice(checks[s]) # "none"
    /\ s \in Rows =>
          /\ checks[s].pc \in {"ping", "health"} => checks[s].health = servers[s].health
          /\ checks[s].pc \in {"status", "notify"} => /\ servers[s].health = checks[s].found
                                                      /\ checks[s].health \in HealthOf
          /\ s \notin lostNotice => (ToldHealth(s) = "offline" <=> notice[s] = "offline")

CheckInv == \A s \in Servers : CheckFine(s)

FleetInv == FleetTypeOK /\ UsedInv /\ TokenMakesOneServer /\ UnknownInv /\ CheckInv

(* The placeholders have the types of what they stand for. *)
LEMMA FleetPlaceholders ==
    /\ NoServer \in ServerRow /\ NoServer.status = "none" /\ NoServer.by = "api" /\ NoServer.health = "unknown"
    /\ NoInstall \in InstallRow /\ NoInstall.pc = "idle"
    /\ NoEdit \in EditRow /\ NoEdit.op = "none"
    /\ NoCheck \in CheckRow /\ NoCheck.pc = "idle"
  BY DEF NoServer, NoInstall, NoEdit, NoCheck, ServerRow, InstallRow, EditRow, CheckRow, StatusOf, HealthOf, HostOf

(* No server and no check at first. *)
LEMMA FleetInitial == FleetInit => FleetInv
<1> SUFFICES ASSUME FleetInit PROVE FleetInv
  OBVIOUS
<1> USE FleetPlaceholders
<1>1. \A s \in Servers : servers[s] = NoServer /\ checks[s] = NoCheck /\ notice[s] = "none"
  BY DEF FleetInit
<1>2. Rows = {}
  BY <1>1 DEF Rows
<1>3. FleetTypeOK
  BY DEF FleetInit, FleetTypeOK, HostRow
<1>4. UsedInv /\ TokenMakesOneServer
  BY <1>2 DEF UsedInv, TokenMakesOneServer
<1>5. UnknownInv
  BY <1>1 DEF UnknownInv
<1>6. CheckInv
  BY <1>1, <1>2 DEF CheckInv, CheckFine
<1>7. QED
  BY <1>3, <1>4, <1>5, <1>6 DEF FleetInv

(* The rows of the tables have their types. *)
LEMMA FleetRows ==
    ASSUME FleetInv
    PROVE  /\ servers \in [Servers -> ServerRow] /\ \A s \in Servers : servers[s] \in ServerRow
           /\ hosts \in [Hosts -> HostRow] /\ \A h \in Hosts : hosts[h] \in HostRow
           /\ installs \in [Hosts -> InstallRow] /\ \A h \in Hosts : installs[h] \in InstallRow
           /\ edits \in [Edits -> EditRow] /\ \A e \in Edits : edits[e] \in EditRow
           /\ checks \in [Servers -> CheckRow] /\ \A s \in Servers : checks[s] \in CheckRow
           /\ lastServer \in Nat /\ secrets \in Nat
  BY DEF FleetInv, FleetTypeOK

-----------------------------------------------------------------------------
(* Steps that make no server *)

\* No row appears and none gets another origin or health.
RowsKept ==
    \A s \in Servers : servers'[s].status # "none" =>
        servers[s].status # "none" /\ servers'[s].by = servers[s].by /\ servers'[s].health = servers[s].health

UsedKept == \A t \in RegTokens : regTokens[t] = "used" => regTokens'[t] = "used"

\* What checks and notices say is untouched.
ChecksKept == UNCHANGED <<lastServer, checks, notice, lostNotice>>

(* A step that keeps origins and used tokens keeps the facts about tokens. *)
LEMMA TokensKeep ==
    ASSUME FleetInv, UsedKept,
           \A s \in Servers : servers'[s].status # "none" => servers[s].status # "none" /\ servers'[s].by = servers[s].by
    PROVE  UsedInv' /\ TokenMakesOneServer'
<1>1. \A s \in Rows' : s \in Rows /\ servers'[s].by = servers[s].by
  BY DEF Rows
<1>2. \A s \in Rows : servers[s].by # "api" => servers[s].by \in RegTokens
  BY FleetRows DEF Rows, ServerRow
<1>3. UsedInv'
  BY <1>1, <1>2 DEF UsedInv, FleetInv, UsedKept
<1>4. TokenMakesOneServer'
  BY <1>1 DEF TokenMakesOneServer, FleetInv
<1>5. QED
  BY <1>3, <1>4

(* A step that keeps rows and checks keeps the facts about notices. *)
LEMMA ChecksKeep ==
    ASSUME FleetInv, RowsKept, ChecksKept
    PROVE  UnknownInv' /\ CheckInv'
<1>1. \A s \in Servers : s \in Rows' => s \in Rows /\ servers'[s].health = servers[s].health
  BY DEF Rows, RowsKept
<1>2. UnknownInv'
  BY DEF UnknownInv, FleetInv, RowsKept, ChecksKept
<1>3. ASSUME NEW s \in Servers
      PROVE  /\ checks'[s] = checks[s] /\ notice'[s] = notice[s] /\ lostNotice' = lostNotice
             /\ s \in Rows' => (ToldHealth(s))' = ToldHealth(s)
  BY <1>1 DEF ChecksKept, ToldHealth
<1>4. CheckInv'
  BY <1>1, <1>3 DEF CheckInv, CheckFine, FleetInv
<1>5. QED
  BY <1>2, <1>4

\* The parts of the type invariant.
TableType ==
    /\ servers \in [Servers -> ServerRow]
    /\ lastServer \in Nat /\ secrets \in Nat
    /\ regTokens \in [RegTokens -> {"none", "fresh", "used"}]
    /\ issued \in [Servers -> Nat]
HostType ==
    /\ hosts \in [Hosts -> HostRow]
    /\ installs \in [Hosts -> InstallRow]
    /\ \A h \in Hosts : installs[h].pc # "idle" => installs[h].reg \in RegTokens
EditType ==
    /\ edits \in [Edits -> EditRow]
    /\ \A e \in Edits : edits[e].op # "none" => edits[e].id \in Servers
CheckType ==
    /\ checks \in [Servers -> CheckRow]
    /\ notice \in [Servers -> {"none", "online", "offline"}]

(* They make up the type invariant. *)
LEMMA FleetTypeParts == FleetTypeOK <=> TableType /\ HostType /\ EditType /\ CheckType
  BY DEF FleetTypeOK, TableType, HostType, EditType, CheckType

(* Each part depends on its variables only. *)
LEMMA FleetTypeFrame ==
    ASSUME FleetInv
    PROVE  /\ UNCHANGED <<servers, lastServer, secrets, regTokens, issued>> => TableType'
           /\ UNCHANGED <<hosts, installs>> => HostType'
           /\ UNCHANGED edits => EditType'
           /\ UNCHANGED <<checks, notice>> => CheckType'
  BY DEF FleetInv, FleetTypeOK, TableType, HostType, EditType, CheckType

(* A step of the install script on one host. *)
LEMMA InstallStepType ==
    ASSUME FleetInv, NEW h \in Hosts, NEW i \in InstallRow, NEW tok \in Nat, InstallStep(h, i, tok),
           i.pc # "idle" => i.reg \in RegTokens
    PROVE  HostType'
<1>1. hosts' = [hosts EXCEPT ![h] = [hosts[h] EXCEPT !.token = tok]] /\ installs' = [installs EXCEPT ![h] = i]
  BY DEF InstallStep
<1>2. [hosts[h] EXCEPT !.token = tok] \in HostRow
  BY FleetRows DEF HostRow
<1>3. hosts' \in [Hosts -> HostRow] /\ installs' \in [Hosts -> InstallRow]
  BY <1>1, <1>2, FleetRows
<1>4. \A g \in Hosts : installs'[g] = IF g = h THEN i ELSE installs[g]
  BY <1>1, FleetRows
<1>5. QED
  BY <1>3, <1>4 DEF HostType, FleetInv, FleetTypeOK

(* The trap puts back what was saved. *)
LEMMA RollbackType ==
    ASSUME FleetInv, NEW h \in Hosts, rollback_agent_install(h)
    PROVE  HostType'
<1>1. PICK tok \in Nat : tok = installs[h].saved
  BY FleetRows DEF InstallRow
<1>2. InstallStep(h, NoInstall, tok)
  BY <1>1 DEF rollback_agent_install
<1>3. QED
  BY <1>2, FleetPlaceholders, InstallStepType

(* Each step of the script. *)
LEMMA ScriptType ==
    ASSUME FleetInv, NEW h \in Hosts,
           \/ registerAgent(h) \/ FinishInstall(h) \/ ConsumeRegistrationTokenAndCreateServer(h)
           \/ \E t \in RegTokens : StartAgent(h, t)
    PROVE  HostType'
<1>0. installs[h] \in InstallRow /\ (installs[h].pc # "idle" => installs[h].reg \in RegTokens)
  BY FleetRows DEF FleetInv, FleetTypeOK
<1>1. PICK tok \in Nat : tok = hosts[h].token
  BY FleetRows DEF HostRow
<1>2. ASSUME NEW pc \in {"consume", "answer"}, installs[h].pc # "idle",
             InstallStep(h, [installs[h] EXCEPT !.pc = pc], hosts[h].token)
      PROVE  HostType'
  <2>1. PICK i : i = [installs[h] EXCEPT !.pc = pc]
    OBVIOUS
  <2>2. i \in InstallRow /\ i.reg \in RegTokens
    BY <1>0, <1>2, <2>1 DEF InstallRow
  <2>3. InstallStep(h, i, tok)
    BY <1>1, <1>2, <2>1
  <2>4. QED
    BY <2>2, <2>3, InstallStepType
<1>3. CASE registerAgent(h)
  BY <1>2, <1>3, RollbackType DEF registerAgent
<1>4. CASE ConsumeRegistrationTokenAndCreateServer(h)
  BY <1>2, <1>4, RollbackType DEF ConsumeRegistrationTokenAndCreateServer
<1>5. CASE FinishInstall(h)
  <2>1. CASE InstallStep(h, NoInstall, hosts[h].token)
    <3>1. InstallStep(h, NoInstall, tok)
      BY <1>1, <2>1
    <3>2. QED
      BY <3>1, FleetPlaceholders, InstallStepType
  <2>2. QED
    BY <1>5, <2>1, RollbackType DEF FinishInstall
<1>6. CASE \E t \in RegTokens : StartAgent(h, t)
  <2>1. PICK t \in RegTokens : StartAgent(h, t)
    BY <1>6
  <2>2. PICK i : i = [pc |-> "register", reg |-> t, saved |-> tok]
    OBVIOUS
  <2>3. i \in InstallRow /\ i.reg \in RegTokens
    BY <2>2 DEF InstallRow
  <2>4. PICK new \in Nat : new = secrets + 1
    BY FleetRows
  <2>5. InstallStep(h, i, new)
    BY <1>1, <2>1, <2>2, <2>4 DEF StartAgent
  <2>6. QED
    BY <2>3, <2>5, InstallStepType
<1>7. QED
  BY <1>3, <1>4, <1>5, <1>6

-----------------------------------------------------------------------------
(* The invariant, action by action *)

(* A step that changes neither rows nor checks nor a used token keeps the
   invariant if it keeps the types of what it changes. *)
LEMMA SideStep ==
    ASSUME FleetInv, UNCHANGED <<servers, lastServer, checks, notice, lostNotice>>, UsedKept, FleetTypeOK'
    PROVE  FleetInv'
<1>1. RowsKept /\ ChecksKept
  BY DEF RowsKept, ChecksKept
<1>2. UsedInv' /\ TokenMakesOneServer' /\ UnknownInv' /\ CheckInv'
  BY <1>1, TokensKeep, ChecksKeep DEF RowsKept
<1>3. QED
  BY <1>2 DEF FleetInv

(* The steps around the table: the script up to the transaction and after it,
   the administrator, tokens, the collector, the sender. *)
LEMMA SideSteps ==
    ASSUME FleetInv,
           \/ UNCHANGED fleetVars
           \/ \E h \in Hosts : \/ Toggle(h) \/ registerAgent(h) \/ FinishInstall(h)
                               \/ \E t \in RegTokens : StartAgent(h, t)
           \/ \E e \in Edits, op \in {"update", "regenerate"}, s \in Servers : ReadRow(e, op, s)
           \/ \E s \in Servers : ConfigureAgent(s) \/ ingest(s)
           \/ \E t \in RegTokens : createRegistrationToken(t) \/ Lapse(t)
           \/ collectAll \/ collectFromAgent \/ CollectorReturn \/ \E k \in SendSlots : CollectorSend(k)
    PROVE  FleetInv'
<1>1. CASE \/ UNCHANGED fleetVars \/ \E s \in Servers : ingest(s)
           \/ \E t \in RegTokens : Lapse(t)
           \/ collectAll \/ collectFromAgent \/ CollectorReturn \/ \E k \in SendSlots : CollectorSend(k)
  <2>1. UNCHANGED <<servers, lastServer, secrets, regTokens, hosts, installs, edits, checks, issued, notice, lostNotice>>
    BY <1>1 DEF fleetVars, ingest, Lapse, collectAll, collectFromAgent, CollectorReturn, CollectorSend, CollectorStep, historyVars
  <2>2. FleetTypeOK'
    BY <2>1, FleetTypeFrame, FleetTypeParts DEF FleetTypeOK, TableType, HostType, EditType, CheckType
  <2>3. UsedKept
    BY <2>1 DEF UsedKept
  <2>4. QED
    BY <2>1, <2>2, <2>3, SideStep
<1>2. ASSUME NEW t \in RegTokens, createRegistrationToken(t) PROVE FleetInv'
  <2>1. regTokens' = [regTokens EXCEPT ![t] = "fresh"] /\ regTokens[t] = "none"
    BY <1>2 DEF createRegistrationToken
  <2>2. regTokens' \in [RegTokens -> {"none", "fresh", "used"}] /\ UsedKept
    BY <2>1 DEF FleetInv, FleetTypeOK, UsedKept
  <2>3. UNCHANGED <<servers, lastServer, secrets, hosts, installs, edits, checks, issued, notice, lostNotice>>
    BY <1>2 DEF createRegistrationToken, historyVars
  <2>4. FleetTypeOK'
    BY <2>2, <2>3 DEF FleetInv, FleetTypeOK
  <2>5. QED
    BY <2>2, <2>3, <2>4, SideStep
<1>3. ASSUME NEW e \in Edits, NEW op \in {"update", "regenerate"}, NEW s \in Servers, ReadRow(e, op, s) PROVE FleetInv'
  <2>1. PICK row : row = [op |-> op, id |-> s, status |-> servers[s].status]
    OBVIOUS
  <2>2. row \in EditRow /\ row.id \in Servers
    BY <2>1, FleetRows DEF EditRow, ServerRow
  <2>3. edits' = [edits EXCEPT ![e] = row]
    BY <1>3, <2>1 DEF ReadRow
  <2>4. edits' \in [Edits -> EditRow] /\ \A d \in Edits : edits'[d] = IF d = e THEN row ELSE edits[d]
    BY <2>2, <2>3, FleetRows
  <2>5. EditType'
    BY <2>2, <2>4 DEF EditType, FleetInv, FleetTypeOK
  <2>6. UNCHANGED <<servers, lastServer, secrets, regTokens, hosts, installs, checks, issued, notice, lostNotice>>
    BY <1>3 DEF ReadRow, historyVars
  <2>7. FleetTypeOK'
    BY <2>5, <2>6, FleetTypeFrame, FleetTypeParts DEF FleetTypeOK, TableType, HostType, EditType, CheckType
  <2>8. UsedKept
    BY <2>6 DEF UsedKept
  <2>9. QED
    BY <2>6, <2>7, <2>8, SideStep
<1>4. ASSUME HostType', UNCHANGED <<servers, lastServer, regTokens, edits, checks, issued, notice, lostNotice>>,
             secrets' = secrets \/ secrets' = secrets + 1
      PROVE  FleetInv'
  <2>1. FleetTypeOK'
    BY <1>4, FleetRows DEF FleetInv, FleetTypeOK, HostType
  <2>2. UsedKept
    BY <1>4 DEF UsedKept
  <2>3. QED
    BY <1>4, <2>1, <2>2, SideStep
<1>5. ASSUME NEW h \in Hosts, NEW row \in HostRow, hosts' = [hosts EXCEPT ![h] = row], installs' = installs
      PROVE  HostType'
  BY <1>5, FleetRows DEF HostType, FleetInv, FleetTypeOK
<1>6. ASSUME NEW h \in Hosts, Toggle(h) PROVE FleetInv'
  <2>1. PICK row : row = [hosts[h] EXCEPT !.up = ~@]
    OBVIOUS
  <2>2. row \in HostRow /\ hosts' = [hosts EXCEPT ![h] = row]
    BY <1>6, <2>1, FleetRows DEF Toggle, HostRow
  <2>3. HostType'
    BY <1>5, <1>6, <2>2 DEF Toggle
  <2>4. QED
    BY <1>4, <1>6, <2>3 DEF Toggle, historyVars
<1>7. ASSUME NEW s \in Servers, ConfigureAgent(s) PROVE FleetInv'
  <2>1. PICK h \in Hosts : h = servers[s].host
    BY <1>7, FleetRows DEF ConfigureAgent, ServerRow, HostOf
  <2>2. PICK row : row = [hosts[h] EXCEPT !.token = issued[s]]
    OBVIOUS
  <2>3. issued[s] \in Nat
    BY DEF FleetInv, FleetTypeOK
  <2>4. row \in HostRow /\ hosts' = [hosts EXCEPT ![h] = row]
    BY <1>7, <2>1, <2>2, <2>3, FleetRows DEF ConfigureAgent, HostRow
  <2>5. HostType'
    BY <1>5, <1>7, <2>4 DEF ConfigureAgent
  <2>6. QED
    BY <1>4, <1>7, <2>5 DEF ConfigureAgent, historyVars
<1>8. ASSUME NEW h \in Hosts, registerAgent(h) \/ FinishInstall(h) \/ \E t \in RegTokens : StartAgent(h, t)
      PROVE  FleetInv'
  <2>1. HostType'
    BY <1>8, ScriptType
  <2>2. /\ UNCHANGED <<servers, lastServer, regTokens, edits, checks, issued, notice, lostNotice>>
        /\ secrets' = secrets \/ secrets' = secrets + 1
    BY <1>8 DEF registerAgent, FinishInstall, StartAgent, rollback_agent_install, InstallStep, historyVars
  <2>3. QED
    BY <1>4, <2>1, <2>2
<1>9. QED
  BY <1>1, <1>2, <1>3, <1>6, <1>7, <1>8

\* One row of the table is written at.
RowWrite(s, row) == servers' = [servers EXCEPT ![s] = row] /\ row \in ServerRow

(* The others stay. *)
LEMMA RowWriteEffect ==
    ASSUME FleetInv, NEW s \in Servers, NEW row, RowWrite(s, row)
    PROVE  /\ servers' \in [Servers -> ServerRow] /\ servers'[s] = row
           /\ \A q \in Servers \ {s} : servers'[q] = servers[q]
  BY FleetRows DEF RowWrite

(* A new row, of the API or of a registration: its id was not given out, so no
   check and no notice is about it, and no row has its registration token. *)
LEMMA NewRow ==
    ASSUME FleetInv, NEW s \in Servers, NEW row, RowWrite(s, row),
           s = lastServer + 1, lastServer' = s, UNCHANGED <<checks, notice, lostNotice>>, UsedKept,
           row.status # "none", row.health = "unknown",
           row.by # "api" => regTokens[row.by] # "used" /\ regTokens'[row.by] = "used"
    PROVE  UsedInv' /\ TokenMakesOneServer' /\ UnknownInv' /\ CheckInv'
<1>1. servers'[s] = row /\ \A q \in Servers \ {s} : servers'[q] = servers[q]
  BY RowWriteEffect
<1>2. \A q \in Servers : q \in Nat
  BY FleetAssumption
<1>3. s \notin Rows /\ checks[s] = NoCheck /\ notice[s] = "none"
  BY <1>2, FleetRows DEF FleetInv, UnknownInv, Rows
<1>4. \A q \in Rows' : q # s => q \in Rows /\ servers'[q] = servers[q]
  BY <1>1 DEF Rows
<1>5. \A q \in Rows : servers[q].by # "api" => servers[q].by \in RegTokens /\ regTokens[servers[q].by] = "used"
  BY FleetRows DEF Rows, ServerRow, FleetInv, UsedInv
<1>6. UsedInv'
  BY <1>1, <1>4, <1>5 DEF UsedInv, UsedKept
<1>7. TokenMakesOneServer'
  BY <1>1, <1>4, <1>5 DEF TokenMakesOneServer, FleetInv
<1>8. UnknownInv'
  BY <1>1, <1>2, FleetRows DEF UnknownInv, FleetInv
<1>9. CheckInv'
  <2> SUFFICES ASSUME NEW q \in Servers
               PROVE  /\ checks'[q].pc = "idle" => checks'[q] = NoCheck
                      /\ checks'[q].pc \in {"health", "status", "notify"}
                            => checks'[q].found \in {"online", "degraded", "offline"}
                      /\ checks'[q].pc = "notify" => Notice(checks'[q]) # "none"
                      /\ q \in Rows' =>
                            /\ checks'[q].pc \in {"ping", "health"} => checks'[q].health = servers'[q].health
                            /\ checks'[q].pc \in {"status", "notify"} => /\ servers'[q].health = checks'[q].found
                                                                         /\ checks'[q].health \in HealthOf
                            /\ q \notin lostNotice' => ((ToldHealth(q))' = "offline" <=> notice'[q] = "offline")
    BY DEF CheckInv, CheckFine
  <2>1. checks' = checks /\ notice' = notice /\ lostNotice' = lostNotice
    OBVIOUS
  <2>2. CASE q = s
    BY <2>1, <2>2, <1>1, <1>3, FleetPlaceholders DEF ToldHealth
  <2>3. CASE q # s
    <3>1. servers'[q] = servers[q] /\ (q \in Rows' => q \in Rows)
      BY <2>3, <1>1, <1>4
    <3>2. (ToldHealth(q))' = ToldHealth(q)
      BY <2>1, <3>1 DEF ToldHealth
    <3>3. QED
      BY <2>1, <3>1, <3>2 DEF FleetInv, CheckInv, CheckFine
  <2>4. QED
    BY <2>2, <2>3
<1>10. QED
  BY <1>6, <1>7, <1>8, <1>9

(* POST /servers. *)
LEMMA CreateServerStep ==
    ASSUME FleetInv, NEW h \in HostOf, createServer(h)
    PROVE  FleetInv'
<1>1. PICK s \in Servers : s = lastServer + 1
  BY DEF createServer
<1>2. PICK tok \in Nat : tok = secrets + 1
  BY FleetRows
<1>3. PICK row : row = [NoServer EXCEPT !.status = "pending", !.host = h, !.token = tok]
  OBVIOUS
<1>4. row \in ServerRow /\ row.status = "pending" /\ row.by = "api" /\ row.health = "unknown"
  BY <1>3, FleetPlaceholders DEF ServerRow, StatusOf
<1>5. RowWrite(s, row)
  BY <1>1, <1>2, <1>3, <1>4 DEF createServer, RowWrite
<1>6. /\ lastServer' = s /\ secrets' = tok /\ issued' = [issued EXCEPT ![s] = tok]
      /\ UNCHANGED <<regTokens, hosts, installs, edits, checks, notice, lostNotice>>
  BY <1>1, <1>2 DEF createServer
<1>7. UsedKept
  BY <1>6 DEF UsedKept
<1>8. UsedInv' /\ TokenMakesOneServer' /\ UnknownInv' /\ CheckInv'
  BY <1>1, <1>4, <1>5, <1>6, <1>7, NewRow
<1>9. TableType'
  <2>1. servers' \in [Servers -> ServerRow]
    BY <1>5, RowWriteEffect
  <2>2. s \in Nat
    BY FleetAssumption
  <2>3. QED
    BY <1>6, <2>1, <2>2 DEF TableType, FleetInv, FleetTypeOK
<1>10. FleetTypeOK'
  BY <1>6, <1>9, FleetTypeFrame, FleetTypeParts DEF FleetTypeOK, TableType, HostType, EditType, CheckType
<1>11. QED
  BY <1>8, <1>10 DEF FleetInv

(* The transaction of a registration: the token it claims was fresh, so no row
   was made with it. *)
LEMMA ConsumeStep ==
    ASSUME FleetInv, NEW h \in Hosts, ConsumeRegistrationTokenAndCreateServer(h)
    PROVE  FleetInv'
<1>0. HostType'
  BY ScriptType
<1>1. PICK s \in Servers : s = lastServer + 1
  BY DEF ConsumeRegistrationTokenAndCreateServer
<1>2. PICK t \in RegTokens : t = installs[h].reg
  BY FleetRows DEF ConsumeRegistrationTokenAndCreateServer, FleetInv, FleetTypeOK
<1>3. UNCHANGED <<secrets, edits, checks, issued, notice, lostNotice>>
  BY DEF ConsumeRegistrationTokenAndCreateServer, InstallStep, rollback_agent_install, historyVars
<1>4. CASE UNCHANGED <<servers, lastServer, regTokens>>
  <2>1. FleetTypeOK'
    BY <1>0, <1>3, <1>4, FleetTypeFrame, FleetTypeParts DEF FleetTypeOK, TableType, HostType, EditType, CheckType
  <2>2. QED
    BY <1>3, <1>4, <2>1, SideStep DEF UsedKept
<1>5. CASE /\ regTokens[t] = "fresh"
           /\ regTokens' = [regTokens EXCEPT ![t] = "used"] /\ lastServer' = s
           /\ servers' = [servers EXCEPT ![s] = Registered(h)]
  <2>1. PICK row : row = Registered(h)
    OBVIOUS
  <2>2. row \in ServerRow /\ row.status = "online" /\ row.by = t /\ row.health = "unknown"
    BY <1>2, <2>1, FleetPlaceholders, FleetRows DEF Registered, ServerRow, HostRow, StatusOf, HostOf
  <2>3. RowWrite(s, row)
    BY <1>5, <2>1, <2>2 DEF RowWrite
  <2>4. regTokens' \in [RegTokens -> {"none", "fresh", "used"}] /\ regTokens'[t] = "used" /\ UsedKept
    BY <1>5 DEF FleetInv, FleetTypeOK, UsedKept
  <2>5. UsedInv' /\ TokenMakesOneServer' /\ UnknownInv' /\ CheckInv'
    BY <1>1, <1>3, <1>5, <2>2, <2>3, <2>4, NewRow
  <2>6. TableType'
    <3>1. servers' \in [Servers -> ServerRow]
      BY <2>3, RowWriteEffect
    <3>2. s \in Nat
      BY FleetAssumption
    <3>3. QED
      BY <1>3, <1>5, <2>4, <3>1, <3>2 DEF TableType, FleetInv, FleetTypeOK
  <2>7. FleetTypeOK'
    BY <1>0, <1>3, <2>6, FleetTypeFrame, FleetTypeParts DEF FleetTypeOK, TableType, HostType, EditType, CheckType
  <2>8. QED
    BY <2>5, <2>7 DEF FleetInv
<1>6. QED
  BY <1>1, <1>2, <1>4, <1>5 DEF ConsumeRegistrationTokenAndCreateServer

(* A row that loses or changes its status only. *)
LEMMA StatusStep ==
    ASSUME FleetInv, NEW s \in Servers, NEW row, RowWrite(s, row), UsedKept, ChecksKept, FleetTypeOK',
           row.status # "none" =>
               servers[s].status # "none" /\ row.by = servers[s].by /\ row.health = servers[s].health
    PROVE  FleetInv'
<1>1. servers'[s] = row /\ \A q \in Servers \ {s} : servers'[q] = servers[q]
  BY RowWriteEffect
<1>2. RowsKept
  BY <1>1 DEF RowsKept
<1>3. UsedInv' /\ TokenMakesOneServer' /\ UnknownInv' /\ CheckInv'
  BY <1>2, TokensKeep, ChecksKeep DEF RowsKept
<1>4. QED
  BY <1>3 DEF FleetInv

(* PUT /servers/:id and the new token: a row that is gone stays gone. *)
LEMMA WriteRowStep ==
    ASSUME FleetInv, NEW e \in Edits, update(e) \/ regenerateToken(e)
    PROVE  FleetInv'
<1>1. WriteRow(e) /\ edits[e] \in EditRow
  BY FleetRows DEF update, regenerateToken
<1>2. PICK s \in Servers : s = edits[e].id
  BY DEF update, regenerateToken, FleetInv, FleetTypeOK
<1>3. EditType'
  <2>1. edits' = [edits EXCEPT ![e] = NoEdit]
    BY <1>1 DEF WriteRow
  <2>2. edits' \in [Edits -> EditRow] /\ \A d \in Edits : edits'[d] = IF d = e THEN NoEdit ELSE edits[d]
    BY <2>1, FleetPlaceholders, FleetRows
  <2>3. QED
    BY <2>2, FleetPlaceholders DEF EditType, FleetInv, FleetTypeOK
<1>4. secrets' \in Nat /\ issued' \in [Servers -> Nat]
  BY <1>2, FleetRows DEF update, regenerateToken, FleetInv, FleetTypeOK
<1>5. UNCHANGED <<lastServer, regTokens, hosts, installs, checks, notice, lostNotice>>
  BY <1>1 DEF WriteRow
<1>6. UsedKept /\ ChecksKept
  BY <1>5 DEF UsedKept, ChecksKept
<1>7. servers' \in [Servers -> ServerRow] => FleetTypeOK'
  BY <1>3, <1>4, <1>5 DEF FleetInv, FleetTypeOK, EditType
<1>8. CASE s \in Rows
  <2>1. PICK row : row = [servers[s] EXCEPT !.status = edits[e].status]
    OBVIOUS
  <2>2. row \in ServerRow /\ row.by = servers[s].by /\ row.health = servers[s].health
    BY <1>1, <2>1, FleetRows DEF ServerRow, EditRow
  <2>3. RowWrite(s, row)
    BY <1>1, <1>2, <1>8, <2>1, <2>2 DEF WriteRow, RowWrite
  <2>4. FleetTypeOK'
    BY <1>7, <2>3, RowWriteEffect
  <2>5. servers[s].status # "none"
    BY <1>8 DEF Rows
  <2>6. QED
    BY <1>6, <2>2, <2>3, <2>4, <2>5, StatusStep
<1>9. CASE s \notin Rows
  <2>1. servers' = servers
    BY <1>1, <1>2, <1>9 DEF WriteRow
  <2>2. FleetTypeOK'
    BY <1>7, <2>1, FleetRows
  <2>3. QED
    BY <1>5, <1>6, <2>1, <2>2, SideStep
<1>10. QED
  BY <1>8, <1>9

(* DELETE /servers/:id. *)
LEMMA DeleteServerStep ==
    ASSUME FleetInv, NEW s \in Servers, deleteServer(s)
    PROVE  FleetInv'
<1>1. RowWrite(s, NoServer)
  BY FleetPlaceholders DEF deleteServer, RowWrite
<1>2. UNCHANGED <<lastServer, secrets, regTokens, hosts, installs, edits, checks, issued, notice, lostNotice>>
  BY DEF deleteServer, historyVars
<1>3. UsedKept /\ ChecksKept
  BY <1>2 DEF UsedKept, ChecksKept
<1>4. servers' \in [Servers -> ServerRow]
  BY <1>1, RowWriteEffect
<1>5. FleetTypeOK'
  BY <1>2, <1>4 DEF FleetInv, FleetTypeOK
<1>6. QED
  BY <1>1, <1>3, <1>5, FleetPlaceholders, StatusStep

-----------------------------------------------------------------------------
(* The health checker *)

\* A step of the check of one server leaves the others alone.
OneCheck(s, c) ==
    /\ CheckStep(s, c) /\ c \in CheckRow
    /\ checks[s].pc # "idle"
    /\ servers' \in [Servers -> ServerRow] /\ \A q \in Servers \ {s} : servers'[q] = servers[q]
    /\ servers'[s].status # "none" => servers[s].status # "none" /\ servers'[s].by = servers[s].by
    /\ notice' \in [Servers -> {"none", "online", "offline"}] /\ \A q \in Servers \ {s} : notice'[q] = notice[q]
    /\ \A q \in Servers \ {s} : q \in lostNotice' <=> q \in lostNotice

(* Such a step keeps the invariant if it keeps what is said of the server. *)
LEMMA OneCheckKeeps ==
    ASSUME FleetInv, NEW s \in Servers, NEW c, OneCheck(s, c), CheckFine(s)'
    PROVE  FleetInv'
<1>1. checks' = [checks EXCEPT ![s] = c] /\ c \in CheckRow
  BY DEF OneCheck, CheckStep
<1>2. checks' \in [Servers -> CheckRow] /\ \A q \in Servers \ {s} : checks'[q] = checks[q]
  BY <1>1, FleetRows
<1>3. UNCHANGED <<lastServer, secrets, regTokens, hosts, installs, edits, issued>>
  BY DEF OneCheck, CheckStep
<1>4. FleetTypeOK'
  BY <1>2, <1>3 DEF OneCheck, FleetInv, FleetTypeOK
<1>5. UsedKept
  BY <1>3 DEF UsedKept
<1>6. \A q \in Servers : servers'[q].status # "none" => servers[q].status # "none" /\ servers'[q].by = servers[q].by
  BY DEF OneCheck
<1>7. UsedInv' /\ TokenMakesOneServer'
  BY <1>5, <1>6, TokensKeep
<1>8. ~(s > lastServer)
  BY FleetPlaceholders DEF FleetInv, UnknownInv, OneCheck
<1>9. UnknownInv'
  BY <1>2, <1>3, <1>8 DEF UnknownInv, FleetInv, OneCheck
<1>10. ASSUME NEW q \in Servers, q # s PROVE CheckFine(q)'
  <2>1. /\ servers'[q] = servers[q] /\ checks'[q] = checks[q] /\ notice'[q] = notice[q]
        /\ q \in lostNotice' <=> q \in lostNotice
    BY <1>2, <1>10 DEF OneCheck
  <2>2. (q \in Rows' <=> q \in Rows) /\ (ToldHealth(q))' = ToldHealth(q)
    BY <2>1 DEF Rows, ToldHealth
  <2>3. CheckFine(q)
    BY DEF FleetInv, CheckInv
  <2>4. QED
    BY <2>1, <2>2, <2>3 DEF CheckFine
<1>11. CheckInv'
  BY <1>10 DEF CheckInv
<1>12. QED
  BY <1>4, <1>7, <1>9, <1>11 DEF FleetInv

(* A new round: the health listed is the one in the row. *)
LEMMA CheckAllStep ==
    ASSUME FleetInv, checkAll
    PROVE  FleetInv'
<1>1. UNCHANGED <<servers, lastServer, secrets, regTokens, hosts, installs, edits, issued, notice, lostNotice>>
  BY DEF checkAll
<1>2. ASSUME NEW s \in Servers
      PROVE  /\ checks'[s] \in CheckRow
             /\ \/ checks'[s] = NoCheck
                \/ s \in Rows /\ checks'[s].pc = "ping" /\ checks'[s].health = servers[s].health
  <2>1. \/ checks'[s] = NoCheck
        \/ /\ s \in Rows
           /\ checks'[s] = [NoCheck EXCEPT !.pc = "ping", !.status = servers[s].status, !.health = servers[s].health,
                                           !.host = servers[s].host]
    BY DEF checkAll
  <2>2. servers[s] \in ServerRow /\ NoCheck \in CheckRow
    BY FleetRows, FleetPlaceholders
  <2>3. QED
    BY <2>1, <2>2 DEF ServerRow, CheckRow
<1>3. checks' \in [Servers -> CheckRow]
  <2>1. checks' = [s \in Servers |-> checks'[s]]
    BY DEF checkAll
  <2>2. QED
    BY <1>2, <2>1
<1>4. FleetTypeOK'
  BY <1>1, <1>3 DEF FleetInv, FleetTypeOK
<1>5. UsedInv' /\ TokenMakesOneServer'
  BY <1>1, TokensKeep DEF UsedKept
<1>6. \A s \in Servers : s \in Rows => ~(s > lastServer)
  BY DEF FleetInv, UnknownInv, Rows
<1>7. UnknownInv'
  BY <1>1, <1>2, <1>6 DEF UnknownInv, FleetInv
<1>8. ASSUME NEW s \in Servers PROVE CheckFine(s)'
  <2>1. checks[s] = NoCheck /\ CheckFine(s)
    BY DEF checkAll, FleetInv, CheckInv
  <2>2. s \in Rows => (s \notin lostNotice => (servers[s].health = "offline" <=> notice[s] = "offline"))
    BY <2>1, FleetPlaceholders DEF CheckFine, ToldHealth
  <2>3. Rows' = Rows
    BY <1>1 DEF Rows
  <2>4. CASE checks'[s] = NoCheck
    BY <1>1, <2>2, <2>3, <2>4, FleetPlaceholders DEF CheckFine, ToldHealth
  <2>5. CASE s \in Rows /\ checks'[s].pc = "ping" /\ checks'[s].health = servers[s].health
    BY <1>1, <2>2, <2>3, <2>5 DEF CheckFine, ToldHealth
  <2>6. QED
    BY <1>2, <2>4, <2>5
<1>9. CheckInv'
  BY <1>8 DEF CheckInv
<1>10. QED
  BY <1>4, <1>5, <1>7, <1>9 DEF FleetInv

(* The agent answers or does not. *)
LEMMA CheckServerStep ==
    ASSUME FleetInv, NEW s \in Servers, checkServer(s)
    PROVE  FleetInv'
<1>1. PICK found \in {"online", "degraded", "offline"} :
          CheckStep(s, [checks[s] EXCEPT !.pc = "health", !.found = found])
  BY DEF checkServer, Answers
<1>2. PICK c : c = [checks[s] EXCEPT !.pc = "health", !.found = found]
  OBVIOUS
<1>3. c \in CheckRow /\ c.pc = "health" /\ c.found = found /\ c.health = checks[s].health
  BY <1>2, FleetRows DEF CheckRow, HealthOf
<1>4. checks[s].pc = "ping" /\ UNCHANGED <<servers, notice, lostNotice>> /\ CheckFine(s)
  BY DEF checkServer, FleetInv, CheckInv
<1>5. OneCheck(s, c)
  BY <1>1, <1>2, <1>3, <1>4 DEF OneCheck, FleetInv, FleetTypeOK
<1>6. checks'[s] = c
  BY <1>1, <1>2, FleetRows DEF CheckStep
<1>7. Rows' = Rows
  BY <1>4 DEF Rows
<1>8. CheckFine(s)'
  BY <1>3, <1>4, <1>6, <1>7 DEF CheckFine, ToldHealth
<1>9. QED
  BY <1>5, <1>8, OneCheckKeeps

(* The row gets the health that was found; the notice is about the one before. *)
LEMMA UpdateHealthStep ==
    ASSUME FleetInv, NEW s \in Servers, UpdateHealth(s)
    PROVE  FleetInv'
<1>1. /\ checks[s].pc = "health" /\ checks[s].found \in {"online", "degraded", "offline"}
      /\ UNCHANGED <<notice, lostNotice>> /\ CheckFine(s)
  BY DEF UpdateHealth, FleetInv, CheckInv, CheckFine
<1>2. PICK c : c = [checks[s] EXCEPT !.pc = "status"]
  OBVIOUS
<1>3. c \in CheckRow /\ c.pc = "status" /\ c.found = checks[s].found /\ c.health = checks[s].health
  BY <1>2, FleetRows DEF CheckRow
<1>4. CheckStep(s, c)
  BY <1>2 DEF UpdateHealth
<1>5. checks'[s] = c
  BY <1>4, FleetRows DEF CheckStep
<1>6. /\ servers' \in [Servers -> ServerRow] /\ \A q \in Servers \ {s} : servers'[q] = servers[q]
      /\ servers'[s].status = servers[s].status /\ servers'[s].by = servers[s].by
      /\ s \in Rows => servers'[s].health = checks[s].found
  <2>1. CASE s \in Rows
    <3>1. PICK row : row = [servers[s] EXCEPT !.health = checks[s].found]
      OBVIOUS
    <3>2. row \in ServerRow /\ row.status = servers[s].status /\ row.by = servers[s].by /\ row.health = checks[s].found
      BY <1>1, <3>1, FleetRows DEF ServerRow, HealthOf
    <3>3. RowWrite(s, row)
      BY <2>1, <3>1, <3>2 DEF UpdateHealth, RowWrite
    <3>4. QED
      BY <3>2, <3>3, RowWriteEffect
  <2>2. CASE s \notin Rows
    BY <2>2, FleetRows DEF UpdateHealth
  <2>3. QED
    BY <2>1, <2>2
<1>7. OneCheck(s, c)
  BY <1>1, <1>3, <1>4, <1>6 DEF OneCheck, FleetInv, FleetTypeOK
<1>8. s \in Rows' <=> s \in Rows
  BY <1>6 DEF Rows
<1>9. s \in Rows => checks[s].health = servers[s].health /\ servers[s].health \in HealthOf
  BY <1>1, FleetRows DEF CheckFine, ServerRow
<1>10. CheckFine(s)'
  BY <1>1, <1>3, <1>5, <1>6, <1>8, <1>9 DEF CheckFine, ToldHealth
<1>11. QED
  BY <1>7, <1>10, OneCheckKeeps

(* Where no notice is due, the one before still tells what was found. *)
LEMMA NoNoticeDue ==
    ASSUME NEW c, c.found \in {"online", "degraded", "offline"}, c.health \in HealthOf, Notice(c) = "none"
    PROVE  c.found = "offline" <=> c.health = "offline"
  BY DEF Notice, HealthOf

(* The status is written; a check without a notice ends. *)
LEMMA UpdateStatusStep ==
    ASSUME FleetInv, NEW s \in Servers, UpdateServerStatus(s)
    PROVE  FleetInv'
<1>1. /\ checks[s].pc = "status" /\ checks[s].found \in {"online", "degraded", "offline"}
      /\ UNCHANGED <<notice, lostNotice>> /\ CheckFine(s) /\ checks[s] \in CheckRow
  BY FleetRows DEF UpdateServerStatus, FleetInv, CheckInv, CheckFine
<1>2. PICK c : c = IF Notice(checks[s]) = "none" THEN NoCheck ELSE [checks[s] EXCEPT !.pc = "notify"]
  OBVIOUS
<1>3. CheckStep(s, c)
  BY <1>2 DEF UpdateServerStatus
<1>4. c \in CheckRow /\ checks'[s] = c
  <2>1. c \in CheckRow
    BY <1>1, <1>2, FleetPlaceholders DEF CheckRow
  <2>2. QED
    BY <1>3, <2>1, FleetRows DEF CheckStep
<1>5. NewStatus(checks[s]) \in {"same", "online", "offline"}
  BY DEF NewStatus
<1>6. /\ servers' \in [Servers -> ServerRow] /\ \A q \in Servers \ {s} : servers'[q] = servers[q]
      /\ servers'[s].status # "none" <=> servers[s].status # "none"
      /\ servers'[s].by = servers[s].by /\ servers'[s].health = servers[s].health
  <2>1. CASE s \in Rows /\ NewStatus(checks[s]) # "same"
    <3>1. PICK st \in {"online", "offline"} : st = NewStatus(checks[s])
      BY <1>5, <2>1
    <3>2. PICK row : row = [servers[s] EXCEPT !.status = st]
      OBVIOUS
    <3>3. row \in ServerRow /\ row.status = st /\ row.by = servers[s].by /\ row.health = servers[s].health
      BY <3>2, FleetRows DEF ServerRow, StatusOf
    <3>4. RowWrite(s, row)
      BY <2>1, <3>1, <3>2, <3>3 DEF UpdateServerStatus, RowWrite
    <3>5. QED
      BY <2>1, <3>1, <3>3, <3>4, RowWriteEffect DEF Rows
  <2>2. CASE ~(s \in Rows /\ NewStatus(checks[s]) # "same")
    BY <2>2, FleetRows DEF UpdateServerStatus
  <2>3. QED
    BY <2>1, <2>2
<1>7. OneCheck(s, c)
  BY <1>1, <1>3, <1>4, <1>6 DEF OneCheck, FleetInv, FleetTypeOK
<1>8. s \in Rows' <=> s \in Rows
  BY <1>6 DEF Rows
<1>9. s \in Rows => /\ servers[s].health = checks[s].found /\ checks[s].health \in HealthOf
                    /\ s \notin lostNotice => (checks[s].health = "offline" <=> notice[s] = "offline")
  BY <1>1 DEF CheckFine, ToldHealth
<1>10. CheckFine(s)'
  <2>1. CASE Notice(checks[s]) = "none"
    <3>1. checks'[s] = NoCheck
      BY <1>2, <1>4, <2>1
    <3>2. s \in Rows => (servers[s].health = "offline" <=> checks[s].health = "offline")
      BY <1>1, <1>9, <2>1, NoNoticeDue
    <3>3. QED
      BY <1>1, <1>6, <1>8, <1>9, <3>1, <3>2, FleetPlaceholders DEF CheckFine, ToldHealth
  <2>2. CASE Notice(checks[s]) # "none"
    <3>1. checks'[s] = [checks[s] EXCEPT !.pc = "notify"]
      BY <1>2, <1>4, <2>2
    <3>2. checks'[s].pc = "notify" /\ checks'[s].found = checks[s].found /\ checks'[s].health = checks[s].health
      BY <1>1, <3>1 DEF CheckRow
    <3>3. Notice(checks'[s]) # "none"
      BY <2>2, <3>2 DEF Notice
    <3>4. QED
      BY <1>1, <1>6, <1>8, <1>9, <3>2, <3>3 DEF CheckFine, ToldHealth
  <2>3. QED
    BY <2>1, <2>2
<1>11. QED
  BY <1>7, <1>10, OneCheckKeeps

(* The notice says what the row says. *)
LEMMA NotifyStep ==
    ASSUME FleetInv, NEW s \in Servers, NEW k \in SendSlots, Notify(s, k)
    PROVE  FleetInv'
<1>1. /\ checks[s].pc = "notify" /\ checks[s].found \in {"online", "degraded", "offline"}
      /\ UNCHANGED servers /\ CheckFine(s) /\ Notice(checks[s]) # "none"
  BY DEF Notify, FleetInv, CheckInv, CheckFine
<1>2. Notice(checks[s]) \in {"online", "offline"} /\ (Notice(checks[s]) = "offline" <=> checks[s].found = "offline")
  BY <1>1 DEF Notice
<1>3. PICK n \in {"online", "offline"} : n = Notice(checks[s])
  BY <1>2
<1>4. notice' = [notice EXCEPT ![s] = n]
  BY <1>3 DEF Notify
<1>5. /\ notice' \in [Servers -> {"none", "online", "offline"}] /\ notice'[s] = n
      /\ \A q \in Servers \ {s} : notice'[q] = notice[q]
  BY <1>4 DEF FleetInv, FleetTypeOK
<1>6. CheckStep(s, NoCheck) /\ lostNotice' = lostNotice \ {s}
  BY DEF Notify
<1>7. OneCheck(s, NoCheck)
  BY <1>1, <1>5, <1>6, FleetPlaceholders, FleetRows DEF OneCheck
<1>8. checks'[s] = NoCheck
  BY <1>6, FleetRows DEF CheckStep
<1>9. Rows' = Rows /\ (s \in Rows => servers[s].health = checks[s].found)
  BY <1>1 DEF Rows, CheckFine
<1>10. CheckFine(s)'
  BY <1>1, <1>2, <1>3, <1>5, <1>8, <1>9, FleetPlaceholders DEF CheckFine, ToldHealth
<1>11. QED
  BY <1>7, <1>10, OneCheckKeeps

(* A crash ends the checks; a notice that was due is noted as lost. *)
LEMMA FleetCrashStep ==
    ASSUME FleetInv, FleetCrash
    PROVE  FleetInv'
<1>1. UNCHANGED <<servers, lastServer, secrets, regTokens, issued, notice>>
  BY DEF FleetCrash
<1>2. checks' = [s \in Servers |-> NoCheck] /\ edits' = [e \in Edits |-> NoEdit] /\ installs' = [h \in Hosts |-> NoInstall]
  BY DEF FleetCrash
<1>3. hosts' \in [Hosts -> HostRow]
  <2>1. ASSUME NEW h \in Hosts PROVE hosts'[h] \in HostRow
    <3>1. hosts'[h] = hosts[h] \/ hosts'[h] = [hosts[h] EXCEPT !.token = installs[h].saved]
      BY DEF FleetCrash
    <3>2. hosts[h] \in HostRow /\ installs[h].saved \in Nat
      BY FleetRows DEF InstallRow
    <3>3. QED
      BY <3>1, <3>2 DEF HostRow
  <2>2. hosts' = [h \in Hosts |-> hosts'[h]]
    BY DEF FleetCrash
  <2>3. QED
    BY <2>1, <2>2
<1>4. FleetTypeOK'
  <2>1. TableType' 
    BY <1>1 DEF TableType, FleetInv, FleetTypeOK
  <2>2. HostType'
    BY <1>2, <1>3, FleetPlaceholders DEF HostType
  <2>3. EditType'
    BY <1>2, FleetPlaceholders DEF EditType
  <2>4. CheckType'
    BY <1>1, <1>2, FleetPlaceholders DEF CheckType, FleetInv, FleetTypeOK
  <2>5. QED
    BY <2>1, <2>2, <2>3, <2>4 DEF FleetTypeOK, TableType, HostType, EditType, CheckType
<1>5. UsedInv' /\ TokenMakesOneServer'
  BY <1>1, TokensKeep DEF UsedKept
<1>6. UnknownInv'
  BY <1>1, <1>2 DEF UnknownInv, FleetInv
<1>7. ASSUME NEW s \in Servers PROVE CheckFine(s)'
  <2>1. CheckFine(s) /\ checks'[s] = NoCheck /\ (s \in Rows' <=> s \in Rows)
    BY <1>1, <1>2 DEF FleetInv, CheckInv, Rows
  <2>2. ASSUME s \in Rows, s \notin lostNotice'
        PROVE  servers[s].health = "offline" <=> notice[s] = "offline"
    <3>1. s \notin lostNotice /\ (checks[s].pc \in {"status", "notify"} => Notice(checks[s]) = "none")
      BY <2>2 DEF FleetCrash
    <3>2. CASE checks[s].pc \in {"status", "notify"}
      <4>1. checks[s].found = "offline" <=> checks[s].health = "offline"
        BY <2>1, <2>2, <3>1, <3>2, NoNoticeDue DEF CheckFine
      <4>2. QED
        BY <2>1, <2>2, <3>1, <3>2, <4>1 DEF CheckFine, ToldHealth
    <3>3. CASE checks[s].pc \notin {"status", "notify"}
      BY <2>1, <2>2, <3>1, <3>3 DEF CheckFine, ToldHealth
    <3>4. QED
      BY <3>2, <3>3
  <2>3. QED
    BY <1>1, <2>1, <2>2, FleetPlaceholders DEF CheckFine, ToldHealth
<1>8. CheckInv'
  BY <1>7 DEF CheckInv
<1>9. QED
  BY <1>4, <1>5, <1>6, <1>8 DEF FleetInv

(* Every step of the fleet keeps the invariant. *)
LEMMA FleetInductive == FleetInv /\ [FleetNext]_<<fleetVars, alertVars>> => FleetInv'
<1> SUFFICES ASSUME FleetInv, [FleetNext]_<<fleetVars, alertVars>> PROVE FleetInv'
  OBVIOUS
<1>1. CASE UNCHANGED fleetVars
  BY <1>1, SideSteps
<1>2. CASE FleetNext
  <2>1. ASSUME NEW h \in Hosts, \/ createServer(h) \/ Toggle(h) \/ registerAgent(h) \/ FinishInstall(h)
                                \/ ConsumeRegistrationTokenAndCreateServer(h) \/ \E t \in RegTokens : StartAgent(h, t)
        PROVE  FleetInv'
    BY <2>1, SideSteps, CreateServerStep, ConsumeStep DEF HostOf
  <2>2. ASSUME createServer("none") PROVE FleetInv'
    BY <2>2, CreateServerStep DEF HostOf
  <2>3. ASSUME NEW e \in Edits, \/ update(e) \/ regenerateToken(e)
                                \/ \E op \in {"update", "regenerate"}, s \in Servers : ReadRow(e, op, s)
        PROVE  FleetInv'
    BY <2>3, SideSteps, WriteRowStep
  <2>4. ASSUME NEW s \in Servers, \/ deleteServer(s) \/ ConfigureAgent(s) \/ checkServer(s) \/ UpdateHealth(s)
                                  \/ UpdateServerStatus(s) \/ ingest(s) \/ \E k \in SendSlots : Notify(s, k)
        PROVE  FleetInv'
    BY <2>4, SideSteps, DeleteServerStep, CheckServerStep, UpdateHealthStep, UpdateStatusStep, NotifyStep
  <2>5. ASSUME NEW t \in RegTokens, createRegistrationToken(t) \/ Lapse(t) PROVE FleetInv'
    BY <2>5, SideSteps
  <2>6. ASSUME collectAll \/ collectFromAgent \/ CollectorReturn \/ \E k \in SendSlots : CollectorSend(k)
        PROVE  FleetInv'
    BY <2>6, SideSteps
  <2>7. QED
    BY <1>1, <1>2, <2>1, <2>2, <2>3, <2>4, <2>5, <2>6, CheckAllStep, FleetCrashStep DEF FleetNext
<1>3. QED
  BY <1>1, <1>2

(* However many install scripts run with one registration token, and whatever
   expires or crashes between the look-up and the transaction, the token makes
   one server. *)
THEOREM TokenMakesOneServerHolds == FleetSpec => []TokenMakesOneServer
<1>1. FleetInv => TokenMakesOneServer
  BY DEF FleetInv
<1>2. QED
  BY <1>1, FleetInitial, FleetInductive, PTL DEF FleetSpec

(* Outside a check, the last notice about a server says offline exactly when
   its health does, through edits, deletions, overlapping checks and crashes,
   except where a crash swallowed the notice that was due. *)
THEOREM NoticeFollowsHealthHolds == FleetSpec => []NoticeFollowsHealth
<1>1. FleetInv => NoticeFollowsHealth
  <2> SUFFICES ASSUME FleetInv, NEW s \in Rows, checks[s] = NoCheck, s \notin lostNotice
               PROVE  servers[s].health = "offline" <=> notice[s] = "offline"
    BY DEF NoticeFollowsHealth
  <2>1. s \in Servers
    BY DEF Rows
  <2>2. QED
    BY <2>1, FleetPlaceholders DEF FleetInv, CheckInv, CheckFine, ToldHealth
<1>2. QED
  BY <1>1, FleetInitial, FleetInductive, PTL DEF FleetSpec

-----------------------------------------------------------------------------
(* The sender *)

SendRow == [pc : {"free", "list", "create", "deliver", "mark"}, n : Nat, todo : SUBSET Channels,
            all : SUBSET Channels, ok : BOOLEAN]
AlertRow == [n : Nat, channel : Channels, status : {"pending", "sent", "failed"}]

\* The variables of the sender have their types.
SendTypeOK ==
    /\ channels \in [Channels -> {"none", "disabled", "enabled"}]
    /\ sends \in [SendSlots -> SendRow]
    /\ lastSend \in Nat
    /\ alerts \subseteq AlertRow
    /\ existed \subseteq [n : Nat, channel : Channels]
    /\ listed \subseteq [n : Nat, channels : SUBSET Channels]

Running == {k \in SendSlots : sends[k].pc # "free"}

\* A running Send has a number of its own, which no finished one has.
NumberInv ==
    /\ \A k \in Running : sends[k].n <= lastSend
    /\ \A k, j \in Running : sends[k].n = sends[j].n => k = j
    /\ \A f \in listed : f.n <= lastSend /\ \A k \in Running : sends[k].n # f.n

\* The channel existed when the Send began and was not deleted since, ...
Due(n, c) == [n |-> n, channel |-> c] \in existed
\* ... there is a record, and it is settled.
Recorded(n, c) == \E a \in alerts : a.n = n /\ a.channel = c
Settled(n, c) == \E a \in alerts : a.n = n /\ a.channel = c /\ a.status \in {"sent", "failed"}

\* What is due at a channel still exists.
ExistInv == \A e \in existed : e.channel \in Existing

\* A Send has settled the channels it has passed, and has a record at the one
\* it delivers to.
LoopFine(k) ==
    /\ sends[k].pc \in {"create", "deliver", "mark"} =>
          /\ sends[k].todo # {}
          /\ \A c \in sends[k].all \ sends[k].todo : Due(sends[k].n, c) => Settled(sends[k].n, c)
    /\ sends[k].pc \in {"deliver", "mark"} => (Due(sends[k].n, Current(k)) => Recorded(sends[k].n, Current(k)))

LoopInv == \A k \in SendSlots : LoopFine(k)

SendInv == SendTypeOK /\ NumberInv /\ ExistInv /\ LoopInv /\ EveryListedChannel

(* A set of naturals has a least element: the naturals are well-founded. *)
LEMMA MinIn ==
    ASSUME NEW S \in SUBSET Nat, S # {}
    PROVE  Min(S) \in S
<1>1. IsWellFoundedOn({ss \in Nat \X Nat : ss[1] < ss[2]}, Nat)
  BY NatLessThanWellFounded DEF OpToRel
<1>2. PICK R : R = {ss \in Nat \X Nat : ss[1] < ss[2]}
  OBVIOUS
<1>3. PICK x \in S : \A y \in S : ~(<<y, x>> \in R)
  BY <1>1, <1>2, WFMin
<1>4. \A y \in S : ~(y < x)
  BY <1>2, <1>3
<1>5. \A y \in S : x =< y
  BY <1>4
<1>6. QED
  BY <1>5 DEF Min

(* The rows have their types, and the loop is at a channel of those to do. *)
LEMMA SendRows ==
    ASSUME SendInv
    PROVE  /\ sends \in [SendSlots -> SendRow] /\ \A k \in SendSlots : sends[k] \in SendRow
           /\ \A k \in SendSlots : sends[k].pc \in {"create", "deliver", "mark"}
                 => Current(k) \in sends[k].todo /\ Current(k) \in Channels
           /\ lastSend \in Nat
<1>1. sends \in [SendSlots -> SendRow] /\ (\A k \in SendSlots : sends[k] \in SendRow) /\ lastSend \in Nat
  BY DEF SendInv, SendTypeOK
<1>2. ASSUME NEW k \in SendSlots, sends[k].pc \in {"create", "deliver", "mark"}
      PROVE  Current(k) \in sends[k].todo /\ Current(k) \in Channels
  <2>1. sends[k].todo \in SUBSET Channels /\ sends[k].todo # {}
    BY <1>1, <1>2 DEF SendRow, SendInv, LoopInv, LoopFine
  <2>2. PICK S \in SUBSET Nat : S = sends[k].todo
    BY <2>1, AlertsAssumption
  <2>3. Min(S) \in S
    BY <2>1, <2>2, MinIn
  <2>4. QED
    BY <2>1, <2>2, <2>3 DEF Current
<1>3. QED
  BY <1>1, <1>2

(* No Send has run at first. *)
LEMMA SendInitial == AlertsInit => SendInv
<1> SUFFICES ASSUME AlertsInit PROVE SendInv
  OBVIOUS
<1>1. NoSend \in SendRow /\ NoSend.pc = "free"
  BY DEF NoSend, SendRow
<1>2. \A k \in SendSlots : sends[k] = NoSend
  BY DEF AlertsInit, NoSends
<1>3. channels \in [Channels -> {"none", "disabled", "enabled"}]
  BY DEF AlertsInit
<1>4. alerts = {} /\ existed = {} /\ listed = {} /\ lastSend = 0 /\ sends = NoSends
  BY DEF AlertsInit
<1>5. SendTypeOK
  BY <1>1, <1>3, <1>4 DEF SendTypeOK, NoSends
<1>6. NumberInv
  BY <1>1, <1>2, <1>4 DEF NumberInv, Running
<1>7. ExistInv /\ EveryListedChannel
  BY <1>4 DEF ExistInv, EveryListedChannel
<1>8. LoopInv
  BY <1>1, <1>2 DEF LoopInv, LoopFine
<1>9. QED
  BY <1>5, <1>6, <1>7, <1>8 DEF SendInv

\* Nothing becomes due for a Send that began before, and records stay, settled
\* ones settled, where they are due.
RecordsKept ==
    \A n \in Nat, c \in Channels : n <= lastSend /\ Due(n, c)' =>
        /\ Due(n, c)
        /\ Recorded(n, c) => Recorded(n, c)'
        /\ Settled(n, c) => Settled(n, c)'

(* A step that keeps the records keeps what is said of a Send it leaves alone ... *)
LEMMA OthersFine ==
    ASSUME SendInv, RecordsKept, NEW j \in SendSlots, sends'[j] = sends[j]
    PROVE  LoopFine(j)'
<1>1. sends[j] \in SendRow /\ LoopFine(j)
  BY SendRows DEF SendInv, LoopInv
<1>2. CASE sends[j].pc \notin {"create", "deliver", "mark"}
  BY <1>2 DEF LoopFine
<1>3. CASE sends[j].pc \in {"create", "deliver", "mark"}
  <2>1. PICK n \in Nat : n = sends[j].n
    BY <1>1 DEF SendRow
  <2>2. n <= lastSend
    BY <1>3, <2>1 DEF SendInv, NumberInv, Running
  <2>3. PICK cur \in Channels : cur = Current(j)
    BY <1>3, SendRows
  <2>4. Current(j)' = cur
    BY <2>3 DEF Current
  <2>5. ASSUME NEW c \in Channels, Due(n, c)'
        PROVE  Due(n, c) /\ (Recorded(n, c) => Recorded(n, c)') /\ (Settled(n, c) => Settled(n, c)')
    BY <2>2, <2>5 DEF RecordsKept
  <2>6. sends[j].all \subseteq Channels
    BY <1>1 DEF SendRow
  <2>7. \A c \in sends[j].all \ sends[j].todo : Due(n, c)' => Settled(n, c)'
    BY <1>1, <1>3, <2>1, <2>5, <2>6 DEF LoopFine
  <2>8. sends[j].pc \in {"deliver", "mark"} => (Due(n, cur)' => Recorded(n, cur)')
    BY <1>1, <2>1, <2>3, <2>5 DEF LoopFine
  <2>9. sends[j].todo # {}
    BY <1>1, <1>3 DEF LoopFine
  <2>10. QED
    BY <2>1, <2>4, <2>7, <2>8, <2>9 DEF LoopFine
<1>4. QED
  BY <1>2, <1>3

(* ... and of the finished ones. *)
LEMMA FinishedFine ==
    ASSUME SendInv, RecordsKept, NEW f \in listed, NEW c \in f.channels, Due(f.n, c)'
    PROVE  Settled(f.n, c)'
<1>1. f.n \in Nat /\ c \in Channels /\ f.n <= lastSend
  BY DEF SendInv, SendTypeOK, NumberInv
<1>2. PICK n \in Nat : n = f.n
  BY <1>1
<1>3. Due(n, c) /\ (Settled(n, c) => Settled(n, c)')
  BY <1>1, <1>2 DEF RecordsKept
<1>4. Settled(n, c)
  BY <1>2, <1>3 DEF SendInv, EveryListedChannel, Due, Settled
<1>5. QED
  BY <1>2, <1>3, <1>4

\* One Send is written at, which was running.
SendWrite(k, row) ==
    /\ sends' = [sends EXCEPT ![k] = row] /\ row \in SendRow
    /\ sends[k].pc # "free" /\ row.pc # "free" /\ row.n = sends[k].n
    /\ listed' = listed

\* The tables keep their types, and no Send begins.
TablesFine ==
    /\ channels' \in [Channels -> {"none", "disabled", "enabled"}]
    /\ alerts' \subseteq AlertRow /\ existed' \subseteq [n : Nat, channel : Channels]
    /\ lastSend' = lastSend

(* A Send goes on. *)
LEMMA SendWriteKeeps ==
    ASSUME SendInv, NEW k \in SendSlots, NEW row, SendWrite(k, row), TablesFine, RecordsKept, ExistInv', LoopFine(k)'
    PROVE  SendInv'
<1>1. sends' \in [SendSlots -> SendRow] /\ sends'[k] = row /\ \A j \in SendSlots \ {k} : sends'[j] = sends[j]
  BY SendRows DEF SendWrite
<1>2. SendTypeOK'
  BY <1>1 DEF SendTypeOK, TablesFine, SendInv, SendWrite
<1>3. Running' = Running /\ \A j \in SendSlots : sends'[j].n = sends[j].n
  BY <1>1 DEF Running, SendWrite
<1>4. NumberInv'
  BY <1>3 DEF NumberInv, SendInv, TablesFine, SendWrite, Running
<1>5. LoopInv'
  BY <1>1, OthersFine DEF LoopInv
<1>6. EveryListedChannel'
  <2>1. \A f \in listed' : \A c \in f.channels : Due(f.n, c)' => Settled(f.n, c)'
    BY FinishedFine DEF SendWrite
  <2>2. QED
    BY <2>1 DEF EveryListedChannel, Due, Settled
<1>7. QED
  BY <1>2, <1>4, <1>5, <1>6 DEF SendInv

(* The loop is at the next channel or done. *)
LEMMA AdvanceKeeps ==
    ASSUME SendInv, NEW k \in SendSlots, NEW send \in SendRow, Advance(k, send), TablesFine, RecordsKept, ExistInv',
           sends[k].pc # "free", send.n = sends[k].n,
           \A c \in send.all \ send.todo : Due(send.n, c)' => Settled(send.n, c)'
    PROVE  SendInv'
<1>1. CASE send.todo # {}
  <2>1. PICK row : row = [send EXCEPT !.pc = "create"]
    OBVIOUS
  <2>2. /\ row \in SendRow /\ row.pc = "create" /\ row.n = send.n /\ row.todo = send.todo
        /\ row.all = send.all
    BY <2>1 DEF SendRow
  <2>3. SendWrite(k, row)
    BY <1>1, <2>1, <2>2 DEF Advance, SendWrite
  <2>4. sends'[k] = row
    BY <2>3, SendRows DEF SendWrite
  <2>5. LoopFine(k)'
    BY <1>1, <2>2, <2>4 DEF LoopFine
  <2>6. QED
    BY <2>3, <2>5, SendWriteKeeps
<1>2. CASE send.todo = {}
  <2>1. PICK f : f = [n |-> send.n, channels |-> send.all]
    OBVIOUS
  <2>2. f \in [n : Nat, channels : SUBSET Channels] /\ f.n = send.n /\ f.channels = send.all
    BY <2>1 DEF SendRow
  <2>3. sends' = [sends EXCEPT ![k] = NoSend] /\ listed' = listed \cup {f}
    BY <1>2, <2>1 DEF Advance
  <2>4. NoSend \in SendRow /\ NoSend.pc = "free"
    BY DEF NoSend, SendRow
  <2>5. sends' \in [SendSlots -> SendRow] /\ sends'[k] = NoSend /\ \A j \in SendSlots \ {k} : sends'[j] = sends[j]
    BY <2>3, <2>4, SendRows
  <2>6. SendTypeOK'
    BY <2>2, <2>3, <2>5 DEF SendTypeOK, TablesFine, SendInv
  <2>7. Running' = Running \ {k} /\ k \in Running /\ \A j \in Running' : sends'[j] = sends[j]
    BY <2>4, <2>5 DEF Running
  <2>8. NumberInv'
    BY <2>2, <2>3, <2>7 DEF NumberInv, SendInv, TablesFine
  <2>9. LoopInv'
    <3>1. LoopFine(k)'
      BY <2>4, <2>5 DEF LoopFine
    <3>2. QED
      BY <2>5, <3>1, OthersFine DEF LoopInv
  <2>10. EveryListedChannel'
    <3>1. ASSUME NEW g \in listed', NEW c \in g.channels, Due(g.n, c)' PROVE Settled(g.n, c)'
      <4>1. CASE g \in listed
        BY <3>1, <4>1, FinishedFine
      <4>2. CASE g = f
        BY <1>2, <2>2, <3>1, <4>2
      <4>3. QED
        BY <2>3, <4>1, <4>2
    <3>2. QED
      BY <3>1 DEF EveryListedChannel, Due, Settled
  <2>11. QED
    BY <2>6, <2>8, <2>9, <2>10 DEF SendInv
<1>3. QED
  BY <1>1, <1>2

(* Steps that leave alerts and what is due alone keep the records. *)
LEMMA SameRecords ==
    ASSUME UNCHANGED <<alerts, existed>>
    PROVE  RecordsKept
  BY DEF RecordsKept, Due, Recorded, Settled

(* Send lists the enabled channels: it has passed none. *)
LEMMA ListStep ==
    ASSUME SendInv, NEW k \in SendSlots, ListChannels(k)
    PROVE  SendInv'
<1>1. PICK on \in SUBSET Channels : Advance(k, [sends[k] EXCEPT !.todo = on, !.all = on])
  BY DEF ListChannels, Existing
<1>2. PICK send : send = [sends[k] EXCEPT !.todo = on, !.all = on]
  OBVIOUS
<1>3. send \in SendRow /\ send.n = sends[k].n /\ send.all = on /\ send.todo = on
  BY <1>2, SendRows DEF SendRow
<1>4. UNCHANGED <<channels, alerts, lastSend, existed>> /\ sends[k].pc = "list"
  BY DEF ListChannels
<1>5. TablesFine /\ RecordsKept /\ ExistInv'
  BY <1>4, SameRecords DEF TablesFine, SendInv, SendTypeOK, ExistInv, Existing
<1>6. Advance(k, send)
  BY <1>1, <1>2
<1>7. QED
  BY <1>3, <1>4, <1>5, <1>6, AdvanceKeeps

(* What a Send that passes a channel leaves behind. *)
LEMMA PassedRow ==
    ASSUME SendInv, NEW k \in SendSlots, sends[k].pc \in {"create", "mark"}
    PROVE  /\ Passed(k) \in SendRow /\ Passed(k).n = sends[k].n
           /\ Passed(k).all = sends[k].all /\ Passed(k).todo = sends[k].todo \ {Current(k)}
<1>1. PICK cur : cur = Current(k)
  OBVIOUS
<1>2. Passed(k) = [sends[k] EXCEPT !.todo = @ \ {cur}] /\ sends[k] \in SendRow
  BY <1>1, SendRows DEF Passed
<1>3. QED
  BY <1>1, <1>2 DEF SendRow

(* A Send that passes the channel it is at, when that is settled if due. *)
LEMMA PassKeeps ==
    ASSUME SendInv, NEW k \in SendSlots, sends[k].pc \in {"create", "mark"}, Advance(k, Passed(k)),
           TablesFine, RecordsKept, ExistInv',
           \A n \in Nat, c \in Channels :
               n = sends[k].n /\ c = Current(k) /\ Due(n, c)' => Settled(n, c)'
    PROVE  SendInv'
<1>1. PICK send : send = Passed(k)
  OBVIOUS
<1>2. /\ send \in SendRow /\ send.n = sends[k].n
      /\ send.all = sends[k].all /\ send.todo = sends[k].todo \ {Current(k)}
  BY <1>1, PassedRow
<1>3. sends[k] \in SendRow /\ LoopFine(k) /\ sends[k].n <= lastSend
  BY SendRows DEF SendInv, LoopInv, NumberInv, Running
<1>4. PICK n \in Nat : n = sends[k].n
  BY <1>3 DEF SendRow
<1>5. ASSUME NEW c \in send.all \ send.todo, Due(n, c)' PROVE Settled(n, c)'
  <2>1. c \in Channels
    BY <1>2, <1>3, <1>5 DEF SendRow
  <2>2. CASE c = Current(k)
    BY <1>4, <1>5, <2>1, <2>2
  <2>3. CASE c # Current(k)
    <3>1. c \in sends[k].all \ sends[k].todo
      BY <1>2, <1>5, <2>3
    <3>2. Due(n, c) /\ (Settled(n, c) => Settled(n, c)')
      BY <1>3, <1>4, <1>5, <2>1 DEF RecordsKept
    <3>3. QED
      BY <1>3, <1>4, <3>1, <3>2 DEF LoopFine
  <2>4. QED
    BY <2>2, <2>3
<1>6. Advance(k, send) /\ sends[k].pc # "free"
  BY <1>1
<1>7. QED
  BY <1>2, <1>4, <1>5, <1>6, AdvanceKeeps

(* A record is made, or the channel is gone and nothing is due. *)
LEMMA CreateAlertStep ==
    ASSUME SendInv, NEW k \in SendSlots, CreateAlert(k)
    PROVE  SendInv'
<1>1. UNCHANGED <<channels, lastSend, existed>> /\ sends[k].pc = "create" /\ sends[k] \in SendRow
  BY SendRows DEF CreateAlert
<1>2. ExistInv'
  BY <1>1 DEF SendInv, ExistInv, Existing
<1>3. PICK n \in Nat : n = sends[k].n
  BY <1>1 DEF SendRow
<1>4. PICK cur \in Channels : cur = Current(k)
  BY <1>1, SendRows
<1>5. CASE cur \in Existing
  <2>1. PICK new : new = [n |-> n, channel |-> cur, status |-> "pending"]
    OBVIOUS
  <2>2. new \in AlertRow /\ new.n = n /\ new.channel = cur
    BY <2>1 DEF AlertRow
  <2>3. alerts' = alerts \cup {new} /\ listed' = listed
    BY <1>3, <1>4, <1>5, <2>1 DEF CreateAlert
  <2>4. RecordsKept
    BY <1>1, <2>3 DEF RecordsKept, Due, Recorded, Settled
  <2>5. TablesFine
    BY <1>1, <2>2, <2>3 DEF TablesFine, SendInv, SendTypeOK
  <2>6. PICK row : row = [sends[k] EXCEPT !.pc = "deliver"]
    OBVIOUS
  <2>7. row \in SendRow /\ row.pc = "deliver" /\ row.n = n /\ row.todo = sends[k].todo /\ row.all = sends[k].all
    BY <1>1, <1>3, <2>6 DEF SendRow
  <2>8. SendWrite(k, row)
    BY <1>1, <1>3, <1>4, <1>5, <2>3, <2>6, <2>7 DEF CreateAlert, SendWrite
  <2>9. sends'[k] = row
    BY <2>8, SendRows DEF SendWrite
  <2>10. Current(k)' = cur
    BY <1>4, <2>7, <2>9 DEF Current
  <2>11. Recorded(n, cur)'
    BY <2>2, <2>3 DEF Recorded
  <2>12. \A c \in sends[k].all \ sends[k].todo : Due(n, c)' => Settled(n, c)'
    <3>1. LoopFine(k) /\ n <= lastSend /\ sends[k].all \subseteq Channels
      BY <1>1, <1>3 DEF SendInv, LoopInv, NumberInv, Running, SendRow
    <3>2. QED
      BY <1>1, <1>3, <2>4, <3>1 DEF LoopFine, RecordsKept
  <2>13. sends[k].todo # {}
    BY <1>1 DEF SendInv, LoopInv, LoopFine
  <2>14. LoopFine(k)'
    BY <2>7, <2>9, <2>10, <2>11, <2>12, <2>13 DEF LoopFine
  <2>15. QED
    BY <1>2, <2>4, <2>5, <2>8, <2>14, SendWriteKeeps
<1>6. CASE cur \notin Existing
  <2>1. Advance(k, Passed(k)) /\ alerts' = alerts
    BY <1>4, <1>6 DEF CreateAlert
  <2>2. TablesFine /\ RecordsKept
    BY <1>1, <2>1, SameRecords DEF TablesFine, SendInv, SendTypeOK
  <2>3. ~Due(n, cur)'
    BY <1>1, <1>6 DEF SendInv, ExistInv, Due
  <2>4. QED
    BY <1>1, <1>2, <1>3, <1>4, <2>1, <2>2, <2>3, PassKeeps
<1>7. QED
  BY <1>5, <1>6

(* The notifier answers; the record stays. *)
LEMMA DeliverStep ==
    ASSUME SendInv, NEW k \in SendSlots,
           (\E ok \in BOOLEAN : DeliverHook(k, ok)) \/ \E server \in SmtpServers : DeliverEmail(k, server)
    PROVE  SendInv'
<1>1. /\ UNCHANGED <<channels, alerts, lastSend, listed, existed>>
      /\ sends[k].pc = "deliver" /\ sends[k] \in SendRow
  BY SendRows DEF DeliverHook, DeliverEmail
<1>2. PICK ok \in BOOLEAN : sends' = [sends EXCEPT ![k].pc = "mark", ![k].ok = ok]
  BY DEF DeliverHook, DeliverEmail
<1>3. PICK row : row = [sends[k] EXCEPT !.pc = "mark", !.ok = ok]
  OBVIOUS
<1>4. row \in SendRow /\ row.pc = "mark" /\ row.n = sends[k].n /\ row.todo = sends[k].todo /\ row.all = sends[k].all
  BY <1>1, <1>3 DEF SendRow
<1>5. SendWrite(k, row)
  BY <1>1, <1>2, <1>3, <1>4 DEF SendWrite
<1>6. sends'[k] = row
  BY <1>5, SendRows DEF SendWrite
<1>7. Current(k)' = Current(k)
  BY <1>4, <1>6 DEF Current
<1>8. TablesFine /\ RecordsKept /\ ExistInv'
  BY <1>1, SameRecords DEF TablesFine, SendInv, SendTypeOK, ExistInv, Existing
<1>9. LoopFine(k)'
  <2>1. LoopFine(k)
    BY DEF SendInv, LoopInv
  <2>2. QED
    BY <1>1, <1>4, <1>6, <1>7, <2>1 DEF LoopFine, Due, Recorded, Settled
<1>10. QED
  BY <1>5, <1>8, <1>9, SendWriteKeeps

(* The record is marked: settled where there was one. *)
LEMMA MarkStep ==
    ASSUME SendInv, NEW k \in SendSlots, MarkSent(k) \/ MarkFailed(k)
    PROVE  SendInv'
<1>1. /\ UNCHANGED <<channels, lastSend, existed>> /\ sends[k].pc = "mark" /\ sends[k] \in SendRow
      /\ Advance(k, Passed(k))
  BY SendRows DEF MarkSent, MarkFailed
<1>2. PICK st \in {"sent", "failed"} : alerts' = Marked(k, st)
  BY DEF MarkSent, MarkFailed
<1>3. PICK n \in Nat : n = sends[k].n
  BY <1>1 DEF SendRow
<1>4. PICK cur \in Channels : cur = Current(k)
  BY <1>1, SendRows
<1>5. ASSUME NEW a \in alerts
      PROVE  \E b \in alerts' : /\ b.n = a.n /\ b.channel = a.channel /\ b \in AlertRow
                                /\ b.status = IF a.n = n /\ a.channel = cur THEN st ELSE a.status
  <2>1. a \in AlertRow
    BY DEF SendInv, SendTypeOK
  <2>2. PICK b : b = IF a.n = n /\ a.channel = cur THEN [a EXCEPT !.status = st] ELSE a
    OBVIOUS
  <2>3. b \in alerts'
    BY <1>2, <1>3, <1>4, <2>2 DEF Marked
  <2>4. b.n = a.n /\ b.channel = a.channel /\ b \in AlertRow /\ b.status = IF a.n = n /\ a.channel = cur THEN st ELSE a.status
    BY <2>1, <2>2 DEF AlertRow
  <2>5. QED
    BY <2>3, <2>4
<1>6. alerts' \subseteq AlertRow
  <2>1. ASSUME NEW b \in alerts' PROVE b \in AlertRow
    <3>1. PICK a \in alerts : b = IF a.n = n /\ a.channel = cur THEN [a EXCEPT !.status = st] ELSE a
      BY <1>2, <1>3, <1>4 DEF Marked
    <3>2. a \in AlertRow
      BY DEF SendInv, SendTypeOK
    <3>3. QED
      BY <3>1, <3>2 DEF AlertRow
  <2>2. QED
    BY <2>1
<1>7. RecordsKept
  BY <1>1, <1>5 DEF RecordsKept, Due, Recorded, Settled
<1>8. Recorded(n, cur) => Settled(n, cur)'
  BY <1>5 DEF Recorded, Settled
<1>9. Due(n, cur)' => Settled(n, cur)'
  <2>1. Due(n, cur)' => Due(n, cur)
    BY <1>1 DEF Due
  <2>2. Due(n, cur) => Recorded(n, cur)
    BY <1>1, <1>3, <1>4 DEF SendInv, LoopInv, LoopFine
  <2>3. QED
    BY <1>8, <2>1, <2>2
<1>10. TablesFine /\ ExistInv'
  BY <1>1, <1>6 DEF TablesFine, SendInv, SendTypeOK, ExistInv, Existing
<1>11. QED
  BY <1>1, <1>3, <1>4, <1>7, <1>9, <1>10, PassKeeps

(* A step that runs no Send further. *)
LEMMA AsideKeeps ==
    ASSUME SendInv, UNCHANGED <<sends, listed>>, TablesFine, RecordsKept, ExistInv'
    PROVE  SendInv'
<1>1. SendTypeOK' /\ NumberInv'
  BY DEF SendInv, SendTypeOK, NumberInv, TablesFine, Running
<1>2. LoopInv'
  BY OthersFine DEF LoopInv
<1>3. EveryListedChannel'
  <2>1. \A f \in listed' : \A c \in f.channels : Due(f.n, c)' => Settled(f.n, c)'
    BY FinishedFine
  <2>2. QED
    BY <2>1 DEF EveryListedChannel, Due, Settled
<1>4. QED
  BY <1>1, <1>2, <1>3 DEF SendInv

(* A channel is made, or deleted with its records. *)
LEMMA ChannelStep ==
    ASSUME SendInv, createChannel \/ (\E c \in Channels : deleteChannel(c)) \/ UNCHANGED alertVars
    PROVE  SendInv'
<1>1. CASE createChannel
  <2>1. PICK c \in Channels : channels' = [channels EXCEPT ![c] = "disabled"]
    BY <1>1 DEF createChannel
  <2>2. UNCHANGED <<sends, listed, alerts, existed, lastSend>>
    BY <1>1 DEF createChannel
  <2>3. TablesFine /\ RecordsKept
    BY <2>1, <2>2, SameRecords DEF TablesFine, SendInv, SendTypeOK
  <2>4. Existing \subseteq Existing'
    BY <2>1 DEF Existing, SendInv, SendTypeOK
  <2>5. ExistInv'
    BY <2>2, <2>4 DEF ExistInv, SendInv
  <2>6. QED
    BY <2>2, <2>3, <2>5, AsideKeeps
<1>2. ASSUME NEW c \in Channels, deleteChannel(c) PROVE SendInv'
  <2>1. /\ channels' = [channels EXCEPT ![c] = "none"] /\ alerts' = {a \in alerts : a.channel # c}
        /\ existed' = {e \in existed : e.channel # c} /\ UNCHANGED <<sends, listed, lastSend>>
    BY <1>2 DEF deleteChannel
  <2>2. TablesFine
    BY <2>1 DEF TablesFine, SendInv, SendTypeOK
  <2>3. RecordsKept
    BY <2>1 DEF RecordsKept, Due, Recorded, Settled
  <2>4. \A d \in Channels \ {c} : channels'[d] = channels[d]
    BY <2>1 DEF SendInv, SendTypeOK
  <2>5. ExistInv'
    BY <2>1, <2>4 DEF ExistInv, SendInv, Existing
  <2>6. QED
    BY <2>1, <2>2, <2>3, <2>5, AsideKeeps
<1>3. CASE UNCHANGED alertVars
  <2>1. UNCHANGED <<channels, sends, listed, alerts, existed, lastSend>>
    BY <1>3 DEF alertVars
  <2>2. TablesFine /\ RecordsKept /\ ExistInv'
    BY <2>1, SameRecords DEF TablesFine, SendInv, SendTypeOK, ExistInv, Existing
  <2>3. QED
    BY <2>1, <2>2, AsideKeeps
<1>4. QED
  BY <1>1, <1>2, <1>3

(* A Send begins, with a number of its own. *)
LEMMA StartSendStep ==
    ASSUME SendInv, NEW k \in SendSlots, StartSend(k)
    PROVE  SendInv'
<1>1. /\ lastSend' = lastSend + 1 /\ sends[k].pc = "free"
      /\ UNCHANGED <<channels, alerts, listed>>
      /\ existed' = existed \cup {[n |-> lastSend + 1, channel |-> c] : c \in Existing}
  BY DEF StartSend
<1>2. PICK new \in Nat : new = lastSend + 1
  BY SendRows
<1>3. PICK row : row = [NoSend EXCEPT !.pc = "list", !.n = new]
  OBVIOUS
<1>4. row \in SendRow /\ row.pc = "list" /\ row.n = new
  BY <1>3 DEF NoSend, SendRow
<1>5. sends' = [sends EXCEPT ![k] = row]
  BY <1>2, <1>3 DEF StartSend
<1>6. sends' \in [SendSlots -> SendRow] /\ sends'[k] = row /\ \A j \in SendSlots \ {k} : sends'[j] = sends[j]
  BY <1>4, <1>5, SendRows
<1>7. \A j \in SendSlots : sends[j].n \in Nat
  BY SendRows DEF SendRow
<1>8. Running' = Running \cup {k} /\ k \notin Running /\ \A j \in Running : sends'[j] = sends[j] /\ sends[j].n <= lastSend
  BY <1>1, <1>4, <1>6 DEF Running, SendInv, NumberInv
<1>9. \A j \in Running : sends[j].n # new
  BY <1>2, <1>7, <1>8, SendRows DEF Running
<1>10. \A f \in listed : f.n \in Nat /\ f.n <= lastSend /\ f.n # new
  BY <1>2, SendRows DEF SendInv, NumberInv, SendTypeOK
<1>11. existed' \subseteq [n : Nat, channel : Channels]
  <2>1. \A c \in Existing : c \in Channels
    BY DEF Existing
  <2>2. QED
    BY <1>1, <1>2, <2>1 DEF SendInv, SendTypeOK
<1>12. SendTypeOK'
  BY <1>1, <1>2, <1>6, <1>11 DEF SendInv, SendTypeOK
<1>13. NumberInv'
  <2>1. \A j \in Running' : sends'[j].n <= lastSend'
    BY <1>1, <1>2, <1>4, <1>6, <1>7, <1>8, SendRows DEF Running
  <2>2. ASSUME NEW j \in Running', NEW i \in Running', sends'[j].n = sends'[i].n PROVE j = i
    BY <1>4, <1>6, <1>8, <1>9, <2>2 DEF SendInv, NumberInv
  <2>3. \A f \in listed' : f.n <= lastSend' /\ \A j \in Running' : sends'[j].n # f.n
    BY <1>1, <1>4, <1>6, <1>8, <1>10, SendRows DEF SendInv, NumberInv
  <2>4. QED
    BY <2>1, <2>2, <2>3 DEF NumberInv
<1>14. ExistInv'
  <2>1. Existing' = Existing
    BY <1>1 DEF Existing
  <2>2. \A e \in existed' : e \in existed \/ e.channel \in Existing
    BY <1>1
  <2>3. QED
    BY <2>1, <2>2 DEF ExistInv, SendInv
<1>15. RecordsKept
  <2> SUFFICES ASSUME NEW n \in Nat, NEW c \in Channels, n <= lastSend, Due(n, c)'
               PROVE  Due(n, c) /\ (Recorded(n, c) => Recorded(n, c)') /\ (Settled(n, c) => Settled(n, c)')
    BY DEF RecordsKept
  <2>1. n # lastSend + 1
    BY SendRows
  <2>2. Due(n, c)
    BY <1>1, <2>1 DEF Due
  <2>3. QED
    BY <1>1, <2>2 DEF Recorded, Settled
<1>16. LoopInv'
  <2>1. LoopFine(k)'
    BY <1>4, <1>6 DEF LoopFine
  <2>2. QED
    BY <1>6, <1>15, <2>1, OthersFine DEF LoopInv
<1>17. EveryListedChannel'
  <2>1. \A f \in listed' : \A c \in f.channels : Due(f.n, c)' => Settled(f.n, c)'
    BY <1>1, <1>15, FinishedFine
  <2>2. QED
    BY <2>1 DEF EveryListedChannel, Due, Settled
<1>18. QED
  BY <1>12, <1>13, <1>14, <1>16, <1>17 DEF SendInv

(* A crash ends every Send; what the finished ones recorded stays. *)
LEMMA CrashSendsStep ==
    ASSUME SendInv, FleetCrash
    PROVE  SendInv'
<1>1. sends' = NoSends /\ UNCHANGED <<channels, alerts, lastSend, listed, existed>>
  BY DEF FleetCrash
<1>2. NoSend \in SendRow /\ NoSend.pc = "free"
  BY DEF NoSend, SendRow
<1>3. \A k \in SendSlots : sends'[k] = NoSend
  BY <1>1 DEF NoSends
<1>4. SendTypeOK'
  BY <1>1, <1>2 DEF SendInv, SendTypeOK, NoSends
<1>5. Running' = {}
  BY <1>2, <1>3 DEF Running
<1>6. NumberInv'
  BY <1>1, <1>5 DEF NumberInv, SendInv
<1>7. LoopInv'
  BY <1>2, <1>3 DEF LoopInv, LoopFine
<1>8. ExistInv' /\ EveryListedChannel'
  BY <1>1 DEF SendInv, ExistInv, Existing, EveryListedChannel
<1>9. QED
  BY <1>4, <1>6, <1>7, <1>8 DEF SendInv

(* Every step of the fleet with its sender keeps the invariant: the others
   leave the sender's variables alone. *)
LEMMA SendInductive == SendInv /\ [FleetNext]_<<fleetVars, alertVars>> => SendInv'
<1> SUFFICES ASSUME SendInv, [FleetNext]_<<fleetVars, alertVars>> PROVE SendInv'
  OBVIOUS
<1>1. ASSUME SendNext PROVE SendInv'
  BY <1>1, ChannelStep, ListStep, CreateAlertStep, MarkStep, DeliverStep DEF SendNext
<1>2. ASSUME NEW k \in SendSlots, CollectorSend(k) \/ \E s \in Servers : Notify(s, k) PROVE SendInv'
  BY <1>2, StartSendStep DEF CollectorSend, Notify
<1>3. ASSUME FleetCrash PROVE SendInv'
  BY <1>3, CrashSendsStep
<1>4. ASSUME UNCHANGED alertVars PROVE SendInv'
  BY <1>4, ChannelStep
<1>5. ASSUME NEW h \in Hosts \cup {"none"}, createServer(h) PROVE UNCHANGED alertVars
  BY <1>5 DEF createServer
<1>6. ASSUME NEW h \in Hosts, \/ Toggle(h) \/ registerAgent(h) \/ FinishInstall(h)
                              \/ ConsumeRegistrationTokenAndCreateServer(h) \/ \E t \in RegTokens : StartAgent(h, t)
      PROVE  UNCHANGED alertVars
  BY <1>6 DEF Toggle, registerAgent, FinishInstall, ConsumeRegistrationTokenAndCreateServer, StartAgent,
     rollback_agent_install, InstallStep
<1>7. ASSUME NEW e \in Edits, \/ update(e) \/ regenerateToken(e)
                              \/ \E op \in {"update", "regenerate"}, s \in Servers : ReadRow(e, op, s)
      PROVE  UNCHANGED alertVars
  BY <1>7 DEF update, regenerateToken, ReadRow, WriteRow
<1>8. ASSUME NEW s \in Servers, \/ deleteServer(s) \/ ConfigureAgent(s) \/ checkServer(s) \/ UpdateHealth(s)
                                \/ UpdateServerStatus(s) \/ ingest(s)
      PROVE  UNCHANGED alertVars
  BY <1>8 DEF deleteServer, ConfigureAgent, checkServer, UpdateHealth, UpdateServerStatus, ingest
<1>9. ASSUME NEW t \in RegTokens, createRegistrationToken(t) \/ Lapse(t) PROVE UNCHANGED alertVars
  BY <1>9 DEF createRegistrationToken, Lapse
<1>10. ASSUME checkAll \/ collectAll \/ collectFromAgent \/ CollectorReturn PROVE UNCHANGED alertVars
  BY <1>10 DEF checkAll, collectAll, collectFromAgent, CollectorReturn
<1>11. CASE FleetNext
  BY <1>1, <1>2, <1>3, <1>4, <1>5, <1>6, <1>7, <1>8, <1>9, <1>10, <1>11 DEF FleetNext
<1>12. QED
  BY <1>4, <1>11

(* A Send that ran to its end left a settled record at every channel it had
   listed and that was not deleted since, through failed deliveries, channels
   deleted under the loop, overlapping Sends and crashes of the process. *)
THEOREM EveryListedChannelHolds == FleetSpec => []EveryListedChannel
<1>1. FleetInit => SendInv
  BY SendInitial DEF FleetInit
<1>2. SendInv => EveryListedChannel
  BY DEF SendInv
<1>3. QED
  BY <1>1, <1>2, SendInductive, PTL DEF FleetSpec

-----------------------------------------------------------------------------
(* The security monitor *)

\* The condition a fingerprint was made of.
Meaning(rule, print) ==
    IF rule = "ssh" THEN {print[1]}
    ELSE IF rule = "integrity"
         THEN {[changed |-> Range(print[1]), missing |-> Range(print[2]), added |-> Range(print[3])]}
    ELSE Range(print)

\* A fingerprint tells which condition it was alerted for.
PrintsTell(ps, ts) == \A r \in Rules : ps[r] # <<>> => ts[r] = Meaning(r, ps[r])

\* While the logs are counted in full, the watermark and the logins since
\* make up what the agent reads.
CountInv ==
    counted => /\ watermark > 0 /\ logs[1] <= LogLimit
               /\ parseSSHLogs = watermark + attempts

\* The variables the argument looks at have their types.
MonitorShape ==
    /\ remoteConns \in SUBSET Remotes
    /\ uids \in SUBSET (Accounts \cup {"root"}) /\ "root" \in uids
    /\ logs \in Nat \X Nat /\ watermark \in Nat /\ attempts \in Nat /\ counted \in BOOLEAN
    /\ DOMAIN prints = Rules /\ DOMAIN told = Rules /\ DOMAIN seen = Rules

MonitorInv == MonitorShape /\ CountInv /\ PrintsTell(prints, told) /\ FoundIsTold

\* The agent's count is a number, whole while the current log is below its limit.
LEMMA CountOfLogs ==
    ASSUME NEW a \in Nat, NEW b \in Nat, logs = <<a, b>>
    PROVE  /\ parseSSHLogs \in Nat
           /\ a <= LogLimit => parseSSHLogs = a + (IF b > LogLimit THEN LogLimit ELSE b)
  BY MonitorAssumption DEF parseSSHLogs

\* An ordering of a finite set lists all of it, and nothing only when it is empty.
LEMMA OrderingListsAll ==
    ASSUME NEW S, IsFiniteSet(S), NEW f \in [1..Cardinality(S) -> S],
           \A i, j \in 1..Cardinality(S) : i # j => f[i] # f[j]
    PROVE  /\ Range(f) = S
           /\ S # {} => f # <<>>
  <1>1. Cardinality(S) \in Nat
    BY FS_CardinalityType
  <1>2. IsFiniteSet(1..Cardinality(S)) /\ Cardinality(1..Cardinality(S)) = Cardinality(S)
    BY <1>1, FS_Interval
  <1>3. f \in Injection(1..Cardinality(S), S)
    BY DEF Injection, IsInjective
  <1>4. f \in Surjection(1..Cardinality(S), S)
    BY <1>2, <1>3, FS_Injection
  <1>5. Range(f) = S
    BY <1>4 DEF Surjection, Range
  <1>6. ASSUME f = <<>> PROVE S = {}
    <2>1. DOMAIN f = {}
      BY <1>6
    <2>2. QED
      BY <2>1, <1>5 DEF Range
  <1>7. QED
    BY <1>5, <1>6

LEMMA AnyOrderListsAll ==
    ASSUME NEW S, IsFiniteSet(S), NEW f \in AnyOrder(S)
    PROVE  Range(f) = S /\ (S # {} => f # <<>>)
  <1>1. /\ f \in [1..Cardinality(S) -> S]
        /\ \A i, j \in 1..Cardinality(S) : i # j => f[i] # f[j]
    BY DEF AnyOrder, SetToSeqs
  <1>2. QED
    BY <1>1, OrderingListsAll

\* The order of /etc/passwd lists every account.
LEMMA SetToSeqListsAll ==
    ASSUME NEW S, IsFiniteSet(S)
    PROVE  Range(SetToSeq(S)) = S /\ (S # {} => SetToSeq(S) # <<>>)
  <1>1. ExistsBijection(1..Cardinality(S), S)
    BY FS_CardinalityType
  <1>2. \E f \in [1..Cardinality(S) -> S] : IsInjective(f)
    BY <1>1 DEF ExistsBijection, Bijection, Injection
  <1>3. PICK f : f = SetToSeq(S)
    OBVIOUS
  <1>4. f \in [1..Cardinality(S) -> S] /\ IsInjective(f)
    BY <1>2, <1>3 DEF SetToSeq
  <1>5. \A i, j \in 1..Cardinality(S) : i # j => f[i] # f[j]
    BY <1>4 DEF IsInjective
  <1>6. QED
    BY <1>3, <1>4, <1>5, OrderingListsAll

\* An alert that names a condition leaves a fingerprint of it, and the condition as the one told.
LEMMA AlertTells ==
    ASSUME NEW rule \in Rules, NEW print, NEW what,
           print # <<>>, what = Meaning(rule, print),
           MonitorShape, PrintsTell(prints, told), alertOnce(rule, print, what)
    PROVE  /\ DOMAIN prints' = Rules /\ DOMAIN told' = Rules
           /\ PrintsTell(prints', told')
           /\ told'[rule] = what
           /\ \A r \in Rules \ {rule} : told'[r] = told[r]
  <1>1. CASE prints[rule] = print
    <2>1. prints' = prints /\ told' = told
      BY <1>1 DEF alertOnce
    <2>2. told[rule] = what
      BY <1>1 DEF PrintsTell
    <2>3. QED
      BY <2>1, <2>2 DEF MonitorShape
  <1>2. CASE prints[rule] # print
    <2>1. prints' = [prints EXCEPT ![rule] = print] /\ told' = [told EXCEPT ![rule] = what]
      BY <1>2 DEF alertOnce
    <2>2. /\ DOMAIN prints' = Rules /\ DOMAIN told' = Rules
          /\ prints'[rule] = print /\ told'[rule] = what
          /\ \A r \in Rules \ {rule} : prints'[r] = prints[r] /\ told'[r] = told[r]
      BY <2>1 DEF MonitorShape
    <2>3. QED
      BY <2>2 DEF PrintsTell
  <1>3. QED
    BY <1>1, <1>2

\* A look records what its rule found and no other rule's.
LEMMA LookRecords ==
    ASSUME NEW rule \in Rules, NEW what, MonitorShape, FoundIsTold, Found(rule, what),
           \A r \in Rules \ {rule} : told'[r] = told[r],
           what # {} => told'[rule] = what
    PROVE  DOMAIN seen' = Rules /\ FoundIsTold'
  <1>1. /\ DOMAIN seen' = Rules /\ seen'[rule] = what
        /\ \A r \in Rules \ {rule} : seen'[r] = seen[r]
    BY DEF Found, MonitorShape
  <1>2. QED
    BY <1>1 DEF FoundIsTold

\* The state the panel keeps is untouched: what the rules told and saw stands.
LEMMA StandsAsTold ==
    ASSUME MonitorInv, UNCHANGED <<prints, told, seen>>
    PROVE  /\ DOMAIN prints' = Rules /\ DOMAIN told' = Rules /\ DOMAIN seen' = Rules
           /\ PrintsTell(prints', told') /\ FoundIsTold'
  BY DEF MonitorInv, MonitorShape, PrintsTell, FoundIsTold

LEMMA CountStands ==
    ASSUME MonitorInv, UNCHANGED <<logs, watermark, attempts, counted>>
    PROVE  CountInv' /\ logs' \in Nat \X Nat /\ watermark' \in Nat /\ attempts' \in Nat /\ counted' \in BOOLEAN
  BY DEF MonitorInv, MonitorShape, CountInv, parseSSHLogs

LEMMA HostStands ==
    ASSUME MonitorInv, UNCHANGED <<remoteConns, uids>>
    PROVE  /\ remoteConns' \in SUBSET Remotes
           /\ uids' \in SUBSET (Accounts \cup {"root"}) /\ "root" \in uids'
  BY DEF MonitorInv, MonitorShape

LEMMA MonitorInitInv == MonitorInit => MonitorInv
  <1> SUFFICES ASSUME MonitorInit PROVE MonitorInv
    OBVIOUS
  <1>1. MonitorShape
    BY DEF MonitorInit, MonitorShape
  <1>2. CountInv
    BY DEF MonitorInit, CountInv
  <1>3. PrintsTell(prints, told) /\ FoundIsTold
    BY DEF MonitorInit, PrintsTell, FoundIsTold
  <1>4. QED
    BY <1>1, <1>2, <1>3 DEF MonitorInv

LEMMA LoginsKeep ==
    ASSUME MonitorInv, NEW n \in Nat, FailedLogins(n)
    PROVE  CountInv' /\ logs' \in Nat \X Nat /\ attempts' \in Nat /\ counted' \in BOOLEAN /\ watermark' \in Nat
  <1>1. PICK a \in Nat, b \in Nat : logs = <<a, b>>
    BY DEF MonitorInv, MonitorShape
  <1>2. /\ logs' = <<a + n, b>> /\ attempts' = attempts + n /\ watermark' = watermark
        /\ counted' = (counted /\ a + n <= LogLimit)
        /\ attempts \in Nat /\ watermark \in Nat /\ counted \in BOOLEAN
    BY <1>1 DEF FailedLogins, PanelUnchanged, MonitorInv, MonitorShape
  <1>3. ASSUME counted' PROVE parseSSHLogs' = watermark' + attempts' /\ watermark' > 0 /\ logs'[1] <= LogLimit
    <2>1. /\ parseSSHLogs = watermark + attempts /\ watermark > 0 /\ a + n <= LogLimit /\ a <= LogLimit
      BY <1>1, <1>2, <1>3, MonitorAssumption DEF MonitorInv, CountInv
    <2>2. parseSSHLogs = a + (IF b > LogLimit THEN LogLimit ELSE b)
      BY <1>1, <2>1, CountOfLogs
    <2>3. parseSSHLogs' = a + n + (IF b > LogLimit THEN LogLimit ELSE b)
      BY <1>2, <2>1, MonitorAssumption DEF parseSSHLogs
    <2>4. QED
      BY <1>2, <2>1, <2>2, <2>3, MonitorAssumption
  <1>4. QED
    BY <1>2, <1>3 DEF CountInv

\* The look at the logs: while they are counted in full, the rise of the
\* count is the number of failed logins, and a burst of them is told.
LEMMA checkSSHKeeps ==
    ASSUME MonitorInv, checkSSH
    PROVE  MonitorInv'
  <1> USE DEF MonitorInv
  <1>1. PICK a \in Nat, b \in Nat : logs = <<a, b>>
    BY DEF MonitorShape
  <1>2. parseSSHLogs \in Nat
    BY <1>1, CountOfLogs
  <1>3. PICK d : d = FailedDelta
    OBVIOUS
  <1>4. d \in Nat /\ (counted => watermark > 0 /\ d = attempts)
    BY <1>2, <1>3 DEF FailedDelta, CountInv, MonitorShape
  <1>5. PICK what : what = (IF counted /\ attempts >= Burst THEN {attempts} ELSE {})
    OBVIOUS
  <1>6. Found("ssh", what)
    BY <1>5 DEF checkSSH
  <1>7. /\ DOMAIN prints' = Rules /\ DOMAIN told' = Rules
        /\ PrintsTell(prints', told')
        /\ what # {} => told'["ssh"] = what
        /\ \A r \in Rules \ {"ssh"} : told'[r] = told[r]
    <2>1. CASE watermark > 0 /\ d >= Burst
      <3>1. alertOnce("ssh", <<d>>, {d})
        BY <1>3, <2>1 DEF checkSSH
      <3>2. <<d>> # <<>> /\ {d} = Meaning("ssh", <<d>>) /\ "ssh" \in Rules
        BY DEF Meaning, Rules
      <3>3. what # {} => what = {d}
        BY <1>4, <1>5
      <3>4. QED
        BY <3>1, <3>2, <3>3, AlertTells
    <2>2. CASE ~(watermark > 0 /\ d >= Burst)
      <3>1. UNCHANGED <<prints, told>>
        BY <1>3, <2>2 DEF checkSSH, Quiet
      <3>2. what = {}
        BY <1>4, <1>5, <2>2
      <3>3. QED
        BY <3>1, <3>2 DEF MonitorShape
    <2>3. QED
      BY <2>1, <2>2
  <1>8. DOMAIN seen' = Rules /\ FoundIsTold'
    BY <1>6, <1>7, LookRecords DEF Rules
  <1>9. /\ watermark' \in Nat /\ attempts' \in Nat /\ logs' \in Nat \X Nat /\ counted' \in BOOLEAN
        /\ remoteConns' \in SUBSET Remotes
        /\ uids' \in SUBSET (Accounts \cup {"root"}) /\ "root" \in uids'
    BY <1>2 DEF checkSSH, MonitorShape
  <1>10. CountInv'
    <2>1. /\ parseSSHLogs' = parseSSHLogs /\ watermark' = parseSSHLogs /\ attempts' = 0 /\ logs' = logs
          /\ counted' = (parseSSHLogs > 0 /\ logs[1] <= LogLimit)
      BY DEF checkSSH, parseSSHLogs
    <2>2. PICK total : total = parseSSHLogs
      OBVIOUS
    <2>3. total \in Nat /\ parseSSHLogs' = total /\ watermark' = total /\ total = total + 0
      BY <1>2, <2>1, <2>2
    <2>4. counted' => total > 0 /\ logs'[1] <= LogLimit
      BY <2>1, <2>2
    <2>5. QED
      BY <2>1, <2>3, <2>4 DEF CountInv
  <1>11. QED
    BY <1>7, <1>8, <1>9, <1>10 DEF MonitorShape

\* The look at the files: the fingerprint of a drift lists its three parts.
LEMMA checkIntegrityKeeps ==
    ASSUME MonitorInv, checkIntegrity
    PROVE  MonitorInv'
  <1> USE DEF MonitorInv
  <1>1. PICK d : d = Drift(mon.base)
    OBVIOUS
  <1>2. /\ d = [changed |-> d.changed, missing |-> d.missing, added |-> d.added]
        /\ d.changed \in SUBSET Paths /\ d.missing \in SUBSET Paths /\ d.added \in SUBSET Paths
    BY <1>1 DEF Drift
  <1>3. IsFiniteSet(d.changed) /\ IsFiniteSet(d.missing) /\ IsFiniteSet(d.added)
    BY <1>2, FS_Subset, MonitorAssumption
  <1>4. PICK what : what = (IF d.changed \cup d.missing \cup d.added = {} THEN {} ELSE {d})
    OBVIOUS
  <1>5. Found("integrity", what)
    BY <1>1, <1>4 DEF checkIntegrity
  <1>6. /\ DOMAIN prints' = Rules /\ DOMAIN told' = Rules
        /\ PrintsTell(prints', told')
        /\ what # {} => told'["integrity"] = what
        /\ \A r \in Rules \ {"integrity"} : told'[r] = told[r]
    <2>1. CASE d.changed \cup d.missing \cup d.added = {}
      <3>1. UNCHANGED <<prints, told>>
        BY <1>1, <2>1 DEF checkIntegrity, Quiet
      <3>2. what = {}
        BY <1>4, <2>1
      <3>3. QED
        BY <3>1, <3>2 DEF MonitorShape
    <2>2. CASE d.changed \cup d.missing \cup d.added # {}
      <3>1. PICK print \in Prints(d) : alertOnce("integrity", print, {d})
        BY <1>1, <2>2 DEF checkIntegrity
      <3>2. PICK c \in AnyOrder(d.changed), m \in AnyOrder(d.missing), a \in AnyOrder(d.added) :
                print = <<c, m, a>>
        BY <3>1 DEF Prints
      <3>3. Range(c) = d.changed /\ Range(m) = d.missing /\ Range(a) = d.added
        BY <1>3, <3>2, AnyOrderListsAll
      <3>4. {d} = Meaning("integrity", print) /\ print # <<>>
        BY <1>2, <3>2, <3>3 DEF Meaning
      <3>5. what = {d}
        BY <1>4, <2>2
      <3>6. QED
        BY <3>1, <3>4, <3>5, AlertTells DEF Rules
    <2>3. QED
      BY <2>1, <2>2
  <1>7. DOMAIN seen' = Rules /\ FoundIsTold'
    BY <1>5, <1>6, LookRecords DEF Rules
  <1>8. UNCHANGED <<remoteConns, uids, logs, attempts, counted, watermark>>
    BY DEF checkIntegrity, serverVars
  <1>9. QED
    BY <1>6, <1>7, <1>8, CountStands, HostStands DEF MonitorShape

LEMMA checkConnectionsKeeps ==
    ASSUME MonitorInv, checkConnections
    PROVE  MonitorInv'
  <1> USE DEF MonitorInv
  <1>1. IsFiniteSet(remoteConns)
    BY FS_Subset, MonitorAssumption DEF MonitorShape
  <1>2. PICK what : what = remoteConns
    OBVIOUS
  <1>3. Found("connections", what)
    BY <1>2 DEF checkConnections
  <1>4. /\ DOMAIN prints' = Rules /\ DOMAIN told' = Rules
        /\ PrintsTell(prints', told')
        /\ what # {} => told'["connections"] = what
        /\ \A r \in Rules \ {"connections"} : told'[r] = told[r]
    <2>1. CASE what = {}
      <3>1. UNCHANGED <<prints, told>>
        BY <1>2, <2>1 DEF checkConnections, Quiet
      <3>2. QED
        BY <2>1, <3>1 DEF MonitorShape
    <2>2. CASE what # {}
      <3>1. PICK print \in AnyOrder(what) : alertOnce("connections", print, what)
        BY <1>2, <2>2 DEF checkConnections
      <3>2. Range(print) = what /\ print # <<>>
        BY <1>1, <1>2, <2>2, AnyOrderListsAll
      <3>3. what = Meaning("connections", print)
        BY <3>2 DEF Meaning
      <3>4. QED
        BY <3>1, <3>2, <3>3, AlertTells DEF Rules
    <2>3. QED
      BY <2>1, <2>2
  <1>5. DOMAIN seen' = Rules /\ FoundIsTold'
    BY <1>3, <1>4, LookRecords DEF Rules
  <1>6. UNCHANGED <<remoteConns, uids, logs, attempts, counted, watermark>>
    BY DEF checkConnections, serverVars
  <1>7. QED
    BY <1>4, <1>5, <1>6, CountStands, HostStands DEF MonitorShape

LEMMA checkPersistenceKeeps ==
    ASSUME MonitorInv, checkPersistence
    PROVE  MonitorInv'
  <1> USE DEF MonitorInv
  <1>1. IsFiniteSet(uids) /\ uids # {}
    <2>1. IsFiniteSet(Accounts \cup {"root"})
      BY FS_AddElement, MonitorAssumption
    <2>2. QED
      BY <2>1, FS_Subset DEF MonitorShape
  <1>2. PICK what : what = uids
    OBVIOUS
  <1>3. PICK print : print = SetToSeq(what)
    OBVIOUS
  <1>4. Found("uid0", what) /\ alertOnce("uid0", print, what)
    BY <1>2, <1>3 DEF checkPersistence
  <1>5. Range(print) = what /\ print # <<>>
    BY <1>1, <1>2, <1>3, SetToSeqListsAll
  <1>6. what = Meaning("uid0", print)
    BY <1>5 DEF Meaning
  <1>7. /\ DOMAIN prints' = Rules /\ DOMAIN told' = Rules
        /\ PrintsTell(prints', told')
        /\ told'["uid0"] = what
        /\ \A r \in Rules \ {"uid0"} : told'[r] = told[r]
    BY <1>4, <1>5, <1>6, AlertTells DEF Rules
  <1>8. DOMAIN seen' = Rules /\ FoundIsTold'
    BY <1>4, <1>7, LookRecords DEF Rules
  <1>9. UNCHANGED <<remoteConns, uids, logs, attempts, counted, watermark>>
    BY DEF checkPersistence, serverVars
  <1>10. QED
    BY <1>7, <1>8, <1>9, CountStands, HostStands DEF MonitorShape

LEMMA MonitorNextInv == MonitorInv /\ [MonitorNext]_monitorVars => MonitorInv'
  <1> SUFFICES ASSUME MonitorInv, [MonitorNext]_monitorVars PROVE MonitorInv'
    OBVIOUS
  <1>1. CASE UNCHANGED monitorVars
    <2>1. UNCHANGED <<prints, told, seen, remoteConns, uids, logs, attempts, counted, watermark>>
      BY <1>1 DEF monitorVars
    <2>2. QED
      BY <2>1, StandsAsTold, CountStands, HostStands DEF MonitorInv, MonitorShape
  <1>2. ASSUME NEW p \in Paths, NEW h \in Hashes \cup {"absent"}, WriteFile(p, h) PROVE MonitorInv'
    <2>1. UNCHANGED <<prints, told, seen, remoteConns, uids, logs, attempts, counted, watermark>>
      BY <1>2 DEF WriteFile, PanelUnchanged
    <2>2. QED
      BY <2>1, StandsAsTold, CountStands, HostStands DEF MonitorInv, MonitorShape
  <1>3. ASSUME NEW S \in SUBSET Remotes, Connect(S) PROVE MonitorInv'
    <2>1. UNCHANGED <<prints, told, seen, uids, logs, attempts, counted, watermark>> /\ remoteConns' = S
      BY <1>3 DEF Connect, PanelUnchanged
    <2>2. uids' \in SUBSET (Accounts \cup {"root"}) /\ "root" \in uids'
      BY <2>1 DEF MonitorInv, MonitorShape
    <2>3. QED
      BY <2>1, <2>2, StandsAsTold, CountStands DEF MonitorInv, MonitorShape
  <1>4. ASSUME NEW S \in SUBSET Accounts, ChangeAccounts({"root"} \cup S) PROVE MonitorInv'
    <2>1. /\ UNCHANGED <<prints, told, seen, remoteConns, logs, attempts, counted, watermark>>
          /\ uids' = {"root"} \cup S
      BY <1>4 DEF ChangeAccounts, PanelUnchanged
    <2>2. remoteConns' \in SUBSET Remotes
      BY <2>1 DEF MonitorInv, MonitorShape
    <2>3. QED
      BY <2>1, <2>2, StandsAsTold, CountStands DEF MonitorInv, MonitorShape
  <1>5. ASSUME NEW n \in {1, Burst, Burst + 1}, FailedLogins(n) PROVE MonitorInv'
    <2>1. n \in Nat
      BY MonitorAssumption
    <2>2. UNCHANGED <<prints, told, seen, remoteConns, uids>>
      BY <1>5 DEF FailedLogins, PanelUnchanged
    <2>3. QED
      BY <1>5, <2>1, <2>2, LoginsKeep, StandsAsTold, HostStands DEF MonitorInv, MonitorShape
  <1>6. CASE Rotate
    <2>1. /\ UNCHANGED <<prints, told, seen, remoteConns, uids, attempts, watermark>>
          /\ logs' = <<0, logs[1]>> /\ counted' = FALSE
      BY <1>6 DEF Rotate, PanelUnchanged
    <2>2. logs' \in Nat \X Nat /\ CountInv' /\ attempts' \in Nat /\ watermark' \in Nat /\ counted' \in BOOLEAN
      BY <2>1 DEF MonitorInv, MonitorShape, CountInv
    <2>3. QED
      BY <2>1, <2>2, StandsAsTold, HostStands DEF MonitorInv, MonitorShape
  <1>7. CASE saveBaselineFetch \/ saveBaseline \/ collectServer \/ readBaseline
    <2>1. UNCHANGED <<prints, told, seen, remoteConns, uids, logs, attempts, counted, watermark>>
      BY <1>7 DEF saveBaselineFetch, saveBaseline, collectServer, readBaseline, serverVars, Quiet
    <2>2. QED
      BY <2>1, StandsAsTold, CountStands, HostStands DEF MonitorInv, MonitorShape
  <1>8. ASSUME NEW r, NEW n, Skip(r, n) PROVE MonitorInv'
    <2>1. UNCHANGED <<prints, told, seen, remoteConns, uids, logs, attempts, counted, watermark>>
      BY <1>8 DEF Skip, serverVars, Quiet
    <2>2. QED
      BY <2>1, StandsAsTold, CountStands, HostStands DEF MonitorInv, MonitorShape
  <1>9. CASE MonitorCrash
    <2>1. /\ UNCHANGED <<remoteConns, uids, logs>>
          /\ prints' = [r \in Rules |-> <<>>] /\ told' = [r \in Rules |-> {}] /\ seen' = [r \in Rules |-> {}]
          /\ watermark' = 0 /\ attempts' = 0 /\ counted' = FALSE
      BY <1>9 DEF MonitorCrash
    <2>2. PrintsTell(prints', told') /\ FoundIsTold' /\ CountInv'
      BY <2>1 DEF PrintsTell, FoundIsTold, CountInv
    <2>3. MonitorShape'
      BY <2>1 DEF MonitorInv, MonitorShape
    <2>4. QED
      BY <2>2, <2>3 DEF MonitorInv
  <1>10. QED
    BY <1>1, <1>2, <1>3, <1>4, <1>5, <1>6, <1>7, <1>8, <1>9,
       checkSSHKeeps, checkIntegrityKeeps, checkConnectionsKeeps, checkPersistenceKeeps DEF MonitorNext

\* What each rule of collectServer found at its last look is what it alerted
\* last, whatever changed on the server, whatever baseline was saved, which
\* requests failed and when the backend restarted: an equal fingerprint means
\* an equal condition.
THEOREM FoundIsToldHolds == MonitorSpec => []FoundIsTold
  <1>1. MonitorInv => FoundIsTold
    BY DEF MonitorInv
  <1>2. QED
    BY <1>1, MonitorInitInv, MonitorNextInv, PTL DEF MonitorSpec

=============================================================================
