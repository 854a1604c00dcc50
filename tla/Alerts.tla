------------------------------- MODULE Alerts -------------------------------
(***************************************************************************)
(* Notification channels and the sender (internal/notify): Send lists the  *)
(* enabled channels, and for one channel after the other inserts an alert  *)
(* record, calls the notifier and marks the record.  Several Sends run at  *)
(* once (each health check is a goroutine), and a crash ends them all.     *)
(*                                                                         *)
(* The API creates channels disabled and has no route that enables one, so *)
(* the enabled channels of the initial state were enabled in the database  *)
(* by hand.                                                                *)
(***************************************************************************)
EXTENDS Naturals, Sequences, FiniteSets, FiniteSetsExt

CONSTANTS
    Channels,   \* channel ids that may be given out (1..n)
    Configs,    \* channel configurations: Hook, or the fields of an email's
    Environments, \* the SIGARDAPANEL_SMTP_* variables of the process
    SendSlots,  \* bound: Sends that run at once
    AlertLoads  \* bound: how often each request or fault occurs

ASSUME AlertsAssumption == Channels \subseteq Nat

VARIABLES
    channels,  \* alert_channels: "none", "disabled" or "enabled"
    lastChannel, \* the AUTOINCREMENT counter
    config,    \* the configuration of each channel
    env,       \* the environment
    alerts,    \* the alerts table
    sends,     \* the running Sends
    lastSend,  \* number of Sends so far, to tell them apart
    listed,    \* history: the channels each finished Send had listed
    existed,   \* history: the channels that existed when each Send began and were not deleted since
    alertLoad

alertVars == <<channels, lastChannel, config, env, alerts, sends, lastSend, listed, existed, alertLoad>>
mailVars == <<config, env>>

NoSend == [pc |-> "free", n |-> 0, todo |-> {}, all |-> {}, ok |-> FALSE]
NoSends == [k \in SendSlots |-> NoSend]
Hook == [type |-> "hook"]     \* telegram, discord, webhook: an HTTP request
Existing == {c \in Channels : channels[c] # "none"}

-----------------------------------------------------------------------------
(* What a channel's configuration and the SMTP server make of an email     *)

\* The configuration as the notifier sees it: what the channel leaves out comes from the environment.
applyEnvDefaults(cfg, vars0) ==
    LET Or(field) == IF cfg[field] = "" THEN vars0[field] ELSE cfg[field]
        tls == IF Or("tls") = "" THEN "starttls" ELSE Or("tls")
        user == Or("user")
    IN  [host |-> Or("host"), tls |-> tls, user |-> user, to |-> cfg.to,
         from |-> IF Or("from") = "" THEN user ELSE Or("from")]

\* createChannel accepts an email configuration; the host, the user and the environment are not looked at.
validateChannelConfig(cfg) ==
    cfg.type = "email" => /\ cfg.to # "" /\ cfg.to # "bad"
                          /\ cfg.from # "bad"
                          /\ cfg.tls \in {"", "starttls", "ssl", "none"}

\* The checks of EmailNotifier.Send and of sendSMTP, in order; the steps are what the server sees.
sendSMTP(c, server) ==
    LET connect == IF c.tls = "ssl" THEN <<"tls">> ELSE <<"plain">>
        secured == IF c.tls = "starttls" THEN Append(connect, "tls") ELSE connect
        login == IF c.user # "" THEN Append(secured, "auth") ELSE secured
    IN  CASE c.host = "" \/ c.tls \notin {"starttls", "ssl", "none"} -> <<>>
          [] c.to = "bad" \/ c.from \in {"", "bad"} -> <<>>
          [] c.tls = "starttls" /\ ~server.starttls -> connect
          [] c.user # "" /\ c.tls = "none" -> secured
          [] c.user # "" /\ ~server.accepts -> login
          [] OTHER -> Append(login, "mail")

-----------------------------------------------------------------------------

AlertsInit ==
    /\ \E made \in SUBSET Channels, on \in SUBSET Channels :
          /\ on \subseteq made /\ \A c \in made, d \in Channels : d < c => d \in made
          /\ channels = [c \in Channels |-> IF c \in on THEN "enabled" ELSE IF c \in made THEN "disabled" ELSE "none"]
          /\ lastChannel = Cardinality(made)
    /\ config \in [Channels -> Configs] /\ env \in Environments
    /\ \A c \in Channels : validateChannelConfig(config[c])
    /\ alerts = {} /\ sends = NoSends /\ lastSend = 0 /\ listed = {} /\ existed = {}
    /\ alertLoad \in AlertLoads

SpendAlert(op) ==
    /\ op \in DOMAIN alertLoad /\ alertLoad[op] > 0
    /\ alertLoad' = [alertLoad EXCEPT ![op] = @ - 1]

-----------------------------------------------------------------------------
(* Requests *)

\* The struct leaves Enabled out, and Create inserts it: the channel is disabled.
createChannel ==
    LET c == lastChannel + 1
    IN  /\ SpendAlert("createChannel") /\ c \in Channels /\ lastChannel' = c
        /\ channels' = [channels EXCEPT ![c] = "disabled"]
        /\ UNCHANGED <<mailVars, alerts, sends, lastSend, listed, existed>>

\* ON DELETE CASCADE takes the channel's alerts along.
deleteChannel(c) ==
    /\ SpendAlert("deleteChannel") /\ c \in Existing
    /\ channels' = [channels EXCEPT ![c] = "none"]
    /\ alerts' = {a \in alerts : a.channel # c}
    /\ existed' = {e \in existed : e.channel # c}
    /\ UNCHANGED <<lastChannel, mailVars, sends, lastSend, listed>>

-----------------------------------------------------------------------------
(* Send *)

\* A caller (the health checker, the metrics collector, the security collector) calls Send.
StartSend(k) ==
    /\ sends[k].pc = "free"
    /\ lastSend' = lastSend + 1
    /\ sends' = [sends EXCEPT ![k] = [NoSend EXCEPT !.pc = "list", !.n = lastSend + 1]]
    /\ existed' = existed \cup {[n |-> lastSend + 1, channel |-> c] : c \in Existing}
    /\ UNCHANGED <<channels, lastChannel, mailVars, alerts, listed, alertLoad>>

\* The loop is at the next channel, or done.
Advance(k, send) ==
    IF send.todo = {}
    THEN /\ sends' = [sends EXCEPT ![k] = NoSend]
         /\ listed' = listed \cup {[n |-> send.n, channels |-> send.all]}
    ELSE /\ sends' = [sends EXCEPT ![k] = [send EXCEPT !.pc = "create"]]
         /\ UNCHANGED listed

ListChannels(k) ==
    LET on == {c \in Existing : channels[c] = "enabled"}
    IN  /\ sends[k].pc = "list"
        /\ Advance(k, [sends[k] EXCEPT !.todo = on, !.all = on])
        /\ UNCHANGED <<channels, lastChannel, mailVars, alerts, lastSend, existed, alertLoad>>

Current(k) == Min(sends[k].todo)
Passed(k) == [sends[k] EXCEPT !.todo = @ \ {Current(k)}]

\* The foreign key refuses a record for a channel that was deleted meanwhile; the loop goes on.
CreateAlert(k) ==
    /\ sends[k].pc = "create"
    /\ IF Current(k) \in Existing
       THEN /\ alerts' = alerts \cup {[n |-> sends[k].n, channel |-> Current(k), status |-> "pending"]}
            /\ sends' = [sends EXCEPT ![k].pc = "deliver"]
            /\ UNCHANGED listed
       ELSE Advance(k, Passed(k)) /\ UNCHANGED alerts
    /\ UNCHANGED <<channels, lastChannel, mailVars, lastSend, existed, alertLoad>>

\* The notifiers of an HTTP request: an answer below 400, or a fault of the load.
DeliverHook(k, ok) ==
    /\ sends[k].pc = "deliver" /\ config[Current(k)] = Hook
    /\ IF ok THEN UNCHANGED alertLoad ELSE SpendAlert("undelivered")
    /\ sends' = [sends EXCEPT ![k].pc = "mark", ![k].ok = ok]
    /\ UNCHANGED <<channels, lastChannel, mailVars, alerts, lastSend, listed, existed>>

SmtpServers == [starttls : BOOLEAN, accepts : BOOLEAN]

DeliverEmail(k, server) ==
    LET steps == sendSMTP(applyEnvDefaults(config[Current(k)], env), server)
    IN  /\ sends[k].pc = "deliver" /\ config[Current(k)] # Hook
        /\ sends' = [sends EXCEPT ![k].pc = "mark", ![k].ok = (steps # <<>> /\ steps[Len(steps)] = "mail")]
        /\ UNCHANGED <<channels, lastChannel, mailVars, alerts, lastSend, listed, existed, alertLoad>>

Marked(k, status) ==
    {IF a.n = sends[k].n /\ a.channel = Current(k) THEN [a EXCEPT !.status = status] ELSE a : a \in alerts}

MarkSent(k) ==
    /\ sends[k].pc = "mark" /\ sends[k].ok
    /\ alerts' = Marked(k, "sent")
    /\ Advance(k, Passed(k))
    /\ UNCHANGED <<channels, lastChannel, mailVars, lastSend, existed, alertLoad>>

\* Mutant: the first channel that fails ends the loop.
MarkFailedStop(k) ==
    /\ sends[k].pc = "mark" /\ ~sends[k].ok
    /\ alerts' = Marked(k, "failed")
    /\ Advance(k, [sends[k] EXCEPT !.todo = {}])
    /\ UNCHANGED <<channels, lastChannel, mailVars, lastSend, existed, alertLoad>>

MarkFailed(k) ==
    /\ sends[k].pc = "mark" /\ ~sends[k].ok
    /\ alerts' = Marked(k, "failed")
    /\ Advance(k, Passed(k))
    /\ UNCHANGED <<channels, lastChannel, mailVars, lastSend, existed, alertLoad>>

SendNext ==
    \/ createChannel \/ \E c \in Channels : deleteChannel(c)
    \/ \E k \in SendSlots : \/ ListChannels(k) \/ CreateAlert(k) \/ MarkSent(k) \/ MarkFailed(k)
                            \/ \E ok \in BOOLEAN : DeliverHook(k, ok)
                            \/ \E server \in SmtpServers : DeliverEmail(k, server)

\* The sender alone, called from anywhere.
AlertsNext == SendNext \/ \E k \in SendSlots : lastSend < Cardinality(SendSlots) /\ StartSend(k)

-----------------------------------------------------------------------------
(* A Send that ran to its end leaves a settled record at every channel it  *)
(* found enabled and that still exists, whatever happened at the channels  *)
(* before: a failed delivery, a channel deleted under the loop, another    *)
(* Send that overlaps.                                                     *)
EveryListedChannel ==
    \A f \in listed : \A c \in f.channels :
        [n |-> f.n, channel |-> c] \in existed =>
            \E a \in alerts : a.n = f.n /\ a.channel = c /\ a.status \in {"sent", "failed"}

=============================================================================
