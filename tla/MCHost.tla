------------------------------- MODULE MCHost -------------------------------
(* What the panel does to a host.  The components share no state, so each  *)
(* behaviour exercises one of them, part, while the others rest; its load  *)
(* bounds how often each operation and fault occurs.                       *)
EXTENDS Sites, Vhosts, SshUsers, Certificates, Transfers, Containers, FileManager, TLC

CONSTANTS d1, r1, Parts
VARIABLE part

Rest == "rest" :> 0

\* Sites: one domain is deployed and deleted, again and again.
MCRequests == {r1}
MCDomains == {d1}
MCWorkload == {"site.create", "site.delete"}
MCFaults == {"insert", "crash"}

MCVLoads ==
    {Rest, "update" :> 2 @@ "validate" :> 1 @@ "readonly" :> 1,
     "update" :> 1 @@ "validate" :> 2 @@ "crash" :> 1,
     "security" :> 2 @@ "deploy" :> 1, "security" :> 1 @@ "update" :> 1 @@ "deploy" :> 1,
     "bots" :> 2 @@ "security" :> 1, "bots" :> 3 @@ "update" :> 1}

MCDirs == <<"usr", "site">>
MCExtends == {<<"web", "web2">>}
MCSshLoads ==
    {Rest, "create" :> 2 @@ "delete" :> 2 @@ "reboot" :> 1,
     "create" :> 2 @@ "delete" :> 1 @@ "crash" :> 1 @@ "insert" :> 1,
     "create" :> 2 @@ "delete" :> 1 @@ "mkdir" :> 1}

MCCertLoads ==
    {Rest, "tick" :> 2 @@ "issue" :> 1 @@ "insert" :> 1, "tick" :> 1 @@ "all" :> 1 @@ "toggle" :> 1,
     "tick" :> 2 @@ "renew" :> 1 @@ "certbot" :> 1}

MCMadeBy == [u \in Owners |-> "admin"]
MCTransferLoads ==
    {Rest, "transfer" :> 3 @@ "device" :> 2 @@ "copy" :> 1 @@ "database" :> 1,
     "transfer" :> 2 @@ "device" :> 1 @@ "deploy" :> 1,
     "transfer" :> 3 @@ "device" :> 2 @@ "crash" :> 1}

\* Two sites of one name; a request with a port of its own, and one with a name.
MCSiteName == 1 :> "site-a" @@ 2 :> "site-a"
Docker(lang, bitnami, port, name) == [lang |-> lang, bitnami |-> bitnami, port |-> port, name |-> name]
MCDRequests == {Docker("node", FALSE, Unmapped, ""), Docker("node", TRUE, 1, ""), Docker("ruby", FALSE, 1, "c")}
MCDockerLoads ==
    {Rest, "create" :> 2 @@ "delete" :> 1 @@ "pull" :> 1 @@ "retry" :> 1,
     "create" :> 2 @@ "nginx" :> 1 @@ "retry" :> 1 @@ "stop" :> 1 @@ "start" :> 1,
     "create" :> 2 @@ "own" :> 1 @@ "remove" :> 1 @@ "retry" :> 1,
     "create" :> 1 @@ "config" :> 1 @@ "crash" :> 1 @@ "retry" :> 1}

MCTargets == {<<>>, <<"a">>, <<"d">>, <<"d", "b">>}
MCFileLoads ==
    {Rest, "write" :> 1 @@ "move" :> 2 @@ "disk" :> 1, "upload" :> 1 @@ "rename" :> 1 @@ "move" :> 1,
     "compress" :> 2 @@ "disk" :> 1, "create" :> 1 @@ "move" :> 1 @@ "crash" :> 1,
     "compress" :> 1 @@ "delete" :> 1 @@ "move" :> 1}

-----------------------------------------------------------------------------
\* A component has a load exactly when it is the part exercised.
Loaded(name, load) == part = name <=> load # Rest

MCInit ==
    /\ part \in Parts
    /\ Init
    /\ VhostsInit /\ Loaded("vhosts", vLoad)
    /\ SshInit /\ Loaded("ssh", sshLoad)
    /\ CertInit /\ live = CertSites /\ Loaded("certificates", certLoad)
    /\ sslRow[1].status = "active" /\ (part # "certificates" => sslRow[2].status = "none")
    /\ TransfersInit /\ Loaded("transfers", transferLoad) /\ siteOwner = "ann"
    /\ ContainersInit /\ Loaded("containers", dockerLoad)
    /\ FilesInit /\ Loaded("files", fileLoad)

MCNext ==
    /\ UNCHANGED part
    /\ \/ part = "sites" /\ Next
          /\ UNCHANGED <<vhostVars, sshVars, certVars, transferVars, dockerVars, fileVars>>
       \/ part = "vhosts" /\ VhostsNext
          /\ UNCHANGED <<vars, sshVars, certVars, transferVars, dockerVars, fileVars>>
       \/ part = "ssh" /\ SshNext
          /\ UNCHANGED <<vars, vhostVars, certVars, transferVars, dockerVars, fileVars>>
       \/ part = "certificates" /\ CertNext
          /\ UNCHANGED <<vars, vhostVars, sshVars, transferVars, dockerVars, fileVars>>
       \/ part = "transfers" /\ TransfersNext
          /\ UNCHANGED <<vars, vhostVars, sshVars, certVars, dockerVars, fileVars>>
       \/ part = "containers" /\ ContainersNext
          /\ UNCHANGED <<vars, vhostVars, sshVars, certVars, transferVars, fileVars>>
       \/ part = "files" /\ FilesNext
          /\ UNCHANGED <<vars, vhostVars, sshVars, certVars, transferVars, dockerVars>>

MCSpec == MCInit /\ [][MCNext]_<<part, vars, vhostVars, sshVars, certVars, transferVars, dockerVars, fileVars>>
=============================================================================
