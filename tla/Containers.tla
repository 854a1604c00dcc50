----------------------------- MODULE Containers -----------------------------
(***************************************************************************)
(* The docker sites of one host: the agent's site.create task pulls an     *)
(* image, removes the container of that name, looks for a free port, runs  *)
(* the container and points the site's vhost at it, while other tasks do   *)
(* the same and administrators start, stop, remove and create containers.  *)
(* The port is looked up before the container binds it, a changed port or  *)
(* a retry runs the task again, and a deleted site leaves its container.   *)
(***************************************************************************)
EXTENDS Naturals, FiniteSets

CONSTANTS
    DSites,         \* site ids, numbers
    SiteName,       \* the name made from sites.name, which need not be unique
    DRequests,      \* what a docker site may ask for: [lang, bitnami, port, name]
    DTasks,         \* slots for tasks of the agent
    HostPorts,      \* bound: size of the automatic port range, 50000 in the code
    Probes,         \* how many ports are tried, 100 in the code
    DockerLoads     \* bound: how often each operation and fault occurs

ASSUME ContainersAssumption ==
    /\ HostPorts \in Nat \ {0} /\ Probes \in 1..HostPorts /\ DSites \subseteq Nat \ {0}
    /\ \A s \in DSites : SiteName[s] # ""

VARIABLES
    containers,     \* name -> container, what docker ps -a lists
    rootFiles,      \* the files in each site's root
    vhostPort,      \* the port each loaded vhost passes requests to, Unmapped without one
    dockerRows,     \* sites with a row
    tasks,
    dockerLoad,
    settled,        \* history: the container of each site's last successful task, "" without one
    crossed         \* history: sites with two tasks at the same time

dockerVars == <<containers, rootFiles, vhostPort, dockerRows, tasks, dockerLoad, settled, crossed>>

Unmapped == HostPorts
AutoPorts == 0..HostPorts - 1
NoTask == [pc |-> "none", site |-> 0, lang |-> "static", bitnami |-> FALSE, port |-> Unmapped, name |-> "", host |-> Unmapped]

Without(name) == [n \in DOMAIN containers \ {name} |-> containers[n]]
With(name, c) == [n \in DOMAIN containers \cup {name} |-> IF n = name THEN c ELSE containers[n]]

ContainersInit ==
    /\ containers = [n \in {} |-> [site |-> 0, host |-> Unmapped, lang |-> "static", up |-> FALSE]]
    /\ rootFiles = [s \in DSites |-> {}]
    /\ vhostPort = [s \in DSites |-> Unmapped]
    /\ dockerRows = {}
    /\ tasks = [t \in DTasks |-> NoTask]
    /\ dockerLoad \in DockerLoads
    /\ settled = [s \in DSites |-> ""] /\ crossed = {}

SpendDocker(op) ==
    /\ op \in DOMAIN dockerLoad /\ dockerLoad[op] > 0
    /\ dockerLoad' = [dockerLoad EXCEPT ![op] = @ - 1]

InTask(t, pc) == tasks[t].pc = pc
GoesTo(t, pc) == tasks' = [tasks EXCEPT ![t].pc = pc]
Busy(s) == \E t \in DTasks : tasks[t].pc # "none" /\ tasks[t].site = s

-----------------------------------------------------------------------------
\* What each language's starter files, command and mapping are.
dockerHelloWorld(lang) ==
    CASE lang = "node"   -> {"package.json", "server.js"}
      [] lang = "python" -> {"app.py", "requirements.txt"}
      [] lang = "php"    -> {"index.php"}
      [] lang = "go"     -> {"main.go", "go.mod"}
      [] lang = "ruby"   -> {"app.rb", "Gemfile"}
      [] lang = "java"   -> {"Main.java"}
      [] lang = "rust"   -> {"main.rs"}
      [] OTHER           -> {"index.html"}

\* The port the starter program listens on when PORT is not set.
Listens(lang) ==
    CASE lang \in {"node", "ruby"} -> 3000 [] lang = "python" -> 8000
      [] lang \in {"go", "java", "rust"} -> 8080 [] OTHER -> 80

dockerContainerPort(lang) ==
    CASE lang \in {"node", "ruby"} -> 3000
      [] lang = "python" -> 8000
      [] lang \in {"go", "java"} -> 8080
      [] lang = "rust" -> 8080
      [] OTHER -> 80

\* The files that the default command needs; none when the image's own is kept.
dockerDefaultCmd(lang) ==
    CASE lang = "node"   -> {"package.json", "server.js"}
      [] lang = "python" -> {"app.py"}
      [] lang = "go"     -> {"main.go"}
      [] lang = "ruby"   -> {"app.rb"}
      [] lang = "java"   -> {"Main.java"}
      [] lang = "rust"   -> {"main.rs"}
      [] OTHER           -> {}

\* A port can be listened on unless a running container has it.
isPortAvailable(p) == \A n \in DOMAIN containers : ~(containers[n].up /\ containers[n].host = p)

AutoPort(s, i) == (s + i) % HostPorts

-----------------------------------------------------------------------------
(* The site.create job of a new row carries the docker options; the one    *)
(* that a changed port queues has none, so it gets the defaults.           *)
Submit(t, s, name, lang, bitnami, port) ==
    /\ tasks[t] = NoTask
    /\ tasks' = [tasks EXCEPT ![t] = [NoTask EXCEPT !.pc = "files", !.site = s, !.lang = lang,
                                                    !.bitnami = bitnami, !.port = port, !.name = name]]
    /\ crossed' = IF Busy(s) THEN crossed \cup {s} ELSE crossed

siteCreate(t, s, q) ==
    /\ SpendDocker("create") /\ s \notin dockerRows
    /\ dockerRows' = dockerRows \cup {s}
    /\ Submit(t, s, IF q.name # "" THEN q.name ELSE SiteName[s], q.lang, q.bitnami, q.port)
    /\ UNCHANGED <<containers, rootFiles, vhostPort, settled>>

appUpdateConfig(t, s) ==
    /\ SpendDocker("config") /\ s \in dockerRows
    /\ Submit(t, s, SiteName[s], "static", FALSE, Unmapped)
    /\ UNCHANGED <<containers, rootFiles, vhostPort, dockerRows, settled>>

\* A starter file is written only where there is none.
HelloFiles(t) ==
    /\ InTask(t, "files") /\ GoesTo(t, "pull")
    /\ rootFiles' = IF tasks[t].bitnami THEN rootFiles
                    ELSE [rootFiles EXCEPT ![tasks[t].site] = @ \cup dockerHelloWorld(tasks[t].lang)]
    /\ UNCHANGED <<containers, vhostPort, dockerRows, dockerLoad, settled, crossed>>

Pull(t) ==
    /\ InTask(t, "pull") /\ GoesTo(t, "rm")
    /\ UNCHANGED <<containers, rootFiles, vhostPort, dockerRows, dockerLoad, settled, crossed>>

PullFails(t) ==
    /\ InTask(t, "pull") /\ SpendDocker("pull") /\ GoesTo(t, "failed")
    /\ UNCHANGED <<containers, rootFiles, vhostPort, dockerRows, settled, crossed>>

\* docker rm -f: whoever's container has the name.
RemoveExisting(t) ==
    /\ InTask(t, "rm") /\ GoesTo(t, "port")
    /\ containers' = Without(tasks[t].name)
    /\ UNCHANGED <<rootFiles, vhostPort, dockerRows, dockerLoad, settled, crossed>>

\* The requested port if it is free, else the site's own without a look; with
\* no request the first free one of the probes, or the site's own.
ChosenPort(s, port) ==
    LET free == {i \in 0..Probes - 1 : isPortAvailable(AutoPort(s, i))}
    IN  IF port # Unmapped
        THEN IF isPortAvailable(port) THEN port ELSE AutoPort(s, 0)
        ELSE IF free = {} THEN AutoPort(s, 0)
             ELSE AutoPort(s, CHOOSE i \in free : \A j \in free : i <= j)

ChoosePort(t) ==
    /\ InTask(t, "port")
    /\ tasks' = [tasks EXCEPT ![t].pc = "run", ![t].host = ChosenPort(tasks[t].site, tasks[t].port)]
    /\ UNCHANGED <<containers, rootFiles, vhostPort, dockerRows, dockerLoad, settled, crossed>>

\* docker run: refused when the name exists; created but not started when the
\* port is taken; up when what its command needs is there.
DockerRun(t) ==
    LET q == tasks[t] IN
    /\ InTask(t, "run")
    /\ IF q.name \in DOMAIN containers THEN GoesTo(t, "failed") /\ UNCHANGED containers
       ELSE /\ containers' = With(q.name, [site |-> q.site, host |-> q.host, lang |-> q.lang,
                                           up |-> isPortAvailable(q.host) /\ dockerDefaultCmd(q.lang) \subseteq rootFiles[q.site]])
            /\ GoesTo(t, IF isPortAvailable(q.host) THEN "vhost" ELSE "failed")
    /\ UNCHANGED <<rootFiles, vhostPort, dockerRows, dockerLoad, settled, crossed>>

\* Mutant: the vhost is told the port that was asked for.
ProxyPassRequested(t) == IF tasks[t].port # Unmapped THEN tasks[t].port ELSE tasks[t].host

ProxyPass(t) == tasks[t].host

\* The vhost is written, tested and loaded.
WriteVhost(t) ==
    /\ InTask(t, "vhost")
    /\ vhostPort' = [vhostPort EXCEPT ![tasks[t].site] = ProxyPass(t)]
    /\ settled' = [settled EXCEPT ![tasks[t].site] = tasks[t].name]
    /\ tasks' = [tasks EXCEPT ![t] = NoTask]
    /\ UNCHANGED <<containers, rootFiles, dockerRows, dockerLoad, crossed>>

NginxTestFails(t) ==
    /\ InTask(t, "vhost") /\ SpendDocker("nginx") /\ GoesTo(t, "failed")
    /\ UNCHANGED <<containers, rootFiles, vhostPort, dockerRows, settled, crossed>>

\* The agent stops in the middle of a task.
TaskCut(t) ==
    /\ tasks[t].pc \notin {"none", "failed"} /\ SpendDocker("crash") /\ GoesTo(t, "failed")
    /\ UNCHANGED <<containers, rootFiles, vhostPort, dockerRows, settled, crossed>>

\* A failed job is tried again from the start with the same payload, or given up.
Retry(t) ==
    /\ InTask(t, "failed") /\ SpendDocker("retry")
    /\ tasks' = [tasks EXCEPT ![t].pc = "files", ![t].host = Unmapped]
    /\ UNCHANGED <<containers, rootFiles, vhostPort, dockerRows, settled, crossed>>

GiveUp(t) ==
    /\ InTask(t, "failed")
    /\ tasks' = [tasks EXCEPT ![t] = NoTask]
    /\ settled' = [settled EXCEPT ![tasks[t].site] = ""]
    /\ UNCHANGED <<containers, rootFiles, vhostPort, dockerRows, dockerLoad, crossed>>

-----------------------------------------------------------------------------
\* The row goes, and the agent's site.delete removes vhost and files at once;
\* the container stays.
siteDelete(s) ==
    /\ SpendDocker("delete") /\ s \in dockerRows
    /\ dockerRows' = dockerRows \ {s}
    /\ vhostPort' = [vhostPort EXCEPT ![s] = Unmapped]
    /\ rootFiles' = [rootFiles EXCEPT ![s] = {}]
    /\ settled' = [settled EXCEPT ![s] = ""]
    /\ crossed' = IF Busy(s) THEN crossed \cup {s} ELSE crossed
    /\ UNCHANGED <<containers, tasks>>

dockerContainerStart(n) ==
    /\ SpendDocker("start") /\ n \in DOMAIN containers
    /\ containers' = [containers EXCEPT ![n].up = @ \/ isPortAvailable(containers[n].host)]
    /\ UNCHANGED <<rootFiles, vhostPort, dockerRows, tasks, settled, crossed>>

dockerContainerStop(n) ==
    /\ SpendDocker("stop") /\ n \in DOMAIN containers
    /\ containers' = [containers EXCEPT ![n].up = FALSE]
    /\ UNCHANGED <<rootFiles, vhostPort, dockerRows, tasks, settled, crossed>>

\* Without force only a stopped container is removed.
dockerContainerRemove(n, force) ==
    /\ SpendDocker("remove") /\ n \in DOMAIN containers
    /\ containers' = IF force \/ ~containers[n].up THEN Without(n) ELSE containers
    /\ UNCHANGED <<rootFiles, vhostPort, dockerRows, tasks, settled, crossed>>

\* docker run when it shall start, docker create otherwise.
dockerContainerCreate(n, p, start) ==
    /\ SpendDocker("own") /\ n \notin DOMAIN containers
    /\ containers' = With(n, [site |-> 0, host |-> p, lang |-> "static", up |-> start /\ isPortAvailable(p)])
    /\ UNCHANGED <<rootFiles, vhostPort, dockerRows, tasks, settled, crossed>>

ContainersNext ==
    \/ \E t \in DTasks, s \in DSites, q \in DRequests : siteCreate(t, s, q)
    \/ \E t \in DTasks, s \in DSites : appUpdateConfig(t, s)
    \/ \E t \in DTasks : \/ HelloFiles(t) \/ Pull(t) \/ PullFails(t) \/ RemoveExisting(t) \/ ChoosePort(t)
                         \/ DockerRun(t) \/ WriteVhost(t) \/ NginxTestFails(t) \/ TaskCut(t) \/ Retry(t) \/ GiveUp(t)
    \/ \E s \in DSites : siteDelete(s)
    \/ \E n \in DOMAIN containers : \/ dockerContainerStart(n) \/ dockerContainerStop(n)
                                    \/ \E force \in BOOLEAN : dockerContainerRemove(n, force)
    \/ \E p \in AutoPorts, start \in BOOLEAN : dockerContainerCreate("own", p, start)

ContainersSpec == ContainersInit /\ [][ContainersNext]_dockerVars

-----------------------------------------------------------------------------
(* Requests reach the site's own program: once the last task of a site has *)
(* succeeded and no other task of the site overlapped one, its vhost       *)
(* passes to the host port of that task's container whenever the container *)
(* is up, and the container's end of the mapping is the port that the      *)
(* starter program listens on (a mapping the request gives is taken to     *)
(* name the right one).  The port may have been taken between the probe    *)
(* and the run, another site may have the same name, containers are        *)
(* stopped, removed and started by hand, and the task is retried after     *)
(* every one of its failures.                                              *)
ServedByOwn ==
    \A s \in dockerRows :
        LET n == settled[s] IN
        ~Busy(s) /\ s \notin crossed /\ n \in DOMAIN containers =>
            LET c == containers[n] IN
            c.site = s /\ c.up => vhostPort[s] = c.host /\ dockerContainerPort(c.lang) = Listens(c.lang)
=============================================================================
