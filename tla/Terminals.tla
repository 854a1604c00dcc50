----------------------------- MODULE Terminals ------------------------------
(***************************************************************************)
(* Web terminals.  The panel changes a login session for a ticket that is  *)
(* bound to a Unix account and a session id, and a ticket for a websocket  *)
(* to the agent.  The agent keeps shells across websockets: a connection   *)
(* looks its session id up, and attaches to the shell it finds or starts   *)
(* one.  A goroutine per shell reads its output and writes it to the       *)
(* websocket it last saw, or to a buffer.  Every five minutes the agent    *)
(* kills the shells that were idle too long, then the idlest above a       *)
(* maximum.                                                                *)
(***************************************************************************)
EXTENDS Naturals, Sequences, FiniteSets

CONSTANTS
    TermUsers,
    Hints,          \* session ids a browser asks for: sequences of name parts
    TicketIds, Conns, Shells,
    TicketTTL, PtyIdle, MaxPTY, PendingMax,
    MaxTick,        \* bound on time
    TermLoads       \* bound: how often each operation and fault occurs

ASSUME TerminalsAssumption ==
    /\ 0 \notin Conns \cup Shells
    /\ {TicketTTL, PtyIdle, MaxPTY, PendingMax} \subseteq Nat
    /\ TicketIds \subseteq Nat
    /\ Hints \subseteq Seq(STRING)

VARIABLES
    termTime,
    tickets,        \* the handler's map
    conns,          \* websockets between panel and agent, and where the agent's handler stands
    ptySessions,    \* session id -> shell, 0 without one
    shells,
    readers,        \* the goroutine of each shell: what it read and the websocket it saw
    termLoad,
    lastTicket,
    taken,          \* history: how often a ticket opened a terminal
    spawnRaced      \* history: session ids for which two connections were looking at a time

termVars == <<termTime, tickets, conns, ptySessions, shells, readers, termLoad, lastTicket, taken, spawnRaced>>

\* "Agent-side session ids live in the user's own namespace": prefixed with the
\* user's id unless the hint has this prefix already.
\* Mutant: any user's prefix will do.
NamespacedAny(u, hint) == IF Head(hint) \in TermUsers THEN hint ELSE <<u>> \o hint

Namespaced(u, hint) == IF Head(hint) = u THEN hint ELSE <<u>> \o hint

TermSids == {Namespaced(u, h) : u \in TermUsers, h \in Hints} \cup Hints
SomeUser == CHOOSE u \in TermUsers : TRUE
SomeSid == CHOOSE s \in TermSids : TRUE
NoTicket == [user |-> SomeUser, sid |-> SomeSid, expires |-> 0]
NoConn == [pc |-> "closed", user |-> SomeUser, sid |-> SomeSid, shell |-> 0]
NoShell == [state |-> "none", owner |-> SomeUser, ws |-> 0, pending |-> <<>>, last |-> 0]
Waiting == [pc |-> "read", ws |-> 0]

TermInit ==
    /\ termTime = 1
    /\ tickets = [t \in TicketIds |-> NoTicket]
    /\ conns = [c \in Conns |-> NoConn]
    /\ ptySessions = [s \in TermSids |-> 0]
    /\ shells = [p \in Shells |-> NoShell]
    /\ readers = [p \in Shells |-> Waiting]
    /\ termLoad \in TermLoads
    /\ lastTicket = 0
    /\ taken = [t \in TicketIds |-> 0]
    /\ spawnRaced = {}

\* Identifiers are taken in order.
IsFirst(x, S) == x \in S /\ \A y \in S : x <= y

SpendTerm(op) ==
    /\ op \in DOMAIN termLoad /\ termLoad[op] > 0
    /\ termLoad' = [termLoad EXCEPT ![op] = @ - 1]

-----------------------------------------------------------------------------
(* The panel *)

\* put: the expired tickets go first.
Purged == [t \in TicketIds |-> IF tickets[t].expires < termTime THEN NoTicket ELSE tickets[t]]

\* An administrator's ticket, for a root shell, or a ticket for a site's account,
\* of a user who may write to the site.  Ids are random.
createTicket(u, t, hint) ==
    /\ SpendTerm("ticket")
    /\ t = lastTicket + 1 /\ lastTicket' = t
    /\ tickets' = [Purged EXCEPT ![t] = [user |-> u, sid |-> Namespaced(u, hint),
                                         expires |-> termTime + TicketTTL]]
    /\ UNCHANGED <<termTime, conns, ptySessions, shells, readers, taken, spawnRaced>>

take(t) == [tickets EXCEPT ![t] = NoTicket]

\* A ticket past its time is gone as well; the agent may be out of reach.
serve(c, t) ==
    /\ IsFirst(c, {d \in Conns : conns[d] = NoConn}) /\ tickets[t] # NoTicket
    /\ tickets' = take(t)
    /\ \/ /\ tickets[t].expires >= termTime
          /\ conns' = [conns EXCEPT ![c] = [pc |-> "lookup", user |-> tickets[t].user,
                                            sid |-> tickets[t].sid, shell |-> 0]]
          /\ taken' = [taken EXCEPT ![t] = @ + 1] /\ UNCHANGED termLoad
       \/ tickets[t].expires < termTime /\ UNCHANGED <<conns, taken, termLoad>>
       \/ SpendTerm("dial") /\ UNCHANGED <<conns, taken>>
    /\ UNCHANGED <<termTime, ptySessions, shells, readers, lastTicket, spawnRaced>>

-----------------------------------------------------------------------------
(* The agent's handler *)

Handles(c, pc) == conns[c].pc = pc
Moves(c, pc) == conns' = [conns EXCEPT ![c].pc = pc]
NewShells == {p \in Shells : shells[p].state = "none"}

getOrCreateSession(c) ==
    /\ Handles(c, "lookup")
    /\ LET p == ptySessions[conns[c].sid] IN
       conns' = [conns EXCEPT ![c].pc = IF p = 0 THEN "spawn" ELSE "attach", ![c].shell = p]
    /\ spawnRaced' = IF \E d \in Conns \ {c} : Handles(d, "spawn") /\ conns[d].sid = conns[c].sid
                     THEN spawnRaced \cup {conns[c].sid} ELSE spawnRaced
    /\ UNCHANGED <<termTime, tickets, ptySessions, shells, readers, termLoad, lastTicket, taken>>

\* pty.Start and saveSession: the map takes whatever comes last.
Spawn(c, p) ==
    /\ Handles(c, "spawn") /\ IsFirst(p, NewShells)
    /\ shells' = [shells EXCEPT ![p] = [NoShell EXCEPT !.state = "running", !.owner = conns[c].user, !.ws = c]]
    /\ ptySessions' = [ptySessions EXCEPT ![conns[c].sid] = p]
    /\ conns' = [conns EXCEPT ![c].pc = "open", ![c].shell = p]
    /\ UNCHANGED <<termTime, tickets, readers, termLoad, lastTicket, taken, spawnRaced>>

SpawnFails(c) ==
    /\ Handles(c, "spawn") /\ SpendTerm("pty")
    /\ conns' = [conns EXCEPT ![c] = NoConn]
    /\ UNCHANGED <<termTime, tickets, ptySessions, shells, readers, lastTicket, taken, spawnRaced>>

\* The account of the ticket plays no part.
Attach(c) ==
    /\ Handles(c, "attach") /\ Moves(c, "flush")
    /\ shells' = [shells EXCEPT ![conns[c].shell].ws = c]
    /\ UNCHANGED <<termTime, tickets, ptySessions, readers, termLoad, lastTicket, taken, spawnRaced>>

\* The buffer goes to the new websocket; the line feed that follows makes a
\* running shell print its prompt.
FlushPending(c) ==
    /\ Handles(c, "flush") /\ Moves(c, "open")
    /\ shells' = [shells EXCEPT ![conns[c].shell].pending = <<>>]
    /\ UNCHANGED <<termTime, tickets, ptySessions, readers, termLoad, lastTicket, taken, spawnRaced>>

\* Any message counts as activity, also for a shell that has ended.
Input(c) ==
    /\ Handles(c, "open") /\ shells[conns[c].shell].last # termTime
    /\ shells' = [shells EXCEPT ![conns[c].shell].last = termTime]
    /\ UNCHANGED <<termTime, tickets, conns, ptySessions, readers, termLoad, lastTicket, taken, spawnRaced>>

\* The browser, the panel or the network closes the websocket; whoever holds it
\* holds a closed one (0) from now on.
Detached(gone) ==
    /\ conns' = [c \in Conns |-> IF c \in gone THEN NoConn ELSE conns[c]]
    /\ shells' = [p \in Shells |-> IF shells[p].ws \in gone THEN [shells[p] EXCEPT !.ws = 0] ELSE shells[p]]
    /\ readers' = [p \in Shells |-> IF readers[p].ws \in gone THEN [readers[p] EXCEPT !.ws = 0] ELSE readers[p]]

Disconnect(c) ==
    /\ Handles(c, "open") /\ Detached({c})
    /\ UNCHANGED <<termTime, tickets, ptySessions, termLoad, lastTicket, taken, spawnRaced>>

-----------------------------------------------------------------------------
(* The shells and their readers *)

ReadPty(p) ==
    /\ shells[p].state = "running" /\ readers[p].pc = "read" /\ SpendTerm("output")
    /\ shells' = [shells EXCEPT ![p].last = termTime]
    /\ readers' = [readers EXCEPT ![p] = [pc |-> "write", ws |-> shells[p].ws]]
    /\ UNCHANGED <<termTime, tickets, conns, ptySessions, lastTicket, taken, spawnRaced>>

Kept(pending) == IF Len(pending) > PendingMax THEN Tail(pending) ELSE pending

WriteOutput(p) ==
    /\ readers[p].pc = "write" /\ readers' = [readers EXCEPT ![p] = Waiting]
    /\ shells' = IF readers[p].ws # 0 THEN shells
                 ELSE [shells EXCEPT ![p].pending = Kept(Append(@, "out"))]
    /\ UNCHANGED <<termTime, tickets, conns, ptySessions, termLoad, lastTicket, taken, spawnRaced>>

\* The shell ends by itself: the reader stops, the session stays in the map.
ShellExits(p) ==
    /\ shells[p].state = "running" /\ SpendTerm("exit")
    /\ shells' = [shells EXCEPT ![p].state = "exited"]
    /\ UNCHANGED <<termTime, tickets, conns, ptySessions, readers, lastTicket, taken, spawnRaced>>

-----------------------------------------------------------------------------
(* The clean-up, under the lock of the map *)

Listed == {s \in TermSids : ptySessions[s] # 0}
LastActive(s) == LET p == ptySessions[s] IN IF shells[p].last = 0 THEN termTime ELSE shells[p].last
TooIdle == {s \in Listed : termTime - LastActive(s) > PtyIdle}

\* The idlest above the maximum.
Excess(remaining) ==
    {E \in SUBSET remaining :
        /\ Cardinality(E) = IF Cardinality(remaining) > MaxPTY THEN Cardinality(remaining) - MaxPTY ELSE 0
        /\ \A s \in E, t \in remaining \ E : LastActive(s) <= LastActive(t)}

\* Mutant: an excess session is only taken out of the map.
KilledIdle(ended, excess) == {ptySessions[s] : s \in ended \ excess}

Killed(ended, excess) == {ptySessions[s] : s \in ended}

cleanIdleSessions ==
    /\ SpendTerm("clean")
    /\ \E E \in Excess(Listed \ TooIdle) :
          /\ shells' = [p \in Shells |-> IF p \in Killed(TooIdle \cup E, E)
                                         THEN [shells[p] EXCEPT !.state = "killed"] ELSE shells[p]]
          /\ ptySessions' = [s \in TermSids |-> IF s \in TooIdle \cup E THEN 0 ELSE ptySessions[s]]
    /\ UNCHANGED <<termTime, tickets, conns, readers, lastTicket, taken, spawnRaced>>

-----------------------------------------------------------------------------
\* A restart of the panel loses the tickets and the websockets.
PanelRestarts ==
    /\ SpendTerm("crash")
    /\ tickets' = [t \in TicketIds |-> NoTicket]
    /\ Detached({c \in Conns : Handles(c, "open")})
    /\ UNCHANGED <<termTime, ptySessions, lastTicket, taken, spawnRaced>>

TermTick ==
    /\ termTime < MaxTick /\ termTime' = termTime + 1
    /\ UNCHANGED <<tickets, conns, ptySessions, shells, readers, termLoad, lastTicket, taken, spawnRaced>>

TermNext ==
    \/ \E u \in TermUsers, t \in TicketIds, h \in Hints : createTicket(u, t, h)
    \/ \E c \in Conns :
          \/ \E t \in TicketIds : serve(c, t)
          \/ getOrCreateSession(c) \/ (\E p \in Shells : Spawn(c, p)) \/ SpawnFails(c)
          \/ Attach(c) \/ FlushPending(c) \/ Input(c) \/ Disconnect(c)
    \/ \E p \in Shells : ReadPty(p) \/ WriteOutput(p) \/ ShellExits(p)
    \/ cleanIdleSessions \/ PanelRestarts \/ TermTick

TermSpec == TermInit /\ [][TermNext]_termVars

-----------------------------------------------------------------------------
\* "One account can never reattach to another's shell" (createTicket): whatever
\* session id a browser sends back, a websocket and the output a shell has
\* buffered reach only the account that started the shell, and a ticket opened
\* one terminal at the most.
OwnShellOnly ==
    /\ \A c \in Conns : conns[c].shell # 0 => shells[conns[c].shell].owner = conns[c].user
    /\ \A t \in TicketIds : taken[t] <= 1

\* A shell that runs is in the map, where the clean-up finds it: only two
\* connections that look for the same new session at a time leave one behind.
RunningIsListed ==
    \A p \in Shells : shells[p].state = "running" =>
        \E s \in TermSids : ptySessions[s] = p \/ (s \in spawnRaced /\ Head(s) = shells[p].owner)
=============================================================================
