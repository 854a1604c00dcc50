------------------------------ MODULE Databases ------------------------------
(***************************************************************************)
(* The databases of the sites and their users: the handlers of             *)
(* internal/apihttp/databases.go and dbserver_handler.go, which first try  *)
(* the database server directly (internal/dbserver), write the metadata    *)
(* tables (internal/store/databases.go) and leave a job for the agent      *)
(* (internal/agenthttp/router.go) as the fallback.                         *)
(*                                                                         *)
(* Every statement sent to the server may fail; each failure counts as one *)
(* fault.  A name is a number of "sp_" prefixes and a base; a password is a *)
(* number that is never chosen twice.                                      *)
(***************************************************************************)
EXTENDS Naturals, FiniteSets

CONSTANTS
    DatabaseSites,        \* site ids
    Bases,        \* base names of databases
    Logins,       \* names of database users, as triples like those of tickets
    MaxRows,      \* bound: rows ever inserted in each table
    MaxPasswords, \* bound: passwords ever chosen
    MaxFaults,    \* bound: statements that fail, jobs given up, crashes
    DbWorkloads     \* the mixes of requests that arrive

ASSUME DatabasesAssumption ==
    /\ DatabaseSites # {} /\ Bases # {} /\ Logins # {}
    /\ {MaxRows, MaxPasswords, MaxFaults} \subseteq Nat \ {0}
    /\ DbWorkloads \subseteq SUBSET {"create", "delete", "user", "alter", "grant", "import", "ticket"}

VARIABLES
    dbLoad,      \* the mix of this behaviour
    rows,      \* the databases table, by id
    dbUsers,     \* the db_users table, by id
    server,    \* the database servers: databases, accounts with passwords, grants, events
    jobs,      \* jobs queued or running
    req,       \* the API request under way
    last,      \* the last password chosen
    faults,    \* history: how many things went wrong
    dropped    \* history: names that some deletion has dropped or will

databaseVars == <<dbLoad, rows, dbUsers, server, jobs, req, last, faults, dropped>>

-----------------------------------------------------------------------------
(* Data. *)

Types == {"mysql", "postgres"}
DbIds == 1..MaxRows
Prefixed(name) == <<name[1] + 1, name[2]>>       \* "sp_" + name
RawHosts == {"", "%", "localhost", "127.0.0.1"}
canonicalDBHost(host) ==
    IF host = "" THEN "%" ELSE IF host = "127.0.0.1" THEN "localhost" ELSE host

\* An account of the server; a PostgreSQL role has no host.
Key(type, user, host) == <<type, user, IF type = "mysql" THEN host ELSE "">>
NoLogin == <<"", 0, 0>>

\* The principal of a ticket, random in the code.
TicketName(db, n) == <<"ticket", db, n>>
TicketKey(db, n) == Key("mysql", TicketName(db, n), "localhost")

\* site = 0 stands for an imported database that no site claims; real is history:
\* the name under which the database was created.
NoDb == [live |-> FALSE, site |-> 0, name |-> <<0, "">>, real |-> <<0, "">>, type |-> "mysql", made |-> FALSE]
\* hash is the password of password_hash (0: "imported"), enc that of encrypted_password.
NoUser == [live |-> FALSE, db |-> 0, user |-> NoLogin, host |-> "%", hash |-> 0, enc |-> 0]
NoReq == [pc |-> "idle", id |-> 0, db |-> NoDb, user |-> NoUser, pw |-> 0, ok |-> FALSE]

LiveDbs == {d \in DbIds : rows[d].live}
LiveUsers == {u \in DbIds : dbUsers[u].live}
FreeDb == {d \in DbIds : rows[d] = NoDb /\ \A e \in DbIds : e < d => rows[e] # NoDb}
FreeUser == {u \in DbIds : dbUsers[u] = NoUser /\ \A v \in DbIds : v < u => dbUsers[v] # NoUser}
Fresh == last + 1

DeclaredDb(s, name, type, made) ==
    [live |-> TRUE, site |-> s, name |-> IF made THEN Prefixed(name) ELSE name, real |-> name,
     type |-> type, made |-> made]

\* The panel makes no PostgreSQL database; one of that name may have been made by hand.
Seeded(db) == IF db.type = "mysql" THEN {{<<"mysql", db.real>>}} ELSE {{}, {<<"postgres", db.name>>}}

DatabasesInit ==
    /\ dbLoad \in DbWorkloads
    /\ last = 0 /\ faults = 0
    /\ \E s \in DatabaseSites, b \in Bases, type \in Types :
          LET seeded == "create" \notin dbLoad
              db == DeclaredDb(s, <<0, b>>, type, TRUE)
          IN  /\ rows = [d \in DbIds |-> IF seeded /\ d = 1 THEN db ELSE NoDb]
              /\ \E dbs \in IF seeded THEN Seeded(db) ELSE {{}} :
                    server = [dbs |-> dbs, accounts |-> [k \in {} |-> 0], grants |-> {}, events |-> {}]
    /\ dbUsers = [u \in DbIds |-> NoUser]
    /\ jobs = {}
    /\ req = NoReq
    /\ dropped = {}

-----------------------------------------------------------------------------
(* The server's statements (internal/dbserver): the effect of each one. *)

\* CREATE DATABASE IF NOT EXISTS
CreateDatabaseOn(srv, type, name) == [srv EXCEPT !.dbs = @ \cup {<<type, name>>}]
\* DROP DATABASE IF EXISTS
DropDatabaseOn(srv, type, name) == [srv EXCEPT !.dbs = @ \ {<<type, name>>}]

Known(srv, key) == key \in DOMAIN srv.accounts
WithAccount(srv, key, pw) ==
    [srv EXCEPT !.accounts = [k \in DOMAIN srv.accounts \cup {key} |->
                                IF k = key THEN pw ELSE srv.accounts[k]]]

\* CREATE USER IF NOT EXISTS keeps the password of an account that is there.
CreateUserOn(srv, key, pw, name) ==
    LET made == IF Known(srv, key) THEN srv ELSE WithAccount(srv, key, pw)
    IN  [made EXCEPT !.grants = @ \cup {<<key, name>>}]

\* DROP USER IF EXISTS takes the grants along.
DeleteUserOn(srv, key) ==
    [srv EXCEPT !.accounts = [k \in DOMAIN srv.accounts \ {key} |-> srv.accounts[k]],
                !.grants = {g \in @ : g[1] # key}]

\* ALTER USER fails on an account that is not there.
ChangePasswordOn(srv, key, pw) == WithAccount(srv, key, pw)

\* CREATE EVENT ... DO DROP USER
ScheduleDeleteUserOn(srv, key) == [srv EXCEPT !.events = @ \cup {key}]

-----------------------------------------------------------------------------
(* Requests.  "Direct" is execMySQL: no server configured, a connection that *)
(* cannot be made and a refused statement are the same fault.               *)

DbFault == faults < MaxFaults /\ faults' = faults + 1
Direct(result, ok) ==
    \/ ok /\ server' = result /\ UNCHANGED faults
    \/ ~ok /\ UNCHANGED server /\ DbFault

\* CreateUser is several statements: a failure may leave the account without the
\* grant, or with it when only FLUSH PRIVILEGES failed.
DirectUser(key, pw, name, ok) ==
    \/ Direct(CreateUserOn(server, key, pw, name), ok)
    \/ /\ ~ok /\ DbFault
       /\ \/ server' = CreateUserOn(server, key, pw, name)
          \/ ~Known(server, key) /\ server' = WithAccount(server, key, pw)

DbIdle(kind) == req.pc = "idle" /\ kind \in dbLoad
Go(pc) == [req EXCEPT !.pc = pc]

\* The handlers let in the owner of the site and administrators; a request is one
\* that passed canAccess, which needs the site of the database's row.
canAccess(d) == rows[d].site # 0

\* POST /sites/:id/databases.  The server gets the name, the table "sp_" + name.
CreateDatabase ==
    /\ DbIdle("create") /\ FreeDb # {}
    /\ \E s \in DatabaseSites, k \in {0, 1}, b \in Bases, type \in Types, ok \in BOOLEAN :
          /\ req' = [NoReq EXCEPT !.pc = "insert database", !.ok = ok,
                                  !.db = DeclaredDb(s, <<k, b>>, type, TRUE)]
          /\ IF type = "mysql" THEN Direct(CreateDatabaseOn(server, type, <<k, b>>), ok)
             ELSE ~ok /\ UNCHANGED <<server, faults>>
    /\ UNCHANGED <<dbLoad, rows, dbUsers, jobs, last, dropped>>

\* Databases.Create; the job is left only for MySQL.
InsertDatabase ==
    /\ req.pc = "insert database"
    /\ \E d \in FreeDb :
          /\ rows' = [rows EXCEPT ![d] = req.db]
          /\ req' = IF ~req.ok /\ req.db.type = "mysql" THEN [req EXCEPT !.pc = "create job", !.id = d] ELSE NoReq
    /\ UNCHANGED <<dbLoad, dbUsers, server, jobs, last, faults, dropped>>

\* Mutant: no job is left when the server could not be reached.
EnqueueCreateNone ==
    /\ req.pc = "create job"
    /\ req' = NoReq
    /\ UNCHANGED <<dbLoad, rows, dbUsers, server, jobs, last, faults, dropped>>

\* A job that cannot be inserted is only logged.
EnqueueCreate ==
    /\ req.pc = "create job"
    /\ \/ /\ jobs' = jobs \cup {[kind |-> "database.create", id |-> req.id, type |-> "mysql",
                                 name |-> req.db.real, user |-> NoLogin, host |-> "", pw |-> 0]}
          /\ UNCHANGED faults
       \/ UNCHANGED jobs /\ DbFault
    /\ req' = NoReq
    /\ UNCHANGED <<dbLoad, rows, dbUsers, server, last, dropped>>

\* DELETE /databases/:id
DeleteDatabase ==
    /\ DbIdle("delete")
    /\ \E d \in LiveDbs, ok \in BOOLEAN :
          /\ canAccess(d)
          /\ req' = [NoReq EXCEPT !.pc = "delete job", !.id = d, !.db = rows[d]]
          /\ dropped' = dropped \cup {<<rows[d].type, rows[d].name>>}
          /\ IF rows[d].type = "mysql" THEN Direct(DropDatabaseOn(server, "mysql", rows[d].name), ok)
             ELSE ok /\ UNCHANGED <<server, faults>>
    /\ UNCHANGED <<dbLoad, rows, dbUsers, jobs, last>>

\* Without the job the row stays.
EnqueueDelete ==
    /\ req.pc = "delete job"
    /\ \/ /\ jobs' = jobs \cup {[kind |-> "database.delete", id |-> req.id, type |-> req.db.type,
                                 name |-> req.db.name, user |-> NoLogin, host |-> "", pw |-> 0]}
          /\ req' = Go("delete row") /\ UNCHANGED faults
       \/ UNCHANGED jobs /\ req' = NoReq /\ DbFault
    /\ UNCHANGED <<dbLoad, rows, dbUsers, server, last, dropped>>

\* Databases.Delete, with the users of the database (ON DELETE CASCADE); their
\* accounts stay on the server.
DeleteDatabaseRow ==
    /\ req.pc = "delete row"
    /\ rows' = [rows EXCEPT ![req.id].live = FALSE]
    /\ dbUsers' = [u \in DbIds |-> IF dbUsers[u].db = req.id THEN [dbUsers[u] EXCEPT !.live = FALSE] ELSE dbUsers[u]]
    /\ req' = NoReq
    /\ UNCHANGED <<dbLoad, server, jobs, last, faults, dropped>>

\* POST /databases/:id/users.  encrypted_password is kept only after a success.
CreateDBUser ==
    /\ DbIdle("user") /\ FreeUser # {} /\ Fresh <= MaxPasswords
    /\ \E d \in LiveDbs, u \in Logins, raw \in RawHosts, ok \in BOOLEAN :
          LET host == canonicalDBHost(raw)
              key == Key(rows[d].type, u, host)
          IN  /\ canAccess(d)
              /\ IF rows[d].type = "mysql" THEN DirectUser(key, Fresh, rows[d].name, ok)
                 ELSE ~ok /\ UNCHANGED <<server, faults>>
              /\ req' = [NoReq EXCEPT !.pc = "insert user", !.ok = ok, !.pw = Fresh, !.db = rows[d],
                           !.user = [live |-> TRUE, db |-> d, user |-> u, host |-> host, hash |-> Fresh,
                                     enc |-> IF ok THEN Fresh ELSE 0]]
    /\ last' = Fresh
    /\ UNCHANGED <<dbLoad, rows, dbUsers, jobs, dropped>>

\* DBUsers.Create
InsertDBUser ==
    /\ req.pc = "insert user"
    /\ \E u \in FreeUser :
          /\ dbUsers' = [dbUsers EXCEPT ![u] = req.user]
          /\ req' = IF req.ok THEN NoReq ELSE [req EXCEPT !.pc = "user job", !.id = u]
    /\ UNCHANGED <<dbLoad, rows, server, jobs, last, faults, dropped>>

UserJob(kind) ==
    [kind |-> kind, id |-> req.id, type |-> req.db.type, name |-> req.db.name,
     user |-> req.user.user, host |-> req.user.host, pw |-> req.pw]

\* The dbuser.create job of a creation and of a rotation.
EnqueueDBUserCreate ==
    /\ req.pc = "user job"
    /\ \/ jobs' = jobs \cup {UserJob("dbuser.create")} /\ UNCHANGED faults
       \/ UNCHANGED jobs /\ DbFault
    /\ req' = NoReq
    /\ UNCHANGED <<dbLoad, rows, dbUsers, server, last, dropped>>

\* POST /databases/:id/users/:user_id/rotate-password: the server, then the hash
\* (not encrypted_password), then always a job.
RotatePassword ==
    /\ DbIdle("user") /\ Fresh <= MaxPasswords
    /\ \E u \in LiveUsers, ok \in BOOLEAN :
          LET db == rows[dbUsers[u].db]
              key == Key(db.type, dbUsers[u].user, dbUsers[u].host)
          IN  /\ canAccess(dbUsers[u].db)
              /\ IF db.type = "mysql" /\ Known(server, key)
                 THEN Direct(ChangePasswordOn(server, key, Fresh), ok)
                 ELSE ~ok /\ UNCHANGED <<server, faults>>
              /\ req' = [NoReq EXCEPT !.pc = "user job", !.id = u, !.pw = Fresh, !.db = db, !.user = dbUsers[u]]
              /\ dbUsers' = [dbUsers EXCEPT ![u].hash = Fresh]
    /\ last' = Fresh
    /\ UNCHANGED <<dbLoad, rows, jobs, dropped>>

\* DELETE /databases/:id/users/:user_id
DeleteDBUser ==
    /\ DbIdle("user")
    /\ \E u \in LiveUsers, ok \in BOOLEAN :
          LET db == rows[dbUsers[u].db]
          IN  /\ canAccess(dbUsers[u].db)
              /\ IF db.type = "mysql" THEN Direct(DeleteUserOn(server, Key("mysql", dbUsers[u].user, dbUsers[u].host)), ok)
                 ELSE ok /\ UNCHANGED <<server, faults>>
              /\ req' = [NoReq EXCEPT !.pc = "user delete job", !.id = u, !.db = db, !.user = dbUsers[u]]
    /\ UNCHANGED <<dbLoad, rows, dbUsers, jobs, last, dropped>>

EnqueueDBUserDelete ==
    /\ req.pc = "user delete job"
    /\ \/ jobs' = jobs \cup {UserJob("dbuser.delete")} /\ req' = Go("delete user row") /\ UNCHANGED faults
       \/ UNCHANGED jobs /\ req' = NoReq /\ DbFault
    /\ UNCHANGED <<dbLoad, rows, dbUsers, server, last, dropped>>

DeleteDBUserRow ==
    /\ req.pc = "delete user row"
    /\ dbUsers' = [dbUsers EXCEPT ![req.id].live = FALSE]
    /\ req' = NoReq
    /\ UNCHANGED <<dbLoad, rows, server, jobs, last, faults, dropped>>

\* PATCH /db-users/:id with another host: the account is dropped and made anew
\* only if its password is known; the row gets the new host in any case.
UpdateDBUserHost ==
    /\ DbIdle("alter")
    /\ \E u \in LiveUsers, raw \in RawHosts, ok \in BOOLEAN :
          LET db == rows[dbUsers[u].db]
              host == canonicalDBHost(raw)
              old == Key("mysql", dbUsers[u].user, dbUsers[u].host)
              bare == DeleteUserOn(server, old)
              moved == IF dbUsers[u].enc = 0 THEN bare
                       ELSE CreateUserOn(bare, Key("mysql", dbUsers[u].user, host), dbUsers[u].enc, db.name)
          IN  /\ canAccess(dbUsers[u].db) /\ raw # dbUsers[u].host /\ db.type = "mysql"
              /\ \/ Direct(moved, ok)
                 \/ ~ok /\ server' = bare /\ DbFault
              /\ dbUsers' = [dbUsers EXCEPT ![u].host = host]
    /\ UNCHANGED <<dbLoad, rows, jobs, req, last, dropped>>

\* The same request without a new host: GRANT, which fails if there is no account.
UpdateDBUserGrant ==
    /\ DbIdle("alter")
    /\ \E u \in LiveUsers, ok \in BOOLEAN :
          LET db == rows[dbUsers[u].db]
              key == Key("mysql", dbUsers[u].user, dbUsers[u].host)
          IN  /\ canAccess(dbUsers[u].db) /\ db.type = "mysql" /\ Known(server, key)
              /\ Direct([server EXCEPT !.grants = @ \cup {<<key, db.name>>}], ok)
    /\ UNCHANGED <<dbLoad, rows, dbUsers, jobs, req, last, dropped>>

\* POST /databases/:id/grant-user: the row of this very user@host is updated, or a
\* row is made with a password of its own, which replaces the account's.
GrantExistingUser ==
    /\ DbIdle("grant") /\ Fresh <= MaxPasswords
    /\ \E d \in LiveDbs, u \in Logins, raw \in RawHosts :
          LET host == canonicalDBHost(raw)
              key == Key("mysql", u, host)
              granted == IF Known(server, key) THEN [server EXCEPT !.grants = @ \cup {<<key, rows[d].name>>}]
                         ELSE server
              existing == {v \in LiveUsers : /\ dbUsers[v].db = d /\ dbUsers[v].user = u
                                             /\ canonicalDBHost(dbUsers[v].host) = host}
          IN  /\ canAccess(d) /\ rows[d].type = "mysql"
              /\ \/ /\ existing # {}
                    /\ \E v \in existing : dbUsers' = [dbUsers EXCEPT ![v].host = host]
                    /\ server' = granted
                    /\ UNCHANGED last
                 \/ /\ existing = {}
                    /\ \E v \in FreeUser :
                          dbUsers' = [dbUsers EXCEPT ![v] = [live |-> TRUE, db |-> d, user |-> u, host |-> host,
                                                             hash |-> Fresh, enc |-> Fresh]]
                    /\ server' = IF Known(server, key) THEN ChangePasswordOn(granted, key, Fresh) ELSE granted
                    /\ last' = Fresh
    /\ UNCHANGED <<dbLoad, rows, jobs, req, faults, dropped>>

\* POST /database-server/import: a row for every database of the server that has
\* none of its name, for the site of that name if there is one.
ImportDatabase ==
    /\ DbIdle("import")
    /\ \E n \in {x[2] : x \in {y \in server.dbs : y[1] = "mysql"}}, d \in FreeDb, s \in DatabaseSites \cup {0} :
          /\ \A e \in LiveDbs : rows[e].name # n
          /\ rows' = [rows EXCEPT ![d] = DeclaredDb(s, n, "mysql", FALSE)]
    /\ UNCHANGED <<dbLoad, dbUsers, server, jobs, req, last, faults, dropped>>

\* ... and a row, without password, for every account named after the database.
ImportUser ==
    /\ DbIdle("import")
    /\ \E d \in LiveDbs, key \in DOMAIN server.accounts, u \in FreeUser :
          /\ rows[d].type = "mysql" /\ key[1] = "mysql" /\ key[2] \in Logins
          /\ ~\E v \in LiveUsers : dbUsers[v].db = d /\ dbUsers[v].user = key[2] /\ dbUsers[v].host = key[3]
          /\ dbUsers' = [dbUsers EXCEPT ![u] = [live |-> TRUE, db |-> d, user |-> key[2], host |-> key[3],
                                                hash |-> 0, enc |-> 0]]
    /\ UNCHANGED <<dbLoad, rows, server, jobs, req, last, faults, dropped>>

\* POST /databases/phpmyadmin-reset-passwords, one user at a time: only those
\* whose password is not stored.
ResetPassword ==
    /\ DbIdle("import") /\ Fresh <= MaxPasswords
    /\ \E u \in LiveUsers :
          LET key == Key("mysql", dbUsers[u].user, dbUsers[u].host)
          IN  /\ dbUsers[u].hash = 0 \/ dbUsers[u].enc = 0
              /\ Known(server, key)
              /\ server' = ChangePasswordOn(server, key, Fresh)
              /\ dbUsers' = [dbUsers EXCEPT ![u].enc = Fresh, ![u].hash = Fresh]
    /\ last' = Fresh
    /\ UNCHANGED <<dbLoad, rows, jobs, req, faults, dropped>>

\* POST /databases/phpmyadmin-credentials: CREATE USER, ...
PhpMyAdminCredentials ==
    /\ DbIdle("ticket") /\ Fresh <= MaxPasswords
    /\ \E d \in LiveDbs, ok \in BOOLEAN :
          /\ rows[d].type = "mysql"
          /\ DirectUser(TicketKey(d, Fresh), Fresh, rows[d].name, ok)
          /\ req' = IF ok THEN [NoReq EXCEPT !.pc = "schedule", !.id = d, !.pw = Fresh] ELSE NoReq
    /\ last' = Fresh
    /\ UNCHANGED <<dbLoad, rows, dbUsers, jobs, dropped>>

\* ... CREATE EVENT, and if that fails the account is dropped and nothing answered.
ScheduleTicket ==
    /\ req.pc = "schedule"
    /\ \/ server' = ScheduleDeleteUserOn(server, TicketKey(req.id, req.pw)) /\ UNCHANGED faults
       \/ DbFault /\ server' \in {DeleteUserOn(server, TicketKey(req.id, req.pw)), server}
    /\ req' = NoReq
    /\ UNCHANGED <<dbLoad, rows, dbUsers, jobs, last, dropped>>

\* POST /databases/:id/pma-credentials answers a stored password if a user of the
\* database has one; else it makes a login that nothing ever removes.
PmaCredentials ==
    /\ DbIdle("ticket") /\ Fresh <= MaxPasswords
    /\ \E d \in LiveDbs, ok \in BOOLEAN :
          /\ canAccess(d) /\ rows[d].type = "mysql"
          /\ ~\E u \in LiveUsers : dbUsers[u].db = d /\ dbUsers[u].enc # 0
          /\ DirectUser(Key("mysql", <<"pma", d, Fresh>>, "localhost"), Fresh, rows[d].name, ok)
    /\ last' = Fresh
    /\ UNCHANGED <<dbLoad, rows, dbUsers, jobs, req, dropped>>

-----------------------------------------------------------------------------
(* The agent's tasks.  Five workers: jobs finish in any order. *)

Task(kind, type) == {j \in jobs : j.kind = kind /\ j.type = type}

databaseCreateTask ==
    /\ \E j \in Task("database.create", "mysql") :
          /\ server' = CreateDatabaseOn(server, "mysql", j.name)
          /\ jobs' = jobs \ {j}
    /\ UNCHANGED <<dbLoad, rows, dbUsers, req, last, faults, dropped>>

databaseDeleteTask ==
    /\ \E type \in Types : \E j \in Task("database.delete", type) :
          /\ server' = DropDatabaseOn(server, type, j.name)
          /\ jobs' = jobs \ {j}
    /\ UNCHANGED <<dbLoad, rows, dbUsers, req, last, faults, dropped>>

dbUserCreateTask ==
    /\ \E j \in Task("dbuser.create", "mysql") :
          /\ server' = CreateUserOn(server, Key("mysql", j.user, j.host), j.pw, j.name)
          /\ jobs' = jobs \ {j}
    /\ UNCHANGED <<dbLoad, rows, dbUsers, req, last, faults, dropped>>

\* A role that is there gets the new password; GRANT fails without the database,
\* and the job is tried again.
dbUserCreatePostgres ==
    /\ \E j \in Task("dbuser.create", "postgres") :
          LET key == Key("postgres", j.user, "")
          IN  IF <<"postgres", j.name>> \in server.dbs
              THEN server' = CreateUserOn(ChangePasswordOn(server, key, j.pw), key, j.pw, j.name) /\ jobs' = jobs \ {j}
              ELSE server' = WithAccount(server, key, j.pw) /\ UNCHANGED jobs
    /\ UNCHANGED <<dbLoad, rows, dbUsers, req, last, faults, dropped>>

dbUserDeleteTask ==
    /\ \E type \in Types : \E j \in Task("dbuser.delete", type) :
          /\ server' = DeleteUserOn(server, Key(type, j.user, j.host))
          /\ jobs' = jobs \ {j}
    /\ UNCHANGED <<dbLoad, rows, dbUsers, req, last, faults, dropped>>

\* The worker gives a job up after its last attempt.
GiveUp ==
    /\ \E j \in jobs : jobs' = jobs \ {j}
    /\ DbFault
    /\ UNCHANGED <<dbLoad, rows, dbUsers, server, req, last, dropped>>

\* The server's event scheduler.
EventFires ==
    /\ \E key \in server.events :
          server' = [DeleteUserOn(server, key) EXCEPT !.events = @ \ {key}]
    /\ UNCHANGED <<dbLoad, rows, dbUsers, jobs, req, last, faults, dropped>>

\* The API process stops in the middle of a request.
Crash ==
    /\ req.pc # "idle" /\ DbFault
    /\ req' = NoReq
    /\ UNCHANGED <<dbLoad, rows, dbUsers, server, jobs, last, dropped>>

DatabasesNext ==
    \/ CreateDatabase \/ InsertDatabase \/ EnqueueCreate
    \/ DeleteDatabase \/ EnqueueDelete \/ DeleteDatabaseRow
    \/ CreateDBUser \/ InsertDBUser \/ EnqueueDBUserCreate \/ RotatePassword
    \/ DeleteDBUser \/ EnqueueDBUserDelete \/ DeleteDBUserRow
    \/ UpdateDBUserHost \/ UpdateDBUserGrant \/ GrantExistingUser
    \/ ImportDatabase \/ ImportUser \/ ResetPassword
    \/ PhpMyAdminCredentials \/ ScheduleTicket \/ PmaCredentials
    \/ databaseCreateTask \/ databaseDeleteTask
    \/ dbUserCreateTask \/ dbUserCreatePostgres \/ dbUserDeleteTask
    \/ GiveUp \/ EventFires \/ Crash

DatabasesSpec == DatabasesInit /\ [][DatabasesNext]_databaseVars

-----------------------------------------------------------------------------
(* Properties. *)

\* One thing that goes wrong does not lose a database: while its row lives, a
\* database made for a site is on the server or its job is on the way, unless two
\* things failed or a deletion named it (phpMyAdmin and users do not matter here).
OneFaultTolerated ==
    faults < 2 =>
        \A d \in LiveDbs :
            LET name == <<"mysql", rows[d].real>>
            IN  rows[d].made /\ rows[d].type = "mysql" =>
                    \/ name \in server.dbs \/ name \in dropped
                    \/ req.pc = "create job" /\ req.id = d
                    \/ \E j \in jobs : j.kind = "database.create" /\ j.id = d

=============================================================================
