----------------------------- MODULE DataProofs -----------------------------
(***************************************************************************)
(* Proofs about the data of the sites: one fault loses no database, a      *)
(* completed backup keeps a copy, a restore that fails once leaves a whole *)
(* site, the clean-up deletes the archives of the records it removes, a    *)
(* tick of the scheduler handles every plan that is due, and a plan's next *)
(* run is the earliest minute its expression names.  They hold for every   *)
(* number of rows, backups, providers, plans, jobs and requests, for every *)
(* load, calendar and cron expression.                                     *)
(***************************************************************************)
EXTENDS Databases, BackupCopies, BackupPlans, FiniteSetTheorems, WellFoundedInduction, TLAPS

-----------------------------------------------------------------------------
(* Databases: one fault loses no database *)

ServerFields == {"dbs", "accounts", "grants", "events"}
RequestFields == {"pc", "id", "db", "user", "pw", "ok"}
RowFields == {"live", "site", "name", "real", "type", "made"}

\* What the databases depend on has its shape.
ShapeInv ==
    /\ faults \in Nat
    /\ DOMAIN server = ServerFields /\ DOMAIN req = RequestFields
    /\ DOMAIN rows = DbIds /\ \A d \in DbIds : DOMAIN rows[d] = RowFields

\* A database whose creation was asked for is on the server or was dropped; if its
\* direct creation failed, that fault is spent and the creation is on its way;
\* and it takes a second fault to lose it.
Made(d) == rows[d].live /\ rows[d].made /\ rows[d].type = "mysql"
Settled(name) == name \in server.dbs \/ name \in dropped
CreateAsked(d) == req.pc = "create job" /\ req.id = d /\ req.db.real = rows[d].real
CreateQueued(d) == \E j \in jobs : j.kind = "database.create" /\ j.id = d /\ j.name = rows[d].real
Held(d) ==
    \/ Settled(<<"mysql", rows[d].real>>)
    \/ faults >= 2
    \/ faults >= 1 /\ (CreateAsked(d) \/ CreateQueued(d))
HeldInv == \A d \in DbIds : Made(d) => Held(d)

\* What a request carries between its steps.
InsertInv ==
    req.pc = "insert database" =>
        /\ DOMAIN req.db = RowFields
        /\ req.db.type = "mysql" => \/ Settled(<<"mysql", req.db.real>>)
                                    \/ ~req.ok /\ faults >= 1
DropInv ==
    /\ req.pc = "delete job" => <<req.db.type, req.db.name>> \in dropped
    /\ \A j \in jobs : j.kind = "database.delete" => <<j.type, j.name>> \in dropped

FaultInv == ShapeInv /\ HeldInv /\ InsertInv /\ DropInv

\* Nothing is removed from the server that no deletion named, and no fault undone.
Keeps ==
    /\ \A n \in server.dbs : n \in server'.dbs \/ n \in dropped'
    /\ \A n \in dropped : n \in dropped'
    /\ faults' \in Nat /\ faults' >= faults

\* The statements about accounts touch no database.
LEMMA AccountStatements ==
    ASSUME NEW srv, DOMAIN srv = ServerFields, NEW key, NEW pw, NEW name
    PROVE  /\ DOMAIN WithAccount(srv, key, pw) = ServerFields /\ WithAccount(srv, key, pw).dbs = srv.dbs
           /\ DOMAIN CreateUserOn(srv, key, pw, name) = ServerFields /\ CreateUserOn(srv, key, pw, name).dbs = srv.dbs
           /\ DOMAIN DeleteUserOn(srv, key) = ServerFields /\ DeleteUserOn(srv, key).dbs = srv.dbs
           /\ DOMAIN ChangePasswordOn(srv, key, pw) = ServerFields /\ ChangePasswordOn(srv, key, pw).dbs = srv.dbs
           /\ DOMAIN ScheduleDeleteUserOn(srv, key) = ServerFields /\ ScheduleDeleteUserOn(srv, key).dbs = srv.dbs
<1>1. DOMAIN WithAccount(srv, key, pw) = ServerFields /\ WithAccount(srv, key, pw).dbs = srv.dbs
  BY DEF WithAccount, ServerFields
<1>2. DOMAIN CreateUserOn(srv, key, pw, name) = ServerFields /\ CreateUserOn(srv, key, pw, name).dbs = srv.dbs
  <2> PICK made : made = IF Known(srv, key) THEN srv ELSE WithAccount(srv, key, pw)
    OBVIOUS
  <2>1. DOMAIN made = ServerFields /\ made.dbs = srv.dbs
    BY <1>1
  <2> QED BY <2>1 DEF CreateUserOn, ServerFields
<1>3. DOMAIN DeleteUserOn(srv, key) = ServerFields /\ DeleteUserOn(srv, key).dbs = srv.dbs
  BY DEF DeleteUserOn, ServerFields
<1>4. DOMAIN ScheduleDeleteUserOn(srv, key) = ServerFields /\ ScheduleDeleteUserOn(srv, key).dbs = srv.dbs
  BY DEF ScheduleDeleteUserOn, ServerFields
<1> QED BY <1>1, <1>2, <1>3, <1>4 DEF ChangePasswordOn

LEMMA AtLeastKept == \A m, n \in Nat : n >= m => (m >= 1 => n >= 1) /\ (m >= 2 => n >= 2)
  OBVIOUS

\* A step that keeps what is settled, the creation asked for and the creations
\* queued keeps every database held.
LEMMA HeldKept ==
    ASSUME ShapeInv, HeldInv, Keeps, rows' = rows,
           req.pc = "create job" => req' = req,
           \A j \in jobs : j.kind = "database.create" => j \in jobs'
    PROVE  HeldInv'
<1> SUFFICES ASSUME NEW d \in DbIds, Made(d)'
             PROVE  Held(d)'
  BY DEF HeldInv
<1>1. Made(d) /\ Held(d)
  BY DEF HeldInv, Made
<1>2. faults \in Nat /\ faults' \in Nat /\ faults' >= faults
  BY DEF ShapeInv, Keeps
<1>3. (faults >= 1 => faults' >= 1) /\ (faults >= 2 => faults' >= 2)
  BY <1>2, AtLeastKept, Zenon
<1>4. CASE Settled(<<"mysql", rows[d].real>>)
  BY <1>4 DEF Keeps, Held, Settled
<1>5. CASE faults >= 2
  BY <1>3, <1>5, Zenon DEF Held
<1>6. CASE faults >= 1 /\ CreateAsked(d)
  <2>1. CreateAsked(d)'
    BY <1>6 DEF CreateAsked
  <2> QED BY <1>3, <1>6, <2>1, Zenon DEF Held
<1>7. CASE faults >= 1 /\ CreateQueued(d)
  <2>1. CreateQueued(d)'
    BY <1>7 DEF CreateQueued
  <2> QED BY <1>3, <1>7, <2>1, Zenon DEF Held
<1> QED BY <1>1, <1>4, <1>5, <1>6, <1>7 DEF Held

\* The same for what the request under way carries.
LEMMA CarriedKept ==
    ASSUME ShapeInv, InsertInv, DropInv, Keeps,
           \/ req' = req
           \/ req'.pc \notin {"insert database", "delete job"},
           \A j \in jobs' : j \in jobs \/ j.kind # "database.delete"
    PROVE  InsertInv' /\ DropInv'
<1>1. faults >= 1 => faults' >= 1
  <2>1. faults \in Nat /\ faults' \in Nat /\ faults' >= faults
    BY DEF ShapeInv, Keeps
  <2> QED BY <2>1, AtLeastKept, Zenon
<1>2. CASE req' = req
  <2>1. \A n : Settled(n) => Settled(n)'
    BY DEF Keeps, Settled
  <2>2. InsertInv'
    BY <1>1, <1>2, <2>1 DEF InsertInv
  <2>3. DropInv'
    BY <1>2 DEF DropInv, Keeps
  <2> QED BY <2>2, <2>3
<1>3. CASE req'.pc \notin {"insert database", "delete job"}
  <2>1. InsertInv'
    BY <1>3 DEF InsertInv
  <2>2. DropInv'
    BY <1>3 DEF DropInv, Keeps
  <2> QED BY <2>1, <2>2
<1> QED BY <1>2, <1>3

\* A step on users, passwords and tickets keeps the invariant.
Elsewhere ==
    /\ rows' = rows /\ dropped' = dropped
    /\ faults' \in Nat /\ faults' >= faults
    /\ DOMAIN server' = ServerFields /\ server'.dbs = server.dbs
    /\ DOMAIN req' = RequestFields
    /\ req' = req \/ (req.pc # "create job" /\ req'.pc \notin {"insert database", "delete job"})
    /\ \A j \in jobs : j.kind = "database.create" => j \in jobs'
    /\ \A j \in jobs' : j \in jobs \/ j.kind # "database.delete"

LEMMA ElsewhereKeeps == FaultInv /\ Elsewhere => FaultInv'
<1> SUFFICES ASSUME FaultInv, Elsewhere
             PROVE  FaultInv'
  OBVIOUS
<1>1. ShapeInv'
  BY DEF FaultInv, ShapeInv, Elsewhere
<1>2. Keeps
  BY DEF Keeps, Elsewhere
<1>3. HeldInv'
  BY <1>2, HeldKept DEF FaultInv, Elsewhere
<1>4. InsertInv' /\ DropInv'
  BY <1>2, CarriedKept DEF FaultInv, Elsewhere
<1> QED BY <1>1, <1>3, <1>4 DEF FaultInv

ServerKept == DOMAIN server' = ServerFields /\ server'.dbs = server.dbs
FaultsKept == faults' \in Nat /\ faults' >= faults

LEMMA FaultCounted == ShapeInv /\ (DbFault \/ UNCHANGED faults) => FaultsKept
<1>1. \A n \in Nat : n + 1 \in Nat /\ n + 1 >= n /\ n >= n
  OBVIOUS
<1> QED BY <1>1 DEF ShapeInv, DbFault, FaultsKept

\* A statement about accounts, whether it fails or not.
LEMMA DirectKept ==
    ASSUME ShapeInv, NEW ok, NEW result, DOMAIN result = ServerFields, result.dbs = server.dbs
    PROVE  Direct(result, ok) => ServerKept /\ FaultsKept
<1>1. Direct(result, ok) => ServerKept
  BY DEF Direct, ServerKept, ShapeInv
<1>2. Direct(result, ok) => (DbFault \/ UNCHANGED faults)
  BY DEF Direct
<1> QED BY <1>1, <1>2, FaultCounted

LEMMA DirectUserKept ==
    ASSUME ShapeInv, NEW ok, NEW key, NEW pw, NEW name
    PROVE  DirectUser(key, pw, name, ok) => ServerKept /\ FaultsKept
<1> SUFFICES ASSUME DirectUser(key, pw, name, ok)
             PROVE  ServerKept /\ FaultsKept
  OBVIOUS
<1> PICK srv : srv = server
  OBVIOUS
<1>1. DOMAIN srv = ServerFields
  BY DEF ShapeInv
<1>2. PICK made : made = CreateUserOn(srv, key, pw, name)
  OBVIOUS
<1>3. DOMAIN made = ServerFields /\ made.dbs = server.dbs
  BY <1>1, <1>2, AccountStatements
<1>4. CASE Direct(made, ok)
  BY <1>3, <1>4, DirectKept
<1>5. CASE ~ok /\ DbFault /\ server' = made
  BY <1>3, <1>5, FaultCounted DEF ServerKept
<1>6. CASE ~ok /\ DbFault /\ server' = WithAccount(srv, key, pw)
  <2>1. ServerKept
    BY <1>1, <1>6, AccountStatements DEF ServerKept
  <2> QED BY <1>6, <2>1, FaultCounted
<1> QED BY <1>2, <1>4, <1>5, <1>6 DEF DirectUser

LEMMA NoReqShape == DOMAIN NoReq = RequestFields /\ NoReq.pc = "idle"
  BY DEF NoReq, RequestFields

\* What such a step must show of the request: it was not about a database.
ReqElsewhere ==
    /\ DOMAIN req' = RequestFields
    /\ req' = req \/ (req.pc # "create job" /\ req'.pc \notin {"insert database", "delete job"})
JobsElsewhere ==
    /\ \A j \in jobs : j.kind = "database.create" => j \in jobs'
    /\ \A j \in jobs' : j \in jobs \/ j.kind # "database.delete"

LEMMA ElsewhereParts ==
    UNCHANGED <<rows, dropped>> /\ ServerKept /\ FaultsKept /\ ReqElsewhere /\ JobsElsewhere => Elsewhere
  BY DEF Elsewhere, ServerKept, FaultsKept, ReqElsewhere, JobsElsewhere

\* Requests about the users of a database.
LEMMA CreateDBUserElsewhere == ShapeInv /\ CreateDBUser => Elsewhere
<1> SUFFICES ASSUME ShapeInv, CreateDBUser
             PROVE  Elsewhere
  OBVIOUS
<1>1. PICK key, pw, name, ok : DirectUser(key, pw, name, ok) \/ UNCHANGED <<server, faults>>
  BY DEF CreateDBUser
<1>2. PICK d \in LiveDbs, u \in Logins, raw \in RawHosts, done \in BOOLEAN :
          req' = [NoReq EXCEPT !.pc = "insert user", !.ok = done, !.pw = Fresh, !.db = rows[d],
                    !.user = [live |-> TRUE, db |-> d, user |-> u, host |-> canonicalDBHost(raw), hash |-> Fresh,
                              enc |-> IF done THEN Fresh ELSE 0]]
  BY Zenon DEF CreateDBUser
<1>3. ServerKept /\ FaultsKept
  <2>1. CASE DirectUser(key, pw, name, ok)
    BY <2>1, DirectUserKept
  <2>2. CASE UNCHANGED <<server, faults>>
    BY <2>2, FaultCounted DEF ServerKept, ShapeInv
  <2> QED BY <1>1, <2>1, <2>2
<1>4. ReqElsewhere
  <2>1. req.pc = "idle"
    BY DEF CreateDBUser, DbIdle
  <2>2. DOMAIN req' = RequestFields /\ req'.pc = "insert user"
    BY <1>2, NoReqShape DEF RequestFields
  <2> QED BY <2>1, <2>2 DEF ReqElsewhere
<1> QED BY <1>3, <1>4, ElsewhereParts DEF CreateDBUser, JobsElsewhere

LEMMA InsertDBUserElsewhere == ShapeInv /\ InsertDBUser => Elsewhere
<1> SUFFICES ASSUME ShapeInv, InsertDBUser
             PROVE  Elsewhere
  OBVIOUS
<1>1. PICK u \in FreeUser : req' = IF req.ok THEN NoReq ELSE [req EXCEPT !.pc = "user job", !.id = u]
  BY DEF InsertDBUser
<1>2. req.pc = "insert user" /\ DOMAIN req = RequestFields
  BY DEF InsertDBUser, ShapeInv
<1>3. DOMAIN req' = RequestFields /\ req'.pc \in {"idle", "user job"}
  BY <1>1, <1>2, NoReqShape DEF RequestFields
<1>4. ReqElsewhere
  BY <1>2, <1>3 DEF ReqElsewhere
<1>5. ServerKept /\ FaultsKept
  BY FaultCounted DEF InsertDBUser, ServerKept, ShapeInv
<1> QED BY <1>4, <1>5, ElsewhereParts DEF InsertDBUser, JobsElsewhere

LEMMA EnqueueUserElsewhere == ShapeInv /\ (EnqueueDBUserCreate \/ EnqueueDBUserDelete) => Elsewhere
<1> SUFFICES ASSUME ShapeInv, EnqueueDBUserCreate \/ EnqueueDBUserDelete
             PROVE  Elsewhere
  OBVIOUS
<1>1. UserJob("dbuser.create").kind = "dbuser.create" /\ UserJob("dbuser.delete").kind = "dbuser.delete"
  BY DEF UserJob
<1>2. JobsElsewhere
  <2>1. \/ jobs' = jobs \cup {UserJob("dbuser.create")}
        \/ jobs' = jobs \cup {UserJob("dbuser.delete")}
        \/ jobs' = jobs
    BY DEF EnqueueDBUserCreate, EnqueueDBUserDelete
  <2> PICK j1, j2 : j1 = UserJob("dbuser.create") /\ j2 = UserJob("dbuser.delete")
    OBVIOUS
  <2>2. j1.kind # "database.delete" /\ j2.kind # "database.delete"
    BY <1>1
  <2>3. jobs' = jobs \cup {j1} \/ jobs' = jobs \cup {j2} \/ jobs' = jobs
    BY <2>1
  <2> QED BY <2>2, <2>3 DEF JobsElsewhere
<1>3. ReqElsewhere
  <2>1. req.pc \in {"user job", "user delete job"} /\ DOMAIN req = RequestFields
    BY DEF EnqueueDBUserCreate, EnqueueDBUserDelete, ShapeInv
  <2>2. req' = NoReq \/ req' = Go("delete user row")
    BY DEF EnqueueDBUserCreate, EnqueueDBUserDelete
  <2>3. DOMAIN req' = RequestFields /\ req'.pc \in {"idle", "delete user row"}
    BY <2>1, <2>2, NoReqShape DEF Go, RequestFields
  <2> QED BY <2>1, <2>3 DEF ReqElsewhere
<1>4. ServerKept /\ FaultsKept
  <2>1. UNCHANGED server /\ (DbFault \/ UNCHANGED faults)
    BY DEF EnqueueDBUserCreate, EnqueueDBUserDelete
  <2> QED BY <2>1, FaultCounted DEF ServerKept, ShapeInv
<1> QED BY <1>2, <1>3, <1>4, ElsewhereParts DEF EnqueueDBUserCreate, EnqueueDBUserDelete

LEMMA RotatePasswordElsewhere == ShapeInv /\ RotatePassword => Elsewhere
<1> SUFFICES ASSUME ShapeInv, RotatePassword
             PROVE  Elsewhere
  OBVIOUS
<1>1. PICK u \in LiveUsers, ok \in BOOLEAN :
          LET db == rows[dbUsers[u].db]
              key == Key(db.type, dbUsers[u].user, dbUsers[u].host)
          IN  /\ \/ Direct(ChangePasswordOn(server, key, Fresh), ok)
                 \/ UNCHANGED <<server, faults>>
              /\ req' = [NoReq EXCEPT !.pc = "user job", !.id = u, !.pw = Fresh, !.db = db, !.user = dbUsers[u]]
  BY DEF RotatePassword
<1>2. ServerKept /\ FaultsKept
  <2> PICK key : key = Key(rows[dbUsers[u].db].type, dbUsers[u].user, dbUsers[u].host)
    OBVIOUS
  <2> PICK pw : pw = Fresh
    OBVIOUS
  <2> PICK srv : srv = server
    OBVIOUS
  <2>1. DOMAIN srv = ServerFields
    BY DEF ShapeInv
  <2>2. PICK result : result = ChangePasswordOn(srv, key, pw)
    OBVIOUS
  <2>3. DOMAIN result = ServerFields /\ result.dbs = server.dbs
    BY <2>1, <2>2, AccountStatements
  <2>4. CASE Direct(result, ok)
    BY <2>3, <2>4, DirectKept
  <2>5. CASE UNCHANGED <<server, faults>>
    BY <2>5, FaultCounted DEF ServerKept, ShapeInv
  <2> QED BY <1>1, <2>2, <2>4, <2>5
<1>3. ReqElsewhere
  <2>1. req.pc = "idle"
    BY DEF RotatePassword, DbIdle
  <2>2. DOMAIN req' = RequestFields /\ req'.pc = "user job"
    BY <1>1, NoReqShape DEF RequestFields
  <2> QED BY <2>1, <2>2 DEF ReqElsewhere
<1> QED BY <1>2, <1>3, ElsewhereParts DEF RotatePassword, JobsElsewhere

LEMMA DeleteDBUserElsewhere == ShapeInv /\ DeleteDBUser => Elsewhere
<1> SUFFICES ASSUME ShapeInv, DeleteDBUser
             PROVE  Elsewhere
  OBVIOUS
<1>1. PICK u \in LiveUsers, ok \in BOOLEAN :
          LET db == rows[dbUsers[u].db]
          IN  /\ \/ Direct(DeleteUserOn(server, Key("mysql", dbUsers[u].user, dbUsers[u].host)), ok)
                 \/ UNCHANGED <<server, faults>>
              /\ req' = [NoReq EXCEPT !.pc = "user delete job", !.id = u, !.db = db, !.user = dbUsers[u]]
  BY DEF DeleteDBUser
<1>2. ServerKept /\ FaultsKept
  <2> PICK key : key = Key("mysql", dbUsers[u].user, dbUsers[u].host)
    OBVIOUS
  <2> PICK srv : srv = server
    OBVIOUS
  <2>1. DOMAIN srv = ServerFields
    BY DEF ShapeInv
  <2>2. PICK result : result = DeleteUserOn(srv, key)
    OBVIOUS
  <2>3. DOMAIN result = ServerFields /\ result.dbs = server.dbs
    BY <2>1, <2>2, AccountStatements
  <2>4. CASE Direct(result, ok)
    BY <2>3, <2>4, DirectKept
  <2>5. CASE UNCHANGED <<server, faults>>
    BY <2>5, FaultCounted DEF ServerKept, ShapeInv
  <2> QED BY <1>1, <2>2, <2>4, <2>5
<1>3. ReqElsewhere
  <2>1. req.pc = "idle"
    BY DEF DeleteDBUser, DbIdle
  <2>2. DOMAIN req' = RequestFields /\ req'.pc = "user delete job"
    BY <1>1, NoReqShape DEF RequestFields
  <2> QED BY <2>1, <2>2 DEF ReqElsewhere
<1> QED BY <1>2, <1>3, ElsewhereParts DEF DeleteDBUser, JobsElsewhere

LEMMA DeleteDBUserRowElsewhere == ShapeInv /\ DeleteDBUserRow => Elsewhere
<1> SUFFICES ASSUME ShapeInv, DeleteDBUserRow
             PROVE  Elsewhere
  OBVIOUS
<1>1. ReqElsewhere
  BY NoReqShape DEF DeleteDBUserRow, ReqElsewhere
<1>2. ServerKept /\ FaultsKept
  BY FaultCounted DEF DeleteDBUserRow, ServerKept, ShapeInv
<1> QED BY <1>1, <1>2, ElsewhereParts DEF DeleteDBUserRow, JobsElsewhere

LEMMA UpdateDBUserHostElsewhere == ShapeInv /\ UpdateDBUserHost => Elsewhere
<1> SUFFICES ASSUME ShapeInv, UpdateDBUserHost
             PROVE  Elsewhere
  OBVIOUS
<1>1. PICK u \in LiveUsers, raw \in RawHosts, ok \in BOOLEAN :
          LET db == rows[dbUsers[u].db]
              host == canonicalDBHost(raw)
              old == Key("mysql", dbUsers[u].user, dbUsers[u].host)
              bare == DeleteUserOn(server, old)
              moved == IF dbUsers[u].enc = 0 THEN bare
                       ELSE CreateUserOn(bare, Key("mysql", dbUsers[u].user, host), dbUsers[u].enc, db.name)
          IN  \/ Direct(moved, ok)
              \/ ~ok /\ server' = bare /\ DbFault
  BY DEF UpdateDBUserHost
<1> PICK key : key = Key("mysql", dbUsers[u].user, dbUsers[u].host)
  OBVIOUS
<1> PICK new : new = Key("mysql", dbUsers[u].user, canonicalDBHost(raw))
  OBVIOUS
<1> PICK pw, name : pw = dbUsers[u].enc /\ name = rows[dbUsers[u].db].name
  OBVIOUS
<1> PICK srv : srv = server
  OBVIOUS
<1>2. PICK bare : bare = DeleteUserOn(srv, key)
  OBVIOUS
<1>3. DOMAIN bare = ServerFields /\ bare.dbs = server.dbs
  BY <1>2, AccountStatements DEF ShapeInv
<1>4. PICK moved : moved = IF pw = 0 THEN bare ELSE CreateUserOn(bare, new, pw, name)
  OBVIOUS
<1>5. DOMAIN moved = ServerFields /\ moved.dbs = server.dbs
  BY <1>3, <1>4, AccountStatements
<1>6. Direct(moved, ok) \/ (server' = bare /\ DbFault)
  BY <1>1, <1>2, <1>4
<1>7. ServerKept /\ FaultsKept
  <2>1. CASE Direct(moved, ok)
    BY <1>5, <2>1, DirectKept
  <2>2. CASE server' = bare /\ DbFault
    BY <1>3, <2>2, FaultCounted DEF ServerKept
  <2> QED BY <1>6, <2>1, <2>2
<1>8. ReqElsewhere
  BY DEF UpdateDBUserHost, ReqElsewhere, ShapeInv
<1> QED BY <1>7, <1>8, ElsewhereParts DEF UpdateDBUserHost, JobsElsewhere

LEMMA UpdateDBUserGrantElsewhere == ShapeInv /\ UpdateDBUserGrant => Elsewhere
<1> SUFFICES ASSUME ShapeInv, UpdateDBUserGrant
             PROVE  Elsewhere
  OBVIOUS
<1>1. PICK grant, ok : Direct([server EXCEPT !.grants = @ \cup {grant}], ok)
  BY DEF UpdateDBUserGrant
<1>2. PICK result : result = [server EXCEPT !.grants = @ \cup {grant}]
  OBVIOUS
<1>3. DOMAIN result = ServerFields /\ result.dbs = server.dbs
  BY <1>2 DEF ShapeInv, ServerFields
<1>4. Direct(result, ok)
  BY <1>1, <1>2
<1>5. ServerKept /\ FaultsKept
  BY <1>3, <1>4, DirectKept
<1>6. ReqElsewhere
  BY DEF UpdateDBUserGrant, ReqElsewhere, ShapeInv
<1> QED BY <1>5, <1>6, ElsewhereParts DEF UpdateDBUserGrant, JobsElsewhere

LEMMA GrantExistingUserElsewhere == ShapeInv /\ GrantExistingUser => Elsewhere
<1> SUFFICES ASSUME ShapeInv, GrantExistingUser
             PROVE  Elsewhere
  OBVIOUS
<1>1. PICK d \in LiveDbs, u \in Logins, raw \in RawHosts :
          LET host == canonicalDBHost(raw)
              key == Key("mysql", u, host)
              granted == IF Known(server, key) THEN [server EXCEPT !.grants = @ \cup {<<key, rows[d].name>>}]
                         ELSE server
          IN  \/ server' = granted
              \/ server' = IF Known(server, key) THEN ChangePasswordOn(granted, key, Fresh) ELSE granted
  BY DEF GrantExistingUser
<1> PICK key : key = Key("mysql", u, canonicalDBHost(raw))
  OBVIOUS
<1> PICK pw : pw = Fresh
  OBVIOUS
<1>2. PICK granted : granted = IF Known(server, key) THEN [server EXCEPT !.grants = @ \cup {<<key, rows[d].name>>}]
                               ELSE server
  OBVIOUS
<1>3. DOMAIN granted = ServerFields /\ granted.dbs = server.dbs
  BY <1>2 DEF ShapeInv, ServerFields
<1>4. server' = granted \/ server' = ChangePasswordOn(granted, key, pw)
  BY <1>1, <1>2
<1>5. ServerKept
  BY <1>3, <1>4, AccountStatements DEF ServerKept
<1>6. FaultsKept
  BY FaultCounted DEF GrantExistingUser
<1>7. ReqElsewhere
  BY DEF GrantExistingUser, ReqElsewhere, ShapeInv
<1> QED BY <1>5, <1>6, <1>7, ElsewhereParts DEF GrantExistingUser, JobsElsewhere

LEMMA ImportUserElsewhere == ShapeInv /\ ImportUser => Elsewhere
<1> SUFFICES ASSUME ShapeInv, ImportUser
             PROVE  Elsewhere
  OBVIOUS
<1>1. ServerKept /\ FaultsKept
  BY FaultCounted DEF ImportUser, ServerKept, ShapeInv
<1>2. ReqElsewhere
  BY DEF ImportUser, ReqElsewhere, ShapeInv
<1> QED BY <1>1, <1>2, ElsewhereParts DEF ImportUser, JobsElsewhere

LEMMA ResetPasswordElsewhere == ShapeInv /\ ResetPassword => Elsewhere
<1> SUFFICES ASSUME ShapeInv, ResetPassword
             PROVE  Elsewhere
  OBVIOUS
<1>1. PICK u \in LiveUsers : server' = ChangePasswordOn(server, Key("mysql", dbUsers[u].user, dbUsers[u].host), Fresh)
  BY DEF ResetPassword
<1> PICK key : key = Key("mysql", dbUsers[u].user, dbUsers[u].host)
  OBVIOUS
<1> PICK pw, srv : pw = Fresh /\ srv = server
  OBVIOUS
<1>2. server' = ChangePasswordOn(srv, key, pw) /\ DOMAIN srv = ServerFields
  BY <1>1 DEF ShapeInv
<1>3. ServerKept
  BY <1>2, AccountStatements DEF ServerKept
<1>4. FaultsKept
  BY FaultCounted DEF ResetPassword
<1>5. ReqElsewhere
  BY DEF ResetPassword, ReqElsewhere, ShapeInv
<1> QED BY <1>3, <1>4, <1>5, ElsewhereParts DEF ResetPassword, JobsElsewhere

\* Tickets for phpMyAdmin.
LEMMA PhpMyAdminElsewhere == ShapeInv /\ PhpMyAdminCredentials => Elsewhere
<1> SUFFICES ASSUME ShapeInv, PhpMyAdminCredentials
             PROVE  Elsewhere
  OBVIOUS
<1>1. PICK d \in LiveDbs, ok \in BOOLEAN :
          /\ DirectUser(TicketKey(d, Fresh), Fresh, rows[d].name, ok)
          /\ req' = IF ok THEN [NoReq EXCEPT !.pc = "schedule", !.id = d, !.pw = Fresh] ELSE NoReq
  BY DEF PhpMyAdminCredentials
<1> PICK pw, key, name : pw = Fresh /\ key = TicketKey(d, Fresh) /\ name = rows[d].name
  OBVIOUS
<1>2. DirectUser(key, pw, name, ok)
  BY <1>1
<1>3. ServerKept /\ FaultsKept
  BY <1>2, DirectUserKept
<1>4. ReqElsewhere
  <2>1. req.pc = "idle"
    BY DEF PhpMyAdminCredentials, DbIdle
  <2>2. DOMAIN req' = RequestFields /\ req'.pc \in {"schedule", "idle"}
    BY <1>1, NoReqShape DEF RequestFields
  <2> QED BY <2>1, <2>2 DEF ReqElsewhere
<1> QED BY <1>3, <1>4, ElsewhereParts DEF PhpMyAdminCredentials, JobsElsewhere

LEMMA ScheduleTicketElsewhere == ShapeInv /\ ScheduleTicket => Elsewhere
<1> SUFFICES ASSUME ShapeInv, ScheduleTicket
             PROVE  Elsewhere
  OBVIOUS
<1> PICK key, srv : key = TicketKey(req.id, req.pw) /\ srv = server
  OBVIOUS
<1>1. server' = ScheduleDeleteUserOn(srv, key) \/ server' = DeleteUserOn(srv, key) \/ server' = srv
  BY DEF ScheduleTicket
<1>2. DOMAIN srv = ServerFields
  BY DEF ShapeInv
<1>3. ServerKept
  BY <1>1, <1>2, AccountStatements DEF ServerKept
<1>4. FaultsKept
  BY FaultCounted DEF ScheduleTicket
<1>5. ReqElsewhere
  BY NoReqShape DEF ScheduleTicket, ReqElsewhere
<1> QED BY <1>3, <1>4, <1>5, ElsewhereParts DEF ScheduleTicket, JobsElsewhere

LEMMA PmaCredentialsElsewhere == ShapeInv /\ PmaCredentials => Elsewhere
<1> SUFFICES ASSUME ShapeInv, PmaCredentials
             PROVE  Elsewhere
  OBVIOUS
<1>1. PICK d \in LiveDbs, ok \in BOOLEAN :
          DirectUser(Key("mysql", <<"pma", d, Fresh>>, "localhost"), Fresh, rows[d].name, ok)
  BY DEF PmaCredentials
<1> PICK pw, key, name : pw = Fresh /\ key = Key("mysql", <<"pma", d, Fresh>>, "localhost") /\ name = rows[d].name
  OBVIOUS
<1>2. DirectUser(key, pw, name, ok)
  BY <1>1
<1>3. ServerKept /\ FaultsKept
  BY <1>2, DirectUserKept
<1>4. ReqElsewhere
  BY DEF PmaCredentials, ReqElsewhere, ShapeInv
<1> QED BY <1>3, <1>4, ElsewhereParts DEF PmaCredentials, JobsElsewhere

\* The agent's tasks on users, and the event that drops a ticket.
LEMMA UserTaskElsewhere ==
    ShapeInv /\ (dbUserCreateTask \/ dbUserCreatePostgres \/ dbUserDeleteTask) => Elsewhere
<1> SUFFICES ASSUME ShapeInv, dbUserCreateTask \/ dbUserCreatePostgres \/ dbUserDeleteTask
             PROVE  Elsewhere
  OBVIOUS
<1>1. FaultsKept
  BY FaultCounted DEF dbUserCreateTask, dbUserCreatePostgres, dbUserDeleteTask
<1>2. ReqElsewhere
  BY DEF dbUserCreateTask, dbUserCreatePostgres, dbUserDeleteTask, ReqElsewhere, ShapeInv
<1> PICK srv : srv = server
  OBVIOUS
<1>3. DOMAIN srv = ServerFields
  BY DEF ShapeInv
<1>4. ServerKept
  <2>1. CASE dbUserCreateTask
    <3>1. PICK key, pw, name : server' = CreateUserOn(srv, key, pw, name)
      BY <2>1 DEF dbUserCreateTask
    <3> QED BY <1>3, <3>1, AccountStatements DEF ServerKept
  <2>2. CASE dbUserCreatePostgres
    <3>1. PICK key, pw, name : \/ server' = CreateUserOn(ChangePasswordOn(srv, key, pw), key, pw, name)
                               \/ server' = WithAccount(srv, key, pw)
      BY <2>2, Zenon DEF dbUserCreatePostgres
    <3>2. PICK mid : mid = ChangePasswordOn(srv, key, pw)
      OBVIOUS
    <3>3. DOMAIN mid = ServerFields /\ mid.dbs = server.dbs
      BY <1>3, <3>2, AccountStatements
    <3> QED BY <1>3, <3>1, <3>2, <3>3, AccountStatements DEF ServerKept
  <2>3. CASE dbUserDeleteTask
    <3>1. PICK key : server' = DeleteUserOn(srv, key)
      BY <2>3 DEF dbUserDeleteTask
    <3> QED BY <1>3, <3>1, AccountStatements DEF ServerKept
  <2> QED BY <2>1, <2>2, <2>3
<1>5. JobsElsewhere
  BY DEF dbUserCreateTask, dbUserCreatePostgres, dbUserDeleteTask, Task, JobsElsewhere
<1> QED BY <1>1, <1>2, <1>4, <1>5, ElsewhereParts DEF dbUserCreateTask, dbUserCreatePostgres, dbUserDeleteTask

LEMMA EventElsewhere == ShapeInv /\ EventFires => Elsewhere
<1> SUFFICES ASSUME ShapeInv, EventFires
             PROVE  Elsewhere
  OBVIOUS
<1>1. PICK key : server' = [DeleteUserOn(server, key) EXCEPT !.events = @ \ {key}]
  BY DEF EventFires
<1> PICK srv : srv = server
  OBVIOUS
<1>2. PICK bare : bare = DeleteUserOn(srv, key)
  OBVIOUS
<1>3. DOMAIN bare = ServerFields /\ bare.dbs = server.dbs
  BY <1>2, AccountStatements DEF ShapeInv
<1>4. server' = [bare EXCEPT !.events = @ \ {key}]
  BY <1>1, <1>2
<1>5. ServerKept
  BY <1>3, <1>4 DEF ServerKept, ServerFields
<1>6. FaultsKept
  BY FaultCounted DEF EventFires
<1>7. ReqElsewhere
  BY DEF EventFires, ReqElsewhere, ShapeInv
<1> QED BY <1>5, <1>6, <1>7, ElsewhereParts DEF EventFires, JobsElsewhere

-----------------------------------------------------------------------------
(* Requests and tasks about the databases themselves *)

LEMMA CreateDatabaseKeeps == FaultInv /\ CreateDatabase => FaultInv'
<1> SUFFICES ASSUME FaultInv, CreateDatabase
             PROVE  FaultInv'
  OBVIOUS
<1>1. PICK s \in DatabaseSites, k \in {0, 1}, b \in Bases, type \in Types, ok \in BOOLEAN :
          /\ req' = [NoReq EXCEPT !.pc = "insert database", !.ok = ok,
                                  !.db = DeclaredDb(s, <<k, b>>, type, TRUE)]
          /\ IF type = "mysql" THEN Direct(CreateDatabaseOn(server, type, <<k, b>>), ok)
             ELSE ~ok /\ UNCHANGED <<server, faults>>
  BY DEF CreateDatabase
<1> PICK name, db : name = <<k, b>> /\ db = DeclaredDb(s, <<k, b>>, type, TRUE)
  OBVIOUS
<1>2. DOMAIN db = RowFields /\ db.type = type /\ db.real = name
  BY DEF DeclaredDb, RowFields
<1>3. /\ DOMAIN req' = RequestFields /\ req'.pc = "insert database"
      /\ req'.db = db /\ req'.ok = ok
  BY <1>1 DEF NoReq, RequestFields
<1>4. req.pc = "idle" /\ ShapeInv
  BY DEF CreateDatabase, DbIdle, FaultInv
<1>5. /\ DOMAIN server' = ServerFields
      /\ \A n \in server.dbs : n \in server'.dbs
      /\ type = "mysql" => <<"mysql", name>> \in server'.dbs \/ (~ok /\ DbFault)
      /\ DbFault \/ UNCHANGED faults
  <2>1. CASE type = "mysql"
    <3>1. Direct(CreateDatabaseOn(server, "mysql", name), ok)
      BY <1>1, <2>1
    <3>2. CASE ok /\ server' = CreateDatabaseOn(server, "mysql", name) /\ UNCHANGED faults
      <4> DOMAIN server = ServerFields
        BY <1>4 DEF ShapeInv
      <4>1. DOMAIN server' = ServerFields /\ server'.dbs = server.dbs \cup {<<"mysql", name>>}
        BY <3>2 DEF CreateDatabaseOn, ServerFields
      <4> QED BY <3>2, <4>1
    <3>3. CASE ~ok /\ UNCHANGED server /\ DbFault
      BY <1>4, <3>3 DEF ShapeInv
    <3> QED BY <3>1, <3>2, <3>3 DEF Direct
  <2>2. CASE type # "mysql"
    BY <1>1, <1>4, <2>2 DEF ShapeInv
  <2> QED BY <2>1, <2>2
<1>6. FaultsKept /\ (DbFault => faults' >= 1)
  <2>1. \A n \in Nat : n + 1 >= 1
    OBVIOUS
  <2>2. DbFault => faults' >= 1
    BY <1>4, <2>1 DEF DbFault, ShapeInv
  <2> QED BY <1>4, <1>5, <2>2, FaultCounted
<1>7. rows' = rows /\ dropped' = dropped /\ jobs' = jobs
  BY DEF CreateDatabase
<1>8. Keeps
  BY <1>5, <1>6, <1>7 DEF Keeps, FaultsKept
<1>9. ShapeInv'
  BY <1>3, <1>4, <1>5, <1>6, <1>7 DEF ShapeInv, FaultsKept
<1>10. HeldInv'
  BY <1>4, <1>7, <1>8, HeldKept DEF FaultInv
<1>11. InsertInv'
  BY <1>2, <1>3, <1>5, <1>6 DEF InsertInv, Settled
<1>12. DropInv'
  BY <1>3, <1>7 DEF DropInv, FaultInv
<1> QED BY <1>9, <1>10, <1>11, <1>12 DEF FaultInv

\* The row is on the server, or the direct creation failed and the job is next.
LEMMA InsertDatabaseKeeps == FaultInv /\ InsertDatabase => FaultInv'
<1> SUFFICES ASSUME FaultInv, InsertDatabase
             PROVE  FaultInv'
  OBVIOUS
<1>1. PICK d \in FreeDb :
          /\ rows' = [rows EXCEPT ![d] = req.db]
          /\ req' = IF ~req.ok /\ req.db.type = "mysql" THEN [req EXCEPT !.pc = "create job", !.id = d] ELSE NoReq
  BY DEF InsertDatabase
<1>2. /\ req.pc = "insert database" /\ ShapeInv /\ d \in DbIds
      /\ UNCHANGED <<server, jobs, faults, dropped>>
  BY DEF InsertDatabase, FaultInv, FreeDb
<1>3. DOMAIN req.db = RowFields /\ (req.db.type = "mysql" => Settled(<<"mysql", req.db.real>>) \/ (~req.ok /\ faults >= 1))
  BY <1>2 DEF FaultInv, InsertInv
<1>4. /\ DOMAIN req' = RequestFields /\ req'.pc \in {"create job", "idle"}
      /\ ~req.ok /\ req.db.type = "mysql" => req'.pc = "create job" /\ req'.id = d /\ req'.db = req.db
  BY <1>1, <1>2, NoReqShape DEF ShapeInv, RequestFields
<1>5. DOMAIN rows' = DbIds /\ rows'[d] = req.db /\ \A e \in DbIds \ {d} : rows'[e] = rows[e]
  BY <1>1, <1>2 DEF ShapeInv
<1>6. ShapeInv'
  BY <1>2, <1>3, <1>4, <1>5 DEF ShapeInv
<1>7. HeldInv'
  <2> SUFFICES ASSUME NEW e \in DbIds, Made(e)'
               PROVE  Held(e)'
    BY DEF HeldInv
  <2>1. CASE e = d
    <3>1. CASE Settled(<<"mysql", req.db.real>>)
      BY <1>2, <1>5, <2>1, <3>1 DEF Held, Settled
    <3>2. CASE ~req.ok /\ faults >= 1
      <4>1. req.db.type = "mysql"
        BY <1>5, <2>1 DEF Made
      <4>2. CreateAsked(e)'
        BY <1>4, <1>5, <2>1, <3>2, <4>1 DEF CreateAsked
      <4> QED BY <1>2, <3>2, <4>2 DEF Held
    <3> QED BY <1>3, <1>5, <2>1, <3>1, <3>2 DEF Made
  <2>2. CASE e # d
    <3>1. rows'[e] = rows[e]
      BY <1>5, <2>2
    <3>2. Made(e) /\ Held(e) /\ ~CreateAsked(e)
      BY <1>2, <3>1 DEF FaultInv, HeldInv, Made, CreateAsked
    <3>3. CreateQueued(e) => CreateQueued(e)'
      BY <1>2, <3>1 DEF CreateQueued
    <3> QED BY <1>2, <3>1, <3>2, <3>3 DEF Held, Settled
  <2> QED BY <2>1, <2>2
<1>8. InsertInv'
  BY <1>4 DEF InsertInv
<1>9. DropInv'
  BY <1>2, <1>4 DEF DropInv, FaultInv
<1> QED BY <1>6, <1>7, <1>8, <1>9 DEF FaultInv

LEMMA SecondFault == \A n \in Nat : n >= 1 => n + 1 >= 2
  OBVIOUS

\* The creation goes from the request to the queue, or a second fault is spent.
LEMMA EnqueueCreateKeeps == FaultInv /\ EnqueueCreate => FaultInv'
<1> SUFFICES ASSUME FaultInv, EnqueueCreate
             PROVE  FaultInv'
  OBVIOUS
<1> PICK job : job = [kind |-> "database.create", id |-> req.id, type |-> "mysql",
                      name |-> req.db.real, user |-> NoLogin, host |-> "", pw |-> 0]
  OBVIOUS
<1>1. job.kind = "database.create" /\ job.id = req.id /\ job.name = req.db.real
  OBVIOUS
<1>2. \/ jobs' = jobs \cup {job} /\ UNCHANGED faults
      \/ UNCHANGED jobs /\ DbFault
  BY DEF EnqueueCreate
<1>3. req' = NoReq /\ UNCHANGED <<rows, server, dropped>> /\ ShapeInv
  BY DEF EnqueueCreate, FaultInv
<1>4. FaultsKept
  BY <1>2, <1>3, FaultCounted
<1>5. Keeps
  BY <1>3, <1>4 DEF Keeps, FaultsKept
<1>6. ShapeInv'
  BY <1>3, <1>4, NoReqShape DEF ShapeInv, FaultsKept
<1>7. HeldInv'
  <2> SUFFICES ASSUME NEW d \in DbIds, Made(d)'
               PROVE  Held(d)'
    BY DEF HeldInv
  <2>1. Made(d) /\ Held(d)
    BY <1>3 DEF FaultInv, HeldInv, Made
  <2>2. (faults >= 1 => faults' >= 1) /\ (faults >= 2 => faults' >= 2)
    BY <1>3, <1>4, AtLeastKept DEF ShapeInv, FaultsKept
  <2>3. CASE Settled(<<"mysql", rows[d].real>>)
    BY <1>3, <2>3 DEF Held, Settled
  <2>4. CASE faults >= 2
    BY <2>2, <2>4, Zenon DEF Held
  <2>5. CASE faults >= 1 /\ CreateQueued(d)
    <3>1. CreateQueued(d)'
      BY <1>2, <1>3, <2>5 DEF CreateQueued
    <3> QED BY <2>2, <2>5, <3>1, Zenon DEF Held
  <2>6. CASE faults >= 1 /\ CreateAsked(d)
    <3>1. CASE jobs' = jobs \cup {job}
      <4>1. job \in jobs' /\ job.id = d /\ job.name = rows'[d].real
        BY <1>1, <1>3, <2>6, <3>1 DEF CreateAsked
      <4>2. CreateQueued(d)'
        BY <1>1, <4>1 DEF CreateQueued
      <4> QED BY <2>2, <2>6, <4>2, Zenon DEF Held
    <3>2. CASE DbFault
      <4>1. faults' >= 2
        BY <1>3, <2>6, <3>2, SecondFault DEF DbFault, ShapeInv
      <4> QED BY <4>1 DEF Held
    <3> QED BY <1>2, <3>1, <3>2
  <2> QED BY <2>1, <2>3, <2>4, <2>5, <2>6 DEF Held
<1>8. InsertInv' /\ DropInv'
  <2>1. req'.pc \notin {"insert database", "delete job"}
    BY <1>3, NoReqShape
  <2>2. \A j \in jobs' : j \in jobs \/ j.kind # "database.delete"
    BY <1>1, <1>2
  <2> QED BY <1>3, <1>5, <2>1, <2>2, CarriedKept DEF FaultInv
<1> QED BY <1>6, <1>7, <1>8 DEF FaultInv

\* What is dropped from the server is named first.
LEMMA DropStatement ==
    ASSUME NEW srv, DOMAIN srv = ServerFields, NEW type, NEW name
    PROVE  /\ DOMAIN DropDatabaseOn(srv, type, name) = ServerFields
           /\ \A n \in srv.dbs : n \in DropDatabaseOn(srv, type, name).dbs \/ n = <<type, name>>
<1>1. DOMAIN DropDatabaseOn(srv, type, name) = ServerFields
  BY DEF DropDatabaseOn, ServerFields
<1>2. DropDatabaseOn(srv, type, name).dbs = srv.dbs \ {<<type, name>>}
  BY DEF DropDatabaseOn, ServerFields
<1> QED BY <1>1, <1>2

LEMMA DeleteDatabaseKeeps == FaultInv /\ DeleteDatabase => FaultInv'
<1> SUFFICES ASSUME FaultInv, DeleteDatabase
             PROVE  FaultInv'
  OBVIOUS
<1>1. PICK d \in LiveDbs, ok \in BOOLEAN :
          /\ req' = [NoReq EXCEPT !.pc = "delete job", !.id = d, !.db = rows[d]]
          /\ dropped' = dropped \cup {<<rows[d].type, rows[d].name>>}
          /\ IF rows[d].type = "mysql" THEN Direct(DropDatabaseOn(server, "mysql", rows[d].name), ok)
             ELSE ok /\ UNCHANGED <<server, faults>>
  BY DEF DeleteDatabase
<1>2. req.pc = "idle" /\ ShapeInv /\ UNCHANGED <<rows, jobs>>
  BY DEF DeleteDatabase, DbIdle, FaultInv
<1> PICK srv, name : srv = server /\ name = rows[d].name
  OBVIOUS
<1>3. PICK result : result = DropDatabaseOn(srv, "mysql", name)
  OBVIOUS
<1>4. DOMAIN result = ServerFields /\ \A n \in server.dbs : n \in result.dbs \/ n = <<"mysql", name>>
  BY <1>2, <1>3, DropStatement DEF ShapeInv
<1>5. \/ rows[d].type = "mysql" /\ server' = result /\ UNCHANGED faults
      \/ UNCHANGED server /\ (DbFault \/ UNCHANGED faults)
  BY <1>1, <1>3 DEF Direct
<1>6. FaultsKept
  BY <1>2, <1>5, FaultCounted
<1>7. DOMAIN server' = ServerFields /\ \A n \in server.dbs : n \in server'.dbs \/ n \in dropped'
  BY <1>1, <1>2, <1>4, <1>5 DEF ShapeInv
<1>8. Keeps
  BY <1>1, <1>6, <1>7 DEF Keeps, FaultsKept
<1>9. DOMAIN req' = RequestFields /\ req'.pc = "delete job" /\ req'.db = rows[d]
  BY <1>1 DEF NoReq, RequestFields
<1>10. ShapeInv'
  BY <1>2, <1>6, <1>7, <1>9 DEF ShapeInv, FaultsKept
<1>11. HeldInv'
  BY <1>2, <1>8, HeldKept DEF FaultInv
<1>12. InsertInv'
  BY <1>9 DEF InsertInv
<1>13. DropInv'
  <2>1. <<req'.db.type, req'.db.name>> \in dropped'
    BY <1>1, <1>9
  <2> QED BY <1>1, <1>2, <2>1 DEF DropInv, FaultInv
<1> QED BY <1>10, <1>11, <1>12, <1>13 DEF FaultInv

LEMMA EnqueueDeleteKeeps == FaultInv /\ EnqueueDelete => FaultInv'
<1> SUFFICES ASSUME FaultInv, EnqueueDelete
             PROVE  FaultInv'
  OBVIOUS
<1> PICK job : job = [kind |-> "database.delete", id |-> req.id, type |-> req.db.type,
                      name |-> req.db.name, user |-> NoLogin, host |-> "", pw |-> 0]
  OBVIOUS
<1>1. job.type = req.db.type /\ job.name = req.db.name
  OBVIOUS
<1>2. \/ jobs' = jobs \cup {job} /\ req' = Go("delete row") /\ UNCHANGED faults
      \/ UNCHANGED jobs /\ req' = NoReq /\ DbFault
  BY DEF EnqueueDelete
<1>3. req.pc = "delete job" /\ UNCHANGED <<rows, server, dropped>> /\ ShapeInv
  BY DEF EnqueueDelete, FaultInv
<1>4. FaultsKept
  BY <1>2, <1>3, FaultCounted
<1>5. Keeps
  BY <1>3, <1>4 DEF Keeps, FaultsKept
<1>6. DOMAIN req' = RequestFields /\ req'.pc \in {"delete row", "idle"}
  BY <1>2, <1>3, NoReqShape DEF Go, ShapeInv, RequestFields
<1>7. ShapeInv'
  BY <1>3, <1>4, <1>6 DEF ShapeInv, FaultsKept
<1>8. HeldInv'
  BY <1>2, <1>3, <1>5, HeldKept DEF FaultInv
<1>9. InsertInv'
  BY <1>6 DEF InsertInv
<1>10. DropInv'
  <2>1. <<job.type, job.name>> \in dropped
    BY <1>1, <1>3 DEF DropInv, FaultInv
  <2> QED BY <1>2, <1>3, <1>6, <2>1 DEF DropInv, FaultInv
<1> QED BY <1>7, <1>8, <1>9, <1>10 DEF FaultInv

\* A step that takes no name from the server and may only end or import rows.
LEMMA RowsKeep ==
    ASSUME FaultInv, ShapeInv', UNCHANGED <<server, jobs, faults, dropped>>,
           req.pc = "create job" => req' = req,
           req' = req \/ req'.pc = "idle",
           \A d \in DbIds : Made(d)' => rows'[d].real = rows[d].real /\ Made(d)
    PROVE  FaultInv'
<1>1. HeldInv'
  <2> SUFFICES ASSUME NEW d \in DbIds, Made(d)'
               PROVE  Held(d)'
    BY DEF HeldInv
  <2>1. rows'[d].real = rows[d].real /\ Held(d)
    BY DEF FaultInv, HeldInv
  <2>2. CreateQueued(d) => CreateQueued(d)'
    BY <2>1 DEF CreateQueued
  <2>3. CreateAsked(d) => CreateAsked(d)'
    BY <2>1 DEF CreateAsked
  <2> QED BY <2>1, <2>2, <2>3 DEF Held, Settled
<1>2. InsertInv'
  BY DEF FaultInv, InsertInv, Settled
<1>3. DropInv'
  BY DEF FaultInv, DropInv
<1> QED BY <1>1, <1>2, <1>3 DEF FaultInv

LEMMA DeleteDatabaseRowKeeps == FaultInv /\ DeleteDatabaseRow => FaultInv'
<1> SUFFICES ASSUME FaultInv, DeleteDatabaseRow
             PROVE  FaultInv'
  OBVIOUS
<1>1. /\ rows' = [rows EXCEPT ![req.id].live = FALSE]
      /\ req' = NoReq /\ req.pc = "delete row" /\ ShapeInv
      /\ UNCHANGED <<server, jobs, faults, dropped>>
  BY DEF DeleteDatabaseRow, FaultInv
<1>2. DOMAIN rows' = DbIds
  BY <1>1 DEF ShapeInv
<1>3. \A d \in DbIds : /\ DOMAIN rows'[d] = RowFields
                       /\ Made(d)' => rows'[d] = rows[d]
  <2> SUFFICES ASSUME NEW d \in DbIds
               PROVE  DOMAIN rows'[d] = RowFields /\ (Made(d)' => rows'[d] = rows[d])
    OBVIOUS
  <2>1. CASE d = req.id
    <3>1. rows'[d] = [rows[d] EXCEPT !.live = FALSE]
      BY <1>1, <2>1 DEF ShapeInv
    <3>2. DOMAIN rows'[d] = RowFields /\ rows'[d].live = FALSE
      BY <1>1, <3>1 DEF ShapeInv, RowFields
    <3> QED BY <3>2 DEF Made
  <2>2. CASE d # req.id
    BY <1>1, <2>2 DEF ShapeInv
  <2> QED BY <2>1, <2>2
<1>4. ShapeInv'
  BY <1>1, <1>2, <1>3, NoReqShape DEF ShapeInv
<1>5. \A d \in DbIds : Made(d)' => rows'[d].real = rows[d].real /\ Made(d)
  BY <1>3 DEF Made
<1> QED BY <1>1, <1>4, <1>5, NoReqShape, RowsKeep

LEMMA ImportDatabaseKeeps == FaultInv /\ ImportDatabase => FaultInv'
<1> SUFFICES ASSUME FaultInv, ImportDatabase
             PROVE  FaultInv'
  OBVIOUS
<1>1. PICK n, d, s : d \in FreeDb /\ rows' = [rows EXCEPT ![d] = DeclaredDb(s, n, "mysql", FALSE)]
  BY Zenon DEF ImportDatabase
<1>2. ShapeInv /\ d \in DbIds /\ UNCHANGED <<server, jobs, req, faults, dropped>>
  BY <1>1 DEF ImportDatabase, FaultInv, FreeDb
<1> PICK row : row = DeclaredDb(s, n, "mysql", FALSE)
  OBVIOUS
<1>3. DOMAIN row = RowFields /\ row.made = FALSE
  BY DEF DeclaredDb, RowFields
<1>4. DOMAIN rows' = DbIds /\ rows'[d] = row /\ \A e \in DbIds \ {d} : rows'[e] = rows[e]
  BY <1>1, <1>2 DEF ShapeInv
<1>5. ShapeInv'
  BY <1>2, <1>3, <1>4 DEF ShapeInv
<1>6. \A e \in DbIds : Made(e)' => rows'[e].real = rows[e].real /\ Made(e)
  BY <1>3, <1>4 DEF Made
<1> QED BY <1>2, <1>5, <1>6, RowsKeep

\* The task puts on the server what its job names.
LEMMA DatabaseCreateTaskKeeps == FaultInv /\ databaseCreateTask => FaultInv'
<1> SUFFICES ASSUME FaultInv, databaseCreateTask
             PROVE  FaultInv'
  OBVIOUS
<1>1. PICK j \in jobs : server' = CreateDatabaseOn(server, "mysql", j.name) /\ jobs' = jobs \ {j}
  BY DEF databaseCreateTask, Task
<1>2. ShapeInv /\ UNCHANGED <<rows, req, faults, dropped>>
  BY DEF databaseCreateTask, FaultInv
<1>3. DOMAIN server' = ServerFields /\ server'.dbs = server.dbs \cup {<<"mysql", j.name>>}
  BY <1>1, <1>2 DEF CreateDatabaseOn, ShapeInv, ServerFields
<1>4. ShapeInv'
  BY <1>2, <1>3 DEF ShapeInv
<1>5. \A n : Settled(n) => Settled(n)'
  BY <1>2, <1>3 DEF Settled
<1>6. HeldInv'
  <2> SUFFICES ASSUME NEW d \in DbIds, Made(d)'
               PROVE  Held(d)'
    BY DEF HeldInv
  <2>1. Held(d)
    BY <1>2 DEF FaultInv, HeldInv, Made
  <2>2. CASE j.name = rows[d].real
    BY <1>2, <1>3, <2>2 DEF Held, Settled
  <2>3. CASE j.name # rows[d].real
    <3>1. CreateQueued(d) => CreateQueued(d)'
      BY <1>1, <1>2, <2>3 DEF CreateQueued
    <3>2. CreateAsked(d) => CreateAsked(d)'
      BY <1>2 DEF CreateAsked
    <3> QED BY <1>2, <1>5, <2>1, <3>1, <3>2 DEF Held
  <2> QED BY <2>2, <2>3
<1>7. InsertInv'
  BY <1>2, <1>5 DEF InsertInv, FaultInv
<1>8. DropInv'
  BY <1>1, <1>2 DEF DropInv, FaultInv
<1> QED BY <1>4, <1>6, <1>7, <1>8 DEF FaultInv

LEMMA DatabaseDeleteTaskKeeps == FaultInv /\ databaseDeleteTask => FaultInv'
<1> SUFFICES ASSUME FaultInv, databaseDeleteTask
             PROVE  FaultInv'
  OBVIOUS
<1>1. PICK type \in Types, j \in jobs :
          /\ j.kind = "database.delete" /\ j.type = type
          /\ server' = DropDatabaseOn(server, type, j.name) /\ jobs' = jobs \ {j}
  BY DEF databaseDeleteTask, Task
<1>2. ShapeInv /\ UNCHANGED <<rows, req, faults, dropped>>
  BY DEF databaseDeleteTask, FaultInv
<1> PICK srv, name : srv = server /\ name = j.name
  OBVIOUS
<1>3. DOMAIN server' = ServerFields /\ \A n \in server.dbs : n \in server'.dbs \/ n = <<type, name>>
  BY <1>1, <1>2, DropStatement DEF ShapeInv
<1>4. <<type, name>> \in dropped
  BY <1>1 DEF FaultInv, DropInv
<1>5. FaultsKept
  BY <1>2, FaultCounted
<1>6. Keeps
  BY <1>2, <1>3, <1>4, <1>5 DEF Keeps, FaultsKept
<1>7. ShapeInv'
  BY <1>2, <1>3 DEF ShapeInv
<1>8. HeldInv'
  BY <1>1, <1>2, <1>6, HeldKept DEF FaultInv
<1>9. InsertInv' /\ DropInv'
  BY <1>1, <1>2, <1>6, CarriedKept DEF FaultInv
<1> QED BY <1>7, <1>8, <1>9 DEF FaultInv

\* A job given up or a request cut short spends the second fault of a database
\* that was waiting for it.
LEMMA LossKeeps ==
    FaultInv /\ (GiveUp \/ Crash) => FaultInv'
<1> SUFFICES ASSUME FaultInv, GiveUp \/ Crash
             PROVE  FaultInv'
  OBVIOUS
<1>1. /\ ShapeInv /\ DbFault /\ UNCHANGED <<rows, server, dropped>>
      /\ req' = req \/ req' = NoReq
      /\ \A j \in jobs' : j \in jobs
  BY DEF GiveUp, Crash, FaultInv
<1>2. FaultsKept
  BY <1>1, FaultCounted
<1>3. Keeps
  BY <1>1, <1>2 DEF Keeps, FaultsKept
<1>4. ShapeInv'
  BY <1>1, <1>2, NoReqShape DEF ShapeInv, FaultsKept
<1>5. faults >= 1 => faults' >= 2
  BY <1>1, SecondFault DEF ShapeInv, DbFault
<1>6. faults >= 2 => faults' >= 2
  BY <1>1, <1>2, AtLeastKept DEF ShapeInv, FaultsKept
<1>7. HeldInv'
  <2> SUFFICES ASSUME NEW d \in DbIds, Made(d)'
               PROVE  Held(d)'
    BY DEF HeldInv
  <2>1. Held(d)
    BY <1>1 DEF FaultInv, HeldInv, Made
  <2>2. CASE Settled(<<"mysql", rows[d].real>>)
    BY <1>1, <2>2 DEF Held, Settled
  <2>3. CASE faults >= 1 \/ faults >= 2
    BY <1>5, <1>6, <2>3, Zenon DEF Held
  <2> QED BY <2>1, <2>2, <2>3 DEF Held
<1>8. InsertInv' /\ DropInv'
  BY <1>1, <1>3, NoReqShape, CarriedKept DEF FaultInv
<1> QED BY <1>4, <1>7, <1>8 DEF FaultInv

LEMMA InitFault == DatabasesInit => FaultInv
<1> SUFFICES ASSUME DatabasesInit
             PROVE  FaultInv
  OBVIOUS
<1>1. PICK s \in DatabaseSites, b \in Bases, type \in Types :
          LET seeded == "create" \notin dbLoad
              db == DeclaredDb(s, <<0, b>>, type, TRUE)
          IN  /\ rows = [d \in DbIds |-> IF seeded /\ d = 1 THEN db ELSE NoDb]
              /\ \E dbs \in IF seeded THEN Seeded(db) ELSE {{}} :
                    server = [dbs |-> dbs, accounts |-> [k \in {} |-> 0], grants |-> {}, events |-> {}]
  BY DEF DatabasesInit
<1> PICK db : db = DeclaredDb(s, <<0, b>>, type, TRUE)
  OBVIOUS
<1>2. DOMAIN db = RowFields
  BY DEF DeclaredDb, RowFields
<1>3. DOMAIN NoDb = RowFields /\ ~NoDb.live
  BY DEF NoDb, RowFields
<1>4. PICK dbs \in IF "create" \notin dbLoad THEN Seeded(db) ELSE {{}} :
          server = [dbs |-> dbs, accounts |-> [k \in {} |-> 0], grants |-> {}, events |-> {}]
  BY <1>1
<1>5. DOMAIN server = ServerFields /\ server.dbs = dbs
  BY <1>4 DEF ServerFields
<1>6. \A d \in DbIds : rows[d] = IF "create" \notin dbLoad /\ d = 1 THEN db ELSE NoDb
  BY <1>1
<1>7. ShapeInv
  BY <1>1, <1>2, <1>3, <1>5, <1>6, NoReqShape DEF DatabasesInit, ShapeInv
<1>8. HeldInv
  <2> SUFFICES ASSUME NEW d \in DbIds, Made(d)
               PROVE  Held(d)
    BY DEF HeldInv
  <2>1. "create" \notin dbLoad /\ rows[d] = db
    BY <1>3, <1>6 DEF Made
  <2>2. dbs = {<<"mysql", db.real>>}
    BY <2>1, <1>4 DEF Made, Seeded
  <2> QED BY <1>5, <2>1, <2>2 DEF Held, Settled
<1>9. InsertInv /\ DropInv
  BY NoReqShape DEF DatabasesInit, InsertInv, DropInv
<1> QED BY <1>7, <1>8, <1>9 DEF FaultInv

LEMMA NextFault == FaultInv /\ [DatabasesNext]_databaseVars => FaultInv'
<1> SUFFICES ASSUME FaultInv, [DatabasesNext]_databaseVars
             PROVE  FaultInv'
  OBVIOUS
<1>0. ShapeInv
  BY DEF FaultInv
<1>1. CASE Elsewhere
  BY <1>1, ElsewhereKeeps
<1>2. CASE CreateDatabase \/ InsertDatabase \/ EnqueueCreate
  BY <1>2, CreateDatabaseKeeps, InsertDatabaseKeeps, EnqueueCreateKeeps
<1>3. CASE DeleteDatabase \/ EnqueueDelete \/ DeleteDatabaseRow
  BY <1>3, DeleteDatabaseKeeps, EnqueueDeleteKeeps, DeleteDatabaseRowKeeps
<1>4. CASE ImportDatabase \/ databaseCreateTask \/ databaseDeleteTask
  BY <1>4, ImportDatabaseKeeps, DatabaseCreateTaskKeeps, DatabaseDeleteTaskKeeps
<1>5. CASE GiveUp \/ Crash
  BY <1>5, LossKeeps
<1>6. CASE UNCHANGED databaseVars
  BY <1>6 DEF databaseVars, FaultInv, ShapeInv, HeldInv, Made, Held, Settled, CreateAsked, CreateQueued,
              InsertInv, DropInv
<1>7. CASE CreateDBUser \/ InsertDBUser \/ EnqueueDBUserCreate \/ RotatePassword
  BY <1>0, <1>1, <1>7, CreateDBUserElsewhere, InsertDBUserElsewhere, EnqueueUserElsewhere, RotatePasswordElsewhere
<1>8. CASE DeleteDBUser \/ EnqueueDBUserDelete \/ DeleteDBUserRow
  BY <1>0, <1>1, <1>8, DeleteDBUserElsewhere, EnqueueUserElsewhere, DeleteDBUserRowElsewhere
<1>9. CASE UpdateDBUserHost \/ UpdateDBUserGrant \/ GrantExistingUser \/ ImportUser \/ ResetPassword
  BY <1>0, <1>1, <1>9, UpdateDBUserHostElsewhere, UpdateDBUserGrantElsewhere, GrantExistingUserElsewhere,
     ImportUserElsewhere, ResetPasswordElsewhere
<1>10. CASE PhpMyAdminCredentials \/ ScheduleTicket \/ PmaCredentials
  BY <1>0, <1>1, <1>10, PhpMyAdminElsewhere, ScheduleTicketElsewhere, PmaCredentialsElsewhere
<1>11. CASE dbUserCreateTask \/ dbUserCreatePostgres \/ dbUserDeleteTask \/ EventFires
  BY <1>0, <1>1, <1>11, UserTaskElsewhere, EventElsewhere
<1> QED BY <1>2, <1>3, <1>4, <1>5, <1>6, <1>7, <1>8, <1>9, <1>10, <1>11 DEF DatabasesNext

\* One fault does not lose a database (apihttp/databases.go): a direct creation that
\* fails is followed by a job, and only a second fault, or a deletion that names the
\* same database, leaves a row without its database.
THEOREM OneFaultToleratedHolds == DatabasesSpec => []OneFaultTolerated
<1>1. FaultInv => OneFaultTolerated
  <2> SUFFICES ASSUME FaultInv, faults < 2, NEW d \in LiveDbs, rows[d].made, rows[d].type = "mysql"
               PROVE  \/ <<"mysql", rows[d].real>> \in server.dbs \/ <<"mysql", rows[d].real>> \in dropped
                      \/ req.pc = "create job" /\ req.id = d
                      \/ \E j \in jobs : j.kind = "database.create" /\ j.id = d
    BY DEF OneFaultTolerated
  <2>1. ~(faults >= 2)
    BY DEF FaultInv, ShapeInv
  <2>2. d \in DbIds /\ Made(d)
    BY DEF LiveDbs, Made
  <2>3. Held(d)
    BY <2>2 DEF FaultInv, HeldInv
  <2> QED BY <2>1, <2>3 DEF Held, Settled, CreateAsked, CreateQueued
<1> QED BY <1>1, InitFault, NextFault, PTL DEF DatabasesSpec

-----------------------------------------------------------------------------
(* Copies of backups: the inductive invariant *)

BackupFields == {"status", "path", "s3", "cloud", "expires", "old"}
DirFields == {"tree", "files"}
JobFields == {"type", "id", "provider", "path", "s3", "tries"}
WorkFields == {"job", "pc", "n", "s3"}
HandlerFields == {"pc", "id", "old", "tree", "job"}
Slots == {"worker", "stray"}
JobTypes == {"create", "dump", "restore", "delete"}
GivenOut(i) == i \in Ids /\ i <= lastId
Job(j) == DOMAIN j = JobFields /\ j.tries \in Nat /\ GivenOut(j.id) /\ j.type \in JobTypes

\* The state has its shape, and ids come from the table.
TableShape == lastId \in Nat /\ DOMAIN backups = Ids /\ \A i \in Ids : DOMAIN backups[i] = BackupFields
DiskShape == DOMAIN root = DirFields /\ DOMAIN aside = Ids /\ \A i \in Ids : DOMAIN aside[i] = DirFields
WorkShape ==
    /\ \A j \in queue : Job(j)
    /\ DOMAIN work = WorkFields /\ (work = NoWork \/ (Job(work.job) /\ work.job.tries # 0 /\ work.pc # "idle"))
HandlerShape ==
    /\ DOMAIN handlers = Slots
    /\ \A s \in Slots : DOMAIN handlers[s] = HandlerFields /\ (handlers[s] = NoHandler \/ GivenOut(handlers[s].id))
CopyShape == TableShape /\ DiskShape /\ WorkShape /\ HandlerShape /\ copyFaults \in Nat

\* What a record is doing.
Making(j) == j.type \in {"create", "dump"}
AllJobs == queue \cup {work.job}
AtRest(b) == b.status \in {"completed", "none"}
FreshInv == \A i \in Ids : i > lastId => backups[i] = NoBackup
MakerInv ==
    /\ \A j, k \in queue : Making(j) /\ Making(k) /\ j.id = k.id => j = k
    /\ \A j \in queue : Making(j) => backups[j.id].status # "completed" /\ ~(Making(work.job) /\ work.job.id = j.id)
    /\ Making(work.job) /\ work.pc \in {"sent", "mark"} => backups[work.job.id].status # "completed"
    /\ work.pc \in {"mark", "s3", "remove", "clear", "oldest"} => Making(work.job)
RestorerInv ==
    /\ \A j \in AllJobs : j.type = "restore" => AtRest(backups[j.id])
    /\ \A s \in Slots : handlers[s] # NoHandler => AtRest(backups[handlers[s].id])
    /\ handlers["worker"] # NoHandler => work.pc = "sent" /\ work.job.type = "restore"
ExcuseInv ==
    /\ \A i \in Ids : i <= lastId /\ backups[i].status = "none" => i \in excused
    /\ \A j \in AllJobs : j.type = "delete" => j.id \in excused
RecordInv == CopyShape /\ FreshInv /\ MakerInv /\ RestorerInv /\ ExcuseInv

Kept(r, a, i, n) == n # 0 /\ \E d \in {r} \cup {a[j] : j \in Ids} : Archive(d, i, n) # {}
Stored(os, i, n) == n # 0 /\ \E o \in os : o.id = i /\ o.n = n
Afloat == Ids \ (excused \cup overwritten)
CopyInv ==
    /\ \A i \in Ids \ excused : backups[i].s3 # 0 => Stored(objects, i, backups[i].s3)
    /\ \A i \in Afloat : backups[i].status = "completed" =>
          Kept(root, aside, i, backups[i].path) \/ Stored(objects, i, backups[i].s3)
    /\ work.pc \in {"mark", "s3", "remove", "clear", "oldest"} => work.n # 0
    /\ work.pc = "mark" /\ work.job.id \in Afloat => Kept(root, aside, work.job.id, work.n)
    /\ work.pc \in {"mark", "s3"} /\ work.s3 /\ work.job.id \notin excused => Stored(objects, work.job.id, work.n)
    /\ work.pc = "s3" => work.s3
    /\ work.pc \in {"remove", "clear"} /\ work.job.id \notin excused => backups[work.job.id].s3 = work.n

Doomed(i) == cleaning = "expired" /\ backups[i].expires /\ backups[i].old /\ i \notin KeptCopies
DeleteInv == raced \/ \A j \in AllJobs : j.type = "delete" => backups[j.id].status = "none" \/ Doomed(j.id)

Carries(s) == handlers[s].pc = "install" \/ (handlers[s].pc = "stage" /\ root.tree # "absent")
HasData ==
    \/ root.tree = "whole" \/ \E i \in Ids : aside[i].tree = "whole"
    \/ \E s \in Slots : Carries(s)
FirstFault ==
    /\ handlers["stray"] = NoHandler /\ handlers["worker"].pc # "rollback"
    /\ handlers["worker"].pc = "stage" => handlers["worker"].old
    /\ IF handlers["worker"].pc = "install"
       THEN handlers["worker"].old /\ aside[handlers["worker"].id].tree = "whole"
       ELSE root.tree = "whole"
RollbackSafe ==
    /\ handlers["stray"].pc # "rollback"
    /\ handlers["worker"].pc = "rollback" =>
          /\ handlers["worker"].old /\ aside[handlers["worker"].id].tree = "whole"
          /\ handlers["stray"] = NoHandler
FinishSafe ==
    \A s \in Slots : handlers[s].pc = "finish" =>
        root.tree = "whole" \/ \E t \in Slots : handlers[t].pc = "install"
WholeTrees ==
    \A s \in Slots : handlers[s].pc \in {"discard", "stage", "install"} => handlers[s].tree = "whole"
DataInv ==
    ~hollow =>
        /\ WholeTrees
        /\ copyFaults = 0 => FirstFault
        /\ copyFaults <= 1 => HasData /\ RollbackSafe /\ FinishSafe

-----------------------------------------------------------------------------
(* What a step may do to the records, the jobs and the handlers *)

\* Rows stay, change their columns, or go for a reason; only the worker completes one.
RowStep ==
    /\ lastId' = lastId /\ TableShape' /\ FreshInv'
    /\ \A i \in excused : i \in excused'
    /\ \A i \in Ids :
          /\ backups'[i].status = "completed" =>
                \/ backups[i].status = "completed"
                \/ Making(work.job) /\ work.job.id = i /\ work'.job = work.job /\ work'.pc \notin {"sent", "mark"}
          /\ AtRest(backups[i]) => AtRest(backups'[i])
          /\ backups'[i].status = "none" => backups[i].status = "none" \/ i \in excused'

\* Jobs are new restores and deletions, or the worker's that goes back.
QueueStep ==
    \A j \in queue' :
        \/ j \in queue
        \/ j = work.job /\ work # NoWork /\ work' = NoWork /\ (Making(j) => work.pc = "sent")
        \/ Job(j) /\ j.type = "restore" /\ AtRest(backups[j.id])
        \/ Job(j) /\ j.type = "delete" /\ j.id \in excused'
WorkStep ==
    \/ work' = NoWork \/ work' = work
    \/ /\ DOMAIN work' = WorkFields /\ work # NoWork /\ work'.job = work.job /\ Making(work.job)
       /\ work'.pc \in {"mark", "s3", "remove", "clear", "oldest"} /\ (work'.pc = "mark" => work.pc = "sent")
HandlerStep ==
    /\ DOMAIN handlers' = Slots
    /\ \A s \in Slots : \/ handlers'[s] = NoHandler
                        \/ /\ DOMAIN handlers'[s] = HandlerFields
                           /\ \E t \in Slots : handlers[t] # NoHandler /\ handlers'[s].id = handlers[t].id
    /\ handlers'["worker"] # NoHandler => handlers["worker"] # NoHandler /\ work' = work

LEMMA NoneShape ==
    /\ DOMAIN NoBackup = BackupFields /\ NoBackup.status = "none" /\ NoBackup.s3 = 0 /\ NoBackup.path = 0
    /\ DOMAIN NoWork = WorkFields /\ NoWork.job = NoJob /\ NoWork.pc = "idle"
    /\ DOMAIN NoJob = JobFields /\ NoJob.type = "none"
    /\ DOMAIN NoHandler = HandlerFields /\ NoHandler.pc = "none"
    /\ DOMAIN NoDir = DirFields /\ NoDir.tree = "absent" /\ NoDir.files = {}
  BY DEF NoBackup, BackupFields, NoWork, WorkFields, NoJob, JobFields, NoHandler, HandlerFields, NoDir, DirFields

LEMMA StepKeepsRecords ==
    ASSUME RecordInv, RowStep, QueueStep, WorkStep, HandlerStep, DiskShape', copyFaults' \in Nat
    PROVE  RecordInv'
<1>1. TableShape' /\ FreshInv' /\ lastId' = lastId
  BY DEF RowStep
<1>2. \A i : GivenOut(i) => GivenOut(i)'
  BY <1>1 DEF GivenOut
<1>3. \A j : Job(j) => Job(j)'
  BY <1>2 DEF Job
<1>4. \A j \in queue' : Job(j)'
  <2> SUFFICES ASSUME NEW j \in queue'
               PROVE  Job(j)
    BY <1>3
  <2>1. j \in queue => Job(j)
    BY DEF RecordInv, CopyShape, WorkShape
  <2>2. work # NoWork => Job(work.job)
    BY DEF RecordInv, CopyShape, WorkShape
  <2> QED BY <2>1, <2>2 DEF QueueStep
<1>5. WorkShape'
  <2>1. CASE work' = NoWork
    BY <1>4, <2>1, NoneShape DEF WorkShape
  <2>2. CASE work' = work
    BY <1>3, <1>4, <2>2 DEF WorkShape, RecordInv, CopyShape
  <2>3. CASE DOMAIN work' = WorkFields /\ work # NoWork /\ work'.job = work.job /\ work'.pc # "idle"
    BY <1>3, <1>4, <2>3 DEF WorkShape, RecordInv, CopyShape
  <2> QED BY <2>1, <2>2, <2>3 DEF WorkStep
<1>6. HandlerShape'
  <2>1. \A s \in Slots : DOMAIN handlers'[s] = HandlerFields /\ (handlers'[s] = NoHandler \/ GivenOut(handlers'[s].id))
    BY NoneShape DEF HandlerStep, RecordInv, CopyShape, HandlerShape
  <2> QED BY <1>2, <2>1 DEF HandlerStep, HandlerShape
<1>7. MakerInv'
  <2>1. \A j \in queue' : Making(j) => j \in queue \/ (j = work.job /\ work # NoWork /\ work' = NoWork /\ work.pc = "sent")
    BY DEF QueueStep, Making
  <2>2. \A j, k \in queue' : Making(j) /\ Making(k) /\ j.id = k.id => j = k
    BY <2>1 DEF RecordInv, MakerInv
  <2>3. work' # NoWork => work'.job = work.job
    BY DEF WorkStep
  <2>4. ~Making(NoJob)
    BY NoneShape DEF Making
  <2>5. \A j \in queue' : Making(j) => ~(Making(work'.job) /\ work'.job.id = j.id)
    BY <2>1, <2>3, <2>4, NoneShape DEF RecordInv, MakerInv
  <2>6. \A j \in queue' : Making(j) => backups'[j.id].status # "completed"
    <3> SUFFICES ASSUME NEW j \in queue', Making(j), backups'[j.id].status = "completed"
                 PROVE  FALSE
      OBVIOUS
    <3>1. j.id \in Ids
      BY <1>4 DEF Job, GivenOut
    <3>2. backups[j.id].status # "completed"
      BY <2>1 DEF RecordInv, MakerInv
    <3>3. Making(work.job) /\ work.job.id = j.id /\ work'.job = work.job
      BY <3>1, <3>2 DEF RowStep
    <3>4. work' # NoWork
      BY <3>3, <2>4, NoneShape
    <3>5. j \in queue
      BY <2>1, <3>4
    <3> QED BY <3>3, <3>5 DEF RecordInv, MakerInv
  <2>7. Making(work'.job) /\ work'.pc \in {"sent", "mark"} => backups'[work'.job.id].status # "completed"
    <3> SUFFICES ASSUME Making(work'.job), work'.pc \in {"sent", "mark"}
                 PROVE  backups'[work'.job.id].status # "completed"
      OBVIOUS
    <3>1. work'.job = work.job /\ work # NoWork /\ work.pc \in {"sent", "mark"}
      BY <2>4, NoneShape DEF WorkStep
    <3>2. work.job.id \in Ids /\ backups[work.job.id].status # "completed"
      BY <3>1 DEF RecordInv, MakerInv, CopyShape, WorkShape, Job, GivenOut
    <3>3. ~(backups'[work.job.id].status = "completed")
      BY <3>1, <3>2 DEF RowStep
    <3> QED BY <3>1, <3>3
  <2>8. work'.pc \in {"mark", "s3", "remove", "clear", "oldest"} => Making(work'.job)
    BY NoneShape DEF WorkStep, RecordInv, MakerInv
  <2>9. \A j \in queue' : Making(j) => backups'[j.id].status # "completed" /\ ~(Making(work'.job) /\ work'.job.id = j.id)
    BY <2>5, <2>6
  <2>10. \A j : Making(j)' <=> Making(j)
    BY DEF Making
  <2>11. (Making(work.job))' <=> Making(work'.job)
    BY DEF Making
  <2> QED BY <2>2, <2>7, <2>8, <2>9, <2>10, <2>11 DEF MakerInv
<1>8. RestorerInv'
  <2>1. \A i \in Ids : AtRest(backups[i]) => AtRest(backups'[i])
    BY DEF RowStep
  <2>2. \A j \in queue' : j.type = "restore" => AtRest(backups'[j.id])
    <3> SUFFICES ASSUME NEW j \in queue', j.type = "restore"
                 PROVE  AtRest(backups'[j.id])
      OBVIOUS
    <3>1. j.id \in Ids
      BY <1>4 DEF Job, GivenOut
    <3>2. AtRest(backups[j.id])
      BY DEF QueueStep, RecordInv, RestorerInv, AllJobs
    <3> QED BY <2>1, <3>1, <3>2
  <2>3. work'.job.type = "restore" => AtRest(backups'[work'.job.id])
    <3> SUFFICES ASSUME work'.job.type = "restore"
                 PROVE  AtRest(backups'[work'.job.id])
      OBVIOUS
    <3>1. work' # NoWork /\ work'.job = work.job /\ work # NoWork
      BY NoneShape DEF WorkStep
    <3>2. work.job.id \in Ids /\ AtRest(backups[work.job.id])
      BY <3>1 DEF RecordInv, RestorerInv, AllJobs, CopyShape, WorkShape, Job, GivenOut
    <3> QED BY <2>1, <3>1, <3>2
  <2>4. \A s \in Slots : handlers'[s] # NoHandler => AtRest(backups'[handlers'[s].id])
    <3> SUFFICES ASSUME NEW s \in Slots, handlers'[s] # NoHandler
                 PROVE  AtRest(backups'[handlers'[s].id])
      OBVIOUS
    <3>1. PICK t \in Slots : handlers[t] # NoHandler /\ handlers'[s].id = handlers[t].id
      BY DEF HandlerStep
    <3>2. handlers[t].id \in Ids /\ AtRest(backups[handlers[t].id])
      BY <3>1 DEF RecordInv, RestorerInv, CopyShape, HandlerShape, GivenOut
    <3> QED BY <2>1, <3>1, <3>2
  <2>5. handlers'["worker"] # NoHandler => work'.pc = "sent" /\ work'.job.type = "restore"
    BY DEF HandlerStep, RecordInv, RestorerInv
  <2> QED BY <2>2, <2>3, <2>4, <2>5 DEF RestorerInv, AllJobs
<1>9. ExcuseInv'
  <2>1. \A i \in Ids : i <= lastId' /\ backups'[i].status = "none" => i \in excused'
    BY <1>1 DEF RowStep, RecordInv, ExcuseInv
  <2>2. \A j \in queue' : j.type = "delete" => j.id \in excused'
    BY DEF QueueStep, RowStep, RecordInv, ExcuseInv, AllJobs
  <2>3. work'.job.type = "delete" => work'.job.id \in excused'
    BY NoneShape DEF WorkStep, RowStep, RecordInv, ExcuseInv, AllJobs
  <2> QED BY <2>1, <2>2, <2>3 DEF ExcuseInv, AllJobs
<1> QED BY <1>1, <1>5, <1>6, <1>7, <1>8, <1>9 DEF RecordInv, CopyShape

-----------------------------------------------------------------------------
(* The copies, the delete jobs and the site's data, for a step that does nothing special to them *)

OnDisk(r, a, f) == f \in r.files \/ \E j \in Ids : f \in a[j].files
FilesStep == \A f : OnDisk(root, aside, f) /\ f.n # 0 => OnDisk(root', aside', f) \/ f.id \in excused' \cup overwritten'
WorkQuiet == work' = NoWork \/ work' = work \/ work'.pc = "sent"
FilesOf(i) ==
    \A f : OnDisk(root, aside, f) /\ f.id = i /\ f.n # 0 => OnDisk(root', aside', f) \/ i \in excused' \cup overwritten'
CopyBase ==
    /\ \A i \in excused : i \in excused'
    /\ \A i \in overwritten : i \in overwritten'
    /\ \A o \in objects : o \in objects' \/ o.id \in excused'
CopyRow(i) ==
    /\ backups'[i].s3 = backups[i].s3
    /\ backups'[i].status = "completed" => backups[i].status = "completed" /\ backups'[i].path = backups[i].path
CopyStep == CopyBase /\ FilesStep /\ WorkQuiet /\ \A i \in Ids \ excused' : CopyRow(i)

JobsKeep == \A j \in AllJobs' : j.type = "delete" => \E k \in AllJobs : k.type = "delete" /\ k.id = j.id
DeleteStep ==
    /\ raced => raced'
    /\ ~raced' =>
        /\ JobsKeep
        /\ \A i \in Ids : backups[i].status = "none" => backups'[i].status = "none"
        /\ \A i \in Ids : Doomed(i) => Doomed(i)' \/ backups'[i].status = "none"

CalmPcs == {"none", "fetch", "extract", "discard"}
CalmHandlers ==
    /\ handlers["stray"] = NoHandler => handlers'["stray"] = NoHandler
    /\ \A s \in Slots :
          \/ handlers'[s] = handlers[s]
          \/ /\ handlers[s].pc \in CalmPcs /\ handlers'[s].pc \in CalmPcs
             /\ handlers'[s].pc = "discard" /\ ~hollow' => handlers'[s].tree = "whole"
QuietStep ==
    /\ handlers' = handlers \/ CalmHandlers
    /\ (hollow => hollow') /\ copyFaults' \in Nat /\ copyFaults' >= copyFaults
    /\ \A i \in Ids : aside'[i].tree = aside[i].tree
    /\ root'.tree = root.tree \/ (root.tree = "absent" /\ root'.tree = "skeleton")

StatusKeep ==
    \A i \in Ids :
        /\ backups'[i].status = "completed" <=> backups[i].status = "completed"
        /\ backups[i].status = "none" => backups'[i].status = "none"
        /\ (backups[i].expires => backups'[i].expires) /\ (backups[i].old => backups'[i].old)
RowsStay ==
    \A i \in Ids :
        /\ backups'[i].status = "completed" <=> backups[i].status = "completed"
        /\ backups'[i].status = "none" <=> backups[i].status = "none"
        /\ backups'[i].path = backups[i].path /\ backups'[i].s3 = backups[i].s3
        /\ (backups[i].expires => backups'[i].expires) /\ (backups[i].old => backups'[i].old)
TableStep == RowStep /\ QueueStep /\ WorkStep /\ RowsStay /\ JobsKeep /\ WorkQuiet

LEMMA KeptIs ==
    ASSUME NEW r, NEW a, NEW i, NEW n
    PROVE  Kept(r, a, i, n) <=> n # 0 /\ \E f : OnDisk(r, a, f) /\ f.id = i /\ f.n = n
  BY DEF Kept, OnDisk, Archive

LEMMA KeptStays ==
    ASSUME NEW i, NEW n, FilesOf(i), i \notin excused' \cup overwritten', Kept(root, aside, i, n)
    PROVE  Kept(root', aside', i, n)
<1>1. PICK r, a, q, b : r = root /\ a = aside /\ q = root' /\ b = aside'
  OBVIOUS
<1>2. PICK f : OnDisk(r, a, f) /\ f.id = i /\ f.n = n /\ n # 0
  BY <1>1, KeptIs
<1>3. OnDisk(q, b, f)
  BY <1>1, <1>2 DEF FilesOf
<1>4. Kept(q, b, i, n)
  BY <1>2, <1>3, KeptIs
<1> QED BY <1>1, <1>4

LEMMA StoredStays ==
    ASSUME CopyBase, NEW i, NEW n, i \notin excused', Stored(objects, i, n)
    PROVE  Stored(objects', i, n)
  BY DEF Stored, CopyBase

\* The two conjuncts of CopyInv about one row
StoredRow(i) == backups[i].s3 # 0 => Stored(objects, i, backups[i].s3)
CopiedRow(i) == backups[i].status = "completed" =>
                    Kept(root, aside, i, backups[i].path) \/ Stored(objects, i, backups[i].s3)

LEMMA StoredRowStays ==
    ASSUME CopyInv, CopyBase, NEW i \in Ids \ excused', backups'[i].s3 = backups[i].s3
    PROVE  StoredRow(i)'
<1>1. i \notin excused
  BY DEF CopyBase
<1>2. backups'[i].s3 # 0 => Stored(objects', i, backups'[i].s3)
  BY <1>1, StoredStays DEF CopyInv
<1> QED BY <1>2 DEF StoredRow

LEMMA CopiedRowStays ==
    ASSUME CopyInv, CopyBase, NEW i \in Afloat', CopyRow(i), FilesOf(i)
    PROVE  CopiedRow(i)'
<1> SUFFICES ASSUME backups'[i].status = "completed"
             PROVE  Kept(root', aside', i, backups'[i].path) \/ Stored(objects', i, backups'[i].s3)
  BY DEF CopiedRow
<1>1. i \in Afloat /\ i \notin excused' \cup overwritten'
  BY DEF Afloat, CopyBase
<1>2. backups[i].status = "completed" /\ backups'[i].path = backups[i].path /\ backups'[i].s3 = backups[i].s3
  BY DEF CopyRow
<1>3. Kept(root, aside, i, backups[i].path) \/ Stored(objects, i, backups[i].s3)
  BY <1>1, <1>2 DEF CopyInv
<1> QED BY <1>1, <1>2, <1>3, KeptStays, StoredStays

LEMMA CopyInvRows ==
    /\ CopyInv => (\A i \in Ids \ excused : StoredRow(i)) /\ (\A i \in Afloat : CopiedRow(i))
    /\ CopyInv' <=>
        /\ \A i \in Ids \ excused' : StoredRow(i)'
        /\ \A i \in Afloat' : CopiedRow(i)'
        /\ work'.pc \in {"mark", "s3", "remove", "clear", "oldest"} => work'.n # 0
        /\ work'.pc = "mark" /\ work'.job.id \in Afloat' => Kept(root', aside', work'.job.id, work'.n)
        /\ work'.pc \in {"mark", "s3"} /\ work'.s3 /\ work'.job.id \notin excused' => Stored(objects', work'.job.id, work'.n)
        /\ work'.pc = "s3" => work'.s3
        /\ work'.pc \in {"remove", "clear"} /\ work'.job.id \notin excused' => backups'[work'.job.id].s3 = work'.n
  BY DEF CopyInv, StoredRow, CopiedRow

LEMMA StepKeepsCopies ==
    ASSUME CopyInv, CopyStep, WorkShape
    PROVE  CopyInv'
<1>1. Afloat' \subseteq Afloat /\ \A i \in Ids : i \notin excused' => i \notin excused
  BY DEF CopyStep, CopyBase, Afloat
<1>2. \A i, n : i \notin excused' /\ Stored(objects, i, n) => Stored(objects', i, n)
  BY StoredStays DEF CopyStep
<1>f. \A i : FilesOf(i)
  BY DEF CopyStep, FilesStep, FilesOf
<1>3. \A i, n : i \in Afloat' /\ Kept(root, aside, i, n) => Kept(root', aside', i, n)
  BY <1>f, KeptStays DEF Afloat
<1>4. \A i \in Ids \ excused' : StoredRow(i)'
  BY StoredRowStays DEF CopyStep, CopyRow
<1>5. \A i \in Afloat' : CopiedRow(i)'
  BY <1>f, CopiedRowStays DEF CopyStep, Afloat
<1>6. work' = work \/ work'.pc \notin {"mark", "s3", "remove", "clear", "oldest"}
  BY NoneShape DEF CopyStep, WorkQuiet
<1>7. CASE work' = work
  <2>1. work.pc \in {"mark", "s3", "remove", "clear", "oldest"} => work.job.id \in Ids
    BY NoneShape DEF WorkShape, Job, GivenOut
  <2>2. work.pc \in {"mark", "s3", "remove", "clear", "oldest"} => work.n # 0
    BY DEF CopyInv
  <2>3. work.pc = "mark" /\ work.job.id \in Afloat' => Kept(root', aside', work.job.id, work.n)
    BY <1>1, <1>3 DEF CopyInv
  <2>4. work.pc \in {"mark", "s3"} /\ work.s3 /\ work.job.id \notin excused' => Stored(objects', work.job.id, work.n)
    BY <1>1, <1>2, <2>1 DEF CopyInv
  <2>5. work.pc = "s3" => work.s3
    BY DEF CopyInv
  <2>6. work.pc \in {"remove", "clear"} /\ work.job.id \notin excused' => backups'[work.job.id].s3 = work.n
    BY <1>1, <2>1 DEF CopyInv, CopyStep, CopyRow
  <2> QED BY <1>4, <1>5, <1>7, <2>2, <2>3, <2>4, <2>5, <2>6, CopyInvRows
<1>8. CASE work'.pc \notin {"mark", "s3", "remove", "clear", "oldest"}
  BY <1>4, <1>5, <1>8, CopyInvRows
<1> QED BY <1>6, <1>7, <1>8

LEMMA StepKeepsDeletes ==
    ASSUME DeleteInv, DeleteStep, \A j \in AllJobs : j.type = "delete" => j.id \in Ids
    PROVE  DeleteInv'
<1> SUFFICES ASSUME ~raced', NEW j \in AllJobs', j.type = "delete"
             PROVE  backups'[j.id].status = "none" \/ Doomed(j.id)'
  BY DEF DeleteInv
<1>1. PICK k \in AllJobs : k.type = "delete" /\ k.id = j.id
  BY DEF DeleteStep, JobsKeep
<1>2. backups[k.id].status = "none" \/ Doomed(k.id)
  BY <1>1 DEF DeleteInv, DeleteStep
<1>3. PICK i \in Ids : i = k.id
  BY <1>1
<1>4. backups'[i].status = "none" \/ Doomed(i)'
  BY <1>2, <1>3 DEF DeleteStep
<1> QED BY <1>1, <1>3, <1>4

LEMMA StepKeepsData ==
    ASSUME DataInv, QuietStep, copyFaults \in Nat, CopyShape
    PROVE  DataInv'
<1> SUFFICES ASSUME ~hollow'
             PROVE  /\ WholeTrees'
                    /\ copyFaults' = 0 => FirstFault'
                    /\ copyFaults' <= 1 => HasData' /\ RollbackSafe' /\ FinishSafe'
  BY DEF DataInv
<1>1. ~hollow /\ "worker" \in Slots /\ "stray" \in Slots
  BY DEF QuietStep, Slots
<1>a. \A s \in Slots : handlers[s].pc \in {"stage", "install", "rollback", "finish"} => handlers'[s] = handlers[s]
  BY DEF QuietStep, CalmHandlers, CalmPcs
<1>b. \A s \in Slots : handlers'[s].pc \in {"stage", "install", "rollback", "finish"} => handlers'[s] = handlers[s]
  BY DEF QuietStep, CalmHandlers, CalmPcs
<1>c. handlers["stray"] = NoHandler => handlers'["stray"] = NoHandler
  BY DEF QuietStep, CalmHandlers
<1>2. WholeTrees'
  <2>1. \A s \in Slots : handlers'[s] = handlers[s] \/ (handlers'[s].pc = "discard" => handlers'[s].tree = "whole")
    BY DEF QuietStep, CalmHandlers
  <2> QED BY <1>1, <1>b, <2>1 DEF DataInv, WholeTrees
<1>3. \A i \in Ids : aside'[i].tree = aside[i].tree
  BY DEF QuietStep
<1>4. root.tree = "whole" => root'.tree = "whole"
  BY DEF QuietStep
<1>5. root.tree # "absent" => root'.tree # "absent"
  BY DEF QuietStep
<1>6. \A s \in Slots : handlers[s] # NoHandler => handlers[s].id \in Ids
  BY DEF CopyShape, HandlerShape, GivenOut
<1>7. \A s \in Slots : handlers[s].pc \in {"install", "rollback"} => handlers[s].id \in Ids
  BY <1>6, NoneShape
<1>8. ASSUME copyFaults' = 0 PROVE FirstFault'
  <2>1. FirstFault
    BY <1>8, <1>1 DEF DataInv, QuietStep
  <2> QED BY <2>1, <1>1, <1>3, <1>4, <1>7, <1>a, <1>b, <1>c DEF FirstFault
<1>9. ASSUME copyFaults' <= 1 PROVE HasData' /\ RollbackSafe' /\ FinishSafe'
  <2>1. HasData /\ RollbackSafe /\ FinishSafe
    BY <1>9, <1>1 DEF DataInv, QuietStep
  <2>2. HasData'
    BY <2>1, <1>a, <1>3, <1>4, <1>5 DEF HasData, Carries
  <2>3. RollbackSafe'
    BY <2>1, <1>1, <1>3, <1>7, <1>a, <1>b, <1>c DEF RollbackSafe
  <2>4. FinishSafe'
    BY <2>1, <1>a, <1>b, <1>4 DEF FinishSafe
  <2> QED BY <2>2, <2>3, <2>4
<1> QED BY <1>2, <1>8, <1>9

-----------------------------------------------------------------------------
(* The tables *)

\* A row stays, goes for a reason, or is written while it is listed.
LEMMA RowsStep ==
    ASSUME RecordInv, lastId' = lastId, \A i \in excused : i \in excused', DOMAIN backups' = Ids,
           \A i \in Ids :
              \/ backups'[i] = backups[i]
              \/ backups'[i] = NoBackup /\ i \in excused'
              \/ /\ DOMAIN backups'[i] = BackupFields /\ backups[i].status # "none"
                 /\ \/ backups'[i].status = backups[i].status
                    \/ backups'[i].status \notin {"none", "completed"} /\ ~AtRest(backups[i])
                    \/ /\ backups'[i].status = "completed"
                       /\ Making(work.job) /\ work.job.id = i /\ work'.job = work.job /\ work'.pc \notin {"sent", "mark"}
    PROVE  RowStep
<1>1. TableShape'
  BY NoneShape DEF TableShape, RecordInv, CopyShape
<1>2. FreshInv'
  BY NoneShape DEF FreshInv, RecordInv
<1>3. \A i \in Ids : backups'[i].status = "completed" =>
                \/ backups[i].status = "completed"
                \/ Making(work.job) /\ work.job.id = i /\ work'.job = work.job /\ work'.pc \notin {"sent", "mark"}
  BY NoneShape
<1>4. \A i \in Ids : AtRest(backups[i]) => AtRest(backups'[i])
  BY NoneShape DEF AtRest
<1>5. \A i \in Ids : backups'[i].status = "none" => backups[i].status = "none" \/ i \in excused'
  BY NoneShape
<1> QED BY <1>1, <1>2, <1>3, <1>4, <1>5 DEF RowStep

LEMMA SameRows ==
    ASSUME RecordInv, lastId' = lastId, backups' = backups, \A i \in excused : i \in excused'
    PROVE  RowStep /\ RowsStay
<1>1. DOMAIN backups' = Ids
  BY DEF RecordInv, CopyShape, TableShape
<1>2. RowStep
  BY <1>1, RowsStep
<1> QED BY <1>2 DEF RowsStay

LEMMA SameStep ==
    ASSUME RecordInv, Same, lastId' = lastId, \A i \in excused : i \in excused'
    PROVE  TableStep
<1>1. RowStep /\ RowsStay
  BY SameRows DEF Same
<1>2. QueueStep
  BY DEF Same, QueueStep
<1>3. WorkStep /\ WorkQuiet
  BY DEF Same, WorkStep, WorkQuiet
<1>4. JobsKeep
  BY DEF Same, JobsKeep, AllJobs
<1> QED BY <1>1, <1>2, <1>3, <1>4 DEF TableStep

\* A row that is rewritten in place
LEMMA Rewritten ==
    ASSUME RecordInv, NEW i \in Ids, NEW row, backups' = [backups EXCEPT ![i] = row]
    PROVE  /\ DOMAIN backups' = Ids /\ backups'[i] = row
           /\ \A k \in Ids : k # i => backups'[k] = backups[k]
  BY DEF RecordInv, CopyShape, TableShape

LEMMA WorkJob ==
    ASSUME RecordInv, work # NoWork
    PROVE  Job(work.job) /\ work.job.id \in Ids /\ work.job.id <= lastId
  BY DEF RecordInv, CopyShape, WorkShape, Job, GivenOut

LEMMA RefusedStep ==
    ASSUME RecordInv, Refused, work.pc = "sent", lastId' = lastId, \A i \in excused : i \in excused'
    PROVE  TableStep
<1>1. work # NoWork /\ work' = NoWork
  BY NoneShape DEF Refused
<1>2. Job(work.job) /\ work.job.id \in Ids
  BY <1>1, WorkJob
<1>3. RowStep /\ RowsStay
  <2>1. CASE backups' = backups
    BY <2>1, SameRows
  <2>2. CASE /\ work.job.type \in {"create", "dump"} /\ work.job.id \in ListedCopies
             /\ backups' = [backups EXCEPT ![work.job.id].status = "failed"]
    <3>1. PICK i \in Ids : i = work.job.id
      BY <1>2
    <3>2. PICK row : row = [backups[i] EXCEPT !.status = "failed"]
      OBVIOUS
    <3>3. DOMAIN backups[i] = BackupFields
      BY DEF RecordInv, CopyShape, TableShape
    <3>4. /\ DOMAIN row = BackupFields /\ row.status = "failed" /\ row.path = backups[i].path
          /\ row.s3 = backups[i].s3 /\ row.expires = backups[i].expires /\ row.old = backups[i].old
      BY <3>2, <3>3 DEF BackupFields
    <3>5. backups' = [backups EXCEPT ![i] = row]
      BY <2>2, <3>1, <3>2
    <3>6. /\ DOMAIN backups' = Ids /\ backups'[i] = row
          /\ \A k \in Ids : k # i => backups'[k] = backups[k]
      BY <3>5, Rewritten
    <3>7. backups[i].status # "none" /\ backups[i].status # "completed"
      BY <2>2, <3>1 DEF ListedCopies, RecordInv, MakerInv, Making
    <3>8. ~AtRest(backups[i])
      BY <3>7 DEF AtRest
    <3>9. RowStep
      BY <3>4, <3>6, <3>7, <3>8, RowsStep
    <3>10. RowsStay
      BY <3>4, <3>6, <3>7 DEF RowsStay
    <3> QED BY <3>9, <3>10
  <2> QED BY <2>1, <2>2 DEF Refused
<1>4. \A j \in queue' : j \in queue \/ j = work.job
  BY DEF Refused
<1>5. QueueStep
  BY <1>1, <1>4 DEF QueueStep
<1>6. WorkStep /\ WorkQuiet
  BY <1>1 DEF WorkStep, WorkQuiet
<1>7. JobsKeep
  BY <1>1, <1>4, NoneShape DEF JobsKeep, AllJobs
<1> QED BY <1>3, <1>5, <1>6, <1>7 DEF TableStep

-----------------------------------------------------------------------------
(* The disk *)

LEMMA EnsureDirShape ==
    ASSUME NEW d, DOMAIN d = DirFields
    PROVE  /\ DOMAIN EnsureDir(d) = DirFields /\ EnsureDir(d).files = d.files
           /\ EnsureDir(d).tree = d.tree \/ (d.tree = "absent" /\ EnsureDir(d).tree = "skeleton")
  BY DEF EnsureDir, DirFields

LEMMA PanelRemoveShape ==
    ASSUME NEW d, NEW i, NEW n, DOMAIN d = DirFields
    PROVE  /\ DOMAIN PanelRemove(d, i, n) = DirFields /\ PanelRemove(d, i, n).tree = d.tree
           /\ \A f \in d.files : f \in PanelRemove(d, i, n).files \/ (f.id = i /\ f.n = n)
  BY DEF PanelRemove, DirFields, Archive

LEMMA MovePathShape ==
    ASSUME NEW src, NEW dst
    PROVE  /\ DOMAIN movePath(src, dst) = DirFields /\ movePath(src, dst).files = dst.files \cup src.files
           /\ movePath(src, dst).tree = IF dst.tree = "whole" THEN "whole" ELSE src.tree
  BY DEF movePath, DirFields

LEMMA RefiledShape ==
    ASSUME NEW d, NEW fs, DOMAIN d = DirFields
    PROVE  /\ DOMAIN [d EXCEPT !.files = fs] = DirFields /\ [d EXCEPT !.files = fs].files = fs
           /\ [d EXCEPT !.files = fs].tree = d.tree
  BY DEF DirFields

LEMMA RetreedShape ==
    ASSUME NEW d, NEW t, DOMAIN d = DirFields
    PROVE  /\ DOMAIN [d EXCEPT !.tree = t] = DirFields /\ [d EXCEPT !.tree = t].tree = t
           /\ [d EXCEPT !.tree = t].files = d.files
  BY DEF DirFields

\* A step that writes the root only, keeping its files
LEMMA RootOnly ==
    ASSUME RecordInv, DOMAIN root' = DirFields, aside' = aside,
           \A f \in root.files : f.n # 0 => f \in root'.files \/ f.id \in excused' \cup overwritten'
    PROVE  DiskShape' /\ FilesStep
<1>1. DiskShape'
  BY DEF RecordInv, CopyShape, DiskShape
<1>2. FilesStep
  BY DEF FilesStep, OnDisk
<1> QED BY <1>1, <1>2

LEMMA SameDisk ==
    ASSUME RecordInv, root' = root, aside' = aside
    PROVE  DiskShape' /\ FilesStep
<1>1. DOMAIN root' = DirFields
  BY DEF RecordInv, CopyShape, DiskShape
<1> QED BY <1>1, RootOnly

LEMMA RowsStayStatus == RowsStay => StatusKeep
  BY DEF RowsStay, StatusKeep

LEMMA DoomStays ==
    ASSUME StatusKeep, cleaning' = cleaning
    PROVE  \A i \in Ids : Doomed(i) => Doomed(i)'
<1>1. PICK D, E : D = {i \in Ids : backups[i].status = "completed"} /\ E = {i \in Ids : backups'[i].status = "completed"}
  OBVIOUS
<1>2. D = E
  BY <1>1 DEF StatusKeep
<1>3. KeptCopies = {i \in D : Cardinality({j \in D : j > i}) < KeepLast}
  BY <1>1 DEF KeptCopies
<1>4. KeptCopies' = {i \in E : Cardinality({j \in E : j > i}) < KeepLast}
  BY <1>1 DEF KeptCopies
<1>5. KeptCopies' = KeptCopies
  BY <1>2, <1>3, <1>4
<1> QED BY <1>5 DEF Doomed, StatusKeep

LEMMA HandlersSame ==
    ASSUME RecordInv, handlers' = handlers, work' = work \/ handlers["worker"] = NoHandler
    PROVE  HandlerStep
  BY DEF HandlerStep, RecordInv, CopyShape, HandlerShape

\* The usual step: the tables, the handlers, the disk, and no clean-up step.
CommonStep ==
    /\ TableStep /\ HandlerStep /\ DiskShape' /\ FilesStep /\ copyFaults' \in Nat
    /\ \A i \in overwritten : i \in overwritten'
    /\ objects' = objects /\ cleaning' = cleaning /\ raced' = raced

BookInv == RecordInv /\ CopyInv /\ DeleteInv

LEMMA DeleteIds ==
    ASSUME RecordInv
    PROVE  \A j \in AllJobs : j.type = "delete" => j.id \in Ids
  BY WorkJob, NoneShape DEF AllJobs, RecordInv, CopyShape, WorkShape, Job, GivenOut

LEMMA CommonKeepsBooks ==
    ASSUME BookInv, CommonStep
    PROVE  BookInv'
<1>1. RecordInv'
  BY StepKeepsRecords DEF BookInv, CommonStep, TableStep
<1>2. CopyStep
  BY DEF CommonStep, TableStep, RowStep, RowsStay, CopyStep, CopyBase, CopyRow
<1>3. CopyInv'
  BY <1>2, StepKeepsCopies DEF BookInv, RecordInv, CopyShape
<1>4. \A i \in Ids : Doomed(i) => Doomed(i)'
  BY DoomStays, RowsStayStatus DEF CommonStep, TableStep
<1>5. DeleteStep
  BY <1>4 DEF CommonStep, TableStep, RowsStay, DeleteStep
<1>6. DeleteInv'
  BY <1>5, DeleteIds, StepKeepsDeletes DEF BookInv
<1> QED BY <1>1, <1>3, <1>6 DEF BookInv

-----------------------------------------------------------------------------
(* Requests and timers that leave the copies alone *)

CopiesInv == BookInv /\ DataInv

LEMMA QuietKeepsInv ==
    ASSUME CopiesInv, CommonStep, QuietStep
    PROVE  CopiesInv'
<1>1. BookInv'
  BY CommonKeepsBooks DEF CopiesInv
<1>2. DataInv'
  BY StepKeepsData DEF CopiesInv, BookInv, RecordInv, CopyShape
<1> QED BY <1>1, <1>2 DEF CopiesInv

\* What the disk, the objects, the handlers and the clean-up are after a step that does not touch them
Untouched ==
    /\ root' = root /\ aside' = aside /\ objects' = objects /\ handlers' = handlers /\ cleaning' = cleaning
    /\ copyFaults' = copyFaults /\ excused' = excused /\ overwritten' = overwritten /\ hollow' = hollow
    /\ lastId' = lastId

LEMMA UntouchedKeepsInv ==
    ASSUME CopiesInv, Untouched, TableStep, raced' = raced, work' = work
    PROVE  CopiesInv'
<1>1. RecordInv /\ copyFaults \in Nat
  BY DEF CopiesInv, BookInv, RecordInv, CopyShape
<1>2. DiskShape' /\ FilesStep
  BY <1>1, SameDisk DEF Untouched
<1>3. HandlerStep
  BY <1>1, HandlersSame DEF Untouched
<1>4. CommonStep
  BY <1>1, <1>2, <1>3 DEF CommonStep, Untouched
<1>5. QuietStep
  BY <1>1 DEF QuietStep, Untouched
<1> QED BY <1>4, <1>5, QuietKeepsInv

LEMMA RestoreRequest ==
    ASSUME CopiesInv, NEW i \in Ids, restore(i)
    PROVE  CopiesInv'
<1>1. RecordInv /\ Untouched /\ backups' = backups /\ work' = work /\ raced' = raced
  BY DEF restore, diskVars, Untouched, CopiesInv, BookInv
<1>2. RowStep /\ RowsStay
  BY <1>1, SameRows DEF Untouched
<1>3. PICK j : /\ j = [NoJob EXCEPT !.type = "restore", !.id = i, !.path = backups[i].path, !.s3 = backups[i].s3,
                          !.provider = IF backups[i].s3 # 0 /\ backups[i].cloud THEN Provider ELSE "none"]
               /\ queue' = queue \cup {j}
  BY DEF restore
<1>4. DOMAIN j = JobFields /\ j.type = "restore" /\ j.id = i /\ j.tries = 0
  BY <1>3 DEF NoJob, JobFields
<1>5. backups[i].status = "completed"
  BY DEF restore
<1>6. Job(j) /\ AtRest(backups[i])
  <2>1. i <= lastId
    BY <1>1, <1>5, NoneShape, CopiesAssumption DEF RecordInv, FreshInv, CopyShape, TableShape
  <2> QED BY <1>4, <1>5, <2>1 DEF Job, GivenOut, AtRest, JobTypes
<1>7. QueueStep
  BY <1>3, <1>4, <1>6 DEF QueueStep
<1>8. JobsKeep
  BY <1>1, <1>3, <1>4 DEF JobsKeep, AllJobs
<1>9. TableStep
  BY <1>1, <1>2, <1>7, <1>8 DEF TableStep, WorkStep, WorkQuiet
<1> QED BY <1>1, <1>9, UntouchedKeepsInv

LEMMA ProviderRequests ==
    ASSUME CopiesInv, (\E p \in CopyProviders : deleteProvider(p)) \/ (\E v \in BOOLEAN : setRetention(v))
    PROVE  CopiesInv'
<1>1. RecordInv /\ Untouched /\ Same /\ work' = work /\ raced' = raced
  BY DEF deleteProvider, setRetention, diskVars, Untouched, Same, CopiesInv, BookInv
<1>2. TableStep
  BY <1>1, SameStep DEF Untouched
<1> QED BY <1>1, <1>2, UntouchedKeepsInv

\* The queue and the worker stay, and rows are rewritten as RowsStep allows.
LEMMA RowsOnly ==
    ASSUME CopiesInv, Untouched, queue' = queue, work' = work, raced' = raced, RowStep, RowsStay
    PROVE  CopiesInv'
<1>1. QueueStep /\ WorkStep /\ WorkQuiet
  BY DEF QueueStep, WorkStep, WorkQuiet
<1>2. JobsKeep
  BY DEF JobsKeep, AllJobs
<1>3. TableStep
  BY <1>1, <1>2 DEF TableStep
<1> QED BY <1>3, UntouchedKeepsInv

LEMMA AgeKeepsInv ==
    ASSUME CopiesInv, NEW i \in Ids, Age(i)
    PROVE  CopiesInv'
<1>1. RecordInv /\ Untouched /\ queue' = queue /\ work' = work /\ raced' = raced
  BY DEF Age, diskVars, Untouched, CopiesInv, BookInv
<1>2. PICK row : row = [backups[i] EXCEPT !.old = TRUE]
  OBVIOUS
<1>3. DOMAIN backups[i] = BackupFields /\ backups[i].status # "none"
  BY <1>1 DEF RecordInv, CopyShape, TableShape, Age, ListedCopies
<1>4. /\ DOMAIN row = BackupFields /\ row.status = backups[i].status /\ row.path = backups[i].path
      /\ row.s3 = backups[i].s3 /\ row.expires = backups[i].expires /\ row.old
  BY <1>2, <1>3 DEF BackupFields
<1>5. backups' = [backups EXCEPT ![i] = row]
  BY <1>2 DEF Age
<1>6. /\ DOMAIN backups' = Ids /\ backups'[i] = row
      /\ \A k \in Ids : k # i => backups'[k] = backups[k]
  BY <1>1, <1>5, Rewritten
<1>7. RowStep
  BY <1>1, <1>3, <1>4, <1>6, RowsStep DEF Untouched
<1>8. RowsStay
  BY <1>4, <1>6 DEF RowsStay
<1> QED BY <1>1, <1>7, <1>8, RowsOnly

LEMMA StuckKeepsInv ==
    ASSUME CopiesInv, CleanupStuckRunning
    PROVE  CopiesInv'
<1>1. RecordInv /\ Untouched /\ queue' = queue /\ work' = work /\ raced' = raced
  BY DEF CleanupStuckRunning, diskVars, Untouched, CopiesInv, BookInv
<1>2. DOMAIN backups' = Ids
  BY DEF CleanupStuckRunning
<1>3. ASSUME NEW i \in Ids
      PROVE  \/ backups'[i] = backups[i]
             \/ /\ backups[i].status = "running" /\ DOMAIN backups'[i] = BackupFields /\ backups'[i].status = "failed"
                /\ backups'[i].path = backups[i].path /\ backups'[i].s3 = backups[i].s3
                /\ backups'[i].expires = backups[i].expires /\ backups'[i].old = backups[i].old
  <2>1. PICK row : row = [backups[i] EXCEPT !.status = "failed"]
    OBVIOUS
  <2>2. DOMAIN backups[i] = BackupFields
    BY <1>1 DEF RecordInv, CopyShape, TableShape
  <2>3. /\ DOMAIN row = BackupFields /\ row.status = "failed" /\ row.path = backups[i].path
        /\ row.s3 = backups[i].s3 /\ row.expires = backups[i].expires /\ row.old = backups[i].old
    BY <2>1, <2>2 DEF BackupFields
  <2>4. backups'[i] = IF backups[i].status = "running" THEN row ELSE backups[i]
    BY <2>1 DEF CleanupStuckRunning
  <2> QED BY <2>3, <2>4
<1>4. \A i \in Ids : backups[i].status = "running" => ~AtRest(backups[i])
  BY DEF AtRest
<1>5. RowStep
  <2>1. \A i \in Ids :
              \/ backups'[i] = backups[i]
              \/ /\ DOMAIN backups'[i] = BackupFields /\ backups[i].status # "none"
                 /\ backups'[i].status \notin {"none", "completed"} /\ ~AtRest(backups[i])
    BY <1>3, <1>4
  <2> QED BY <1>1, <1>2, <2>1, RowsStep DEF Untouched
<1>6. RowsStay
  BY <1>3 DEF RowsStay
<1> QED BY <1>1, <1>5, <1>6, RowsOnly

-----------------------------------------------------------------------------
(* A new backup, and a job that is claimed *)

LEMMA CreateKeepsRecords ==
    ASSUME RecordInv, NEW op \in {"create", "dump"}, NEW p, Create(op, p)
    PROVE  /\ RecordInv' /\ JobsKeep /\ lastId + 1 \in Ids /\ lastId' = lastId + 1
           /\ \A k \in Ids : k # lastId + 1 => backups'[k] = backups[k]
           /\ backups'[lastId + 1].status = "pending" /\ backups'[lastId + 1].s3 = 0
           /\ backups[lastId + 1] = NoBackup
<1>1. PICK i \in Ids : i = lastId + 1
  BY DEF Create
<1>2. PICK row : row = [NoBackup EXCEPT !.status = "pending", !.cloud = (p # "none")]
  OBVIOUS
<1>3. DOMAIN row = BackupFields /\ row.status = "pending" /\ row.s3 = 0
  BY <1>2 DEF NoBackup, BackupFields
<1>4. PICK n : n = [NoJob EXCEPT !.type = op, !.id = i, !.provider = p]
  OBVIOUS
<1>5. DOMAIN n = JobFields /\ n.type = op /\ n.id = i /\ n.tries = 0
  BY <1>4 DEF NoJob, JobFields
<1>6. backups' = [backups EXCEPT ![i] = row] /\ queue' = queue \cup {n} /\ lastId' = i
  BY <1>1, <1>2, <1>4 DEF Create
<1>7. /\ root' = root /\ aside' = aside /\ work' = work /\ handlers' = handlers /\ copyFaults' = copyFaults
      /\ excused' = excused
  BY DEF Create, diskVars
<1>8. /\ DOMAIN backups' = Ids /\ backups'[i] = row
      /\ \A k \in Ids : k # i => backups'[k] = backups[k]
  BY <1>6, Rewritten
<1>9. lastId \in Nat /\ i \in Nat /\ i > lastId /\ Ids \subseteq Nat
  BY <1>1, CopiesAssumption DEF RecordInv, CopyShape, TableShape
<1>10. backups[i] = NoBackup
  BY <1>9 DEF RecordInv, FreshInv
<1>11. \A k : GivenOut(k) => GivenOut(k)' /\ k \in Ids /\ k # i /\ backups'[k] = backups[k]
  BY <1>6, <1>8, <1>9 DEF GivenOut
<1>12. \A j : Job(j) => Job(j)' /\ GivenOut(j.id)
  BY <1>11 DEF Job
<1>13. \A j \in queue : Job(j)
  BY DEF RecordInv, CopyShape, WorkShape
<1>14. Making(work.job) \/ work.job.type \in JobTypes => GivenOut(work.job.id)
  BY <1>12, NoneShape DEF RecordInv, CopyShape, WorkShape, Making, JobTypes
<1>15. TableShape'
  BY <1>3, <1>6, <1>8, <1>9, <1>1 DEF TableShape, RecordInv, CopyShape
<1>16. DiskShape'
  BY <1>7 DEF DiskShape, RecordInv, CopyShape
<1>17. WorkShape'
  <2>1. Job(n)'
    BY <1>5, <1>6, <1>9 DEF Job, GivenOut, JobTypes
  <2>2. \A j \in queue' : Job(j)'
    BY <2>1, <1>6, <1>12, <1>13
  <2> QED BY <2>2, <1>7, <1>12 DEF WorkShape, RecordInv, CopyShape
<1>18. HandlerShape'
  BY <1>7, <1>11 DEF HandlerShape, RecordInv, CopyShape
<1>19. FreshInv'
  BY <1>6, <1>8, <1>9 DEF FreshInv, RecordInv
<1>20. MakerInv'
  <2>1. \A j \in queue : Making(j) => j.id # i /\ j.id \in Ids
    BY <1>11, <1>12, <1>13
  <2>2. \A j, k \in queue' : Making(j) /\ Making(k) /\ j.id = k.id => j = k
    BY <2>1, <1>5, <1>6 DEF RecordInv, MakerInv
  <2>3. \A j \in queue' : Making(j) => backups'[j.id].status # "completed" /\ ~(Making(work.job) /\ work.job.id = j.id)
    BY <2>1, <1>3, <1>5, <1>6, <1>8, <1>11, <1>14 DEF RecordInv, MakerInv
  <2>4. Making(work.job) /\ work.pc \in {"sent", "mark"} => backups'[work.job.id].status # "completed"
    BY <1>11, <1>14 DEF RecordInv, MakerInv
  <2>5. \A j : Making(j)' <=> Making(j)
    BY DEF Making
  <2> QED BY <2>2, <2>3, <2>4, <2>5, <1>7 DEF RecordInv, MakerInv
<1>21. RestorerInv'
  <2>1. \A j \in queue' : j.type = "restore" => AtRest(backups'[j.id])
    BY <1>5, <1>6, <1>11, <1>12, <1>13 DEF RecordInv, RestorerInv, AllJobs
  <2>2. work.job.type = "restore" => AtRest(backups'[work.job.id])
    BY <1>11, <1>14 DEF RecordInv, RestorerInv, AllJobs, JobTypes
  <2>3. \A s \in Slots : handlers[s] # NoHandler => AtRest(backups'[handlers[s].id])
    BY <1>11 DEF RecordInv, RestorerInv, CopyShape, HandlerShape
  <2> QED BY <2>1, <2>2, <2>3, <1>7 DEF RecordInv, RestorerInv, AllJobs
<1>22. ExcuseInv'
  <2>1. \A k \in Ids : k <= lastId' /\ backups'[k].status = "none" => k \in excused
    BY <1>1, <1>3, <1>6, <1>8, <1>9 DEF RecordInv, ExcuseInv
  <2>2. \A j \in queue' : j.type = "delete" => j.id \in excused
    BY <1>5, <1>6 DEF RecordInv, ExcuseInv, AllJobs
  <2> QED BY <2>1, <2>2, <1>7 DEF RecordInv, ExcuseInv, AllJobs
<1>23. copyFaults' \in Nat
  BY <1>7 DEF RecordInv, CopyShape
<1>24. RecordInv'
  BY <1>15, <1>16, <1>17, <1>18, <1>19, <1>20, <1>21, <1>22, <1>23 DEF RecordInv, CopyShape
<1>25. JobsKeep
  BY <1>5, <1>6, <1>7 DEF JobsKeep, AllJobs
<1> QED BY <1>1, <1>3, <1>6, <1>8, <1>10, <1>24, <1>25

LEMMA CreateKeepsInv ==
    ASSUME CopiesInv, NEW op \in {"create", "dump"}, NEW p, Create(op, p)
    PROVE  CopiesInv'
<1>1. RecordInv
  BY DEF CopiesInv, BookInv
<1>2. /\ RecordInv' /\ JobsKeep /\ lastId + 1 \in Ids
      /\ \A k \in Ids : k # lastId + 1 => backups'[k] = backups[k]
      /\ backups'[lastId + 1].status = "pending" /\ backups'[lastId + 1].s3 = 0
      /\ backups[lastId + 1] = NoBackup
  BY <1>1, CreateKeepsRecords
<1>3. /\ root' = root /\ aside' = aside /\ objects' = objects /\ work' = work /\ handlers' = handlers
      /\ cleaning' = cleaning /\ copyFaults' = copyFaults /\ excused' = excused /\ overwritten' = overwritten
      /\ hollow' = hollow /\ raced' = raced
  BY DEF Create, diskVars
<1>4. CopyInv'
  <2>1. FilesStep
    BY <1>1, <1>3, SameDisk
  <2>2. CopyStep
    BY <1>2, <1>3, <2>1, NoneShape DEF CopyStep, CopyBase, CopyRow, WorkQuiet
  <2> QED BY <2>2, StepKeepsCopies DEF CopiesInv, BookInv, RecordInv, CopyShape
<1>5. DeleteInv'
  <2> SUFFICES ASSUME ~raced'
               PROVE  DeleteInv'
    BY DEF DeleteInv
  <2>1. \A j \in AllJobs : j.type = "delete" => j.id \in Ids /\ j.id # lastId + 1
    <3>1. \A j \in AllJobs : j.type = "delete" => GivenOut(j.id)
      BY <1>1, NoneShape DEF AllJobs, RecordInv, CopyShape, WorkShape, Job
    <3> QED BY <1>1, <3>1 DEF GivenOut, RecordInv, CopyShape, TableShape
  <2>2. \A i \in Ids \ {lastId + 1} : Doomed(i) => Doomed(i)'
    <3>1. KeptCopies' = KeptCopies
      <4>1. PICK D, E : D = {i \in Ids : backups[i].status = "completed"} /\ E = {i \in Ids : backups'[i].status = "completed"}
        OBVIOUS
      <4>2. D = E
        BY <4>1, <1>2, NoneShape
      <4> QED BY <4>1, <4>2 DEF KeptCopies
    <3> QED BY <3>1, <1>2, <1>3 DEF Doomed
  <2>3. ASSUME NEW j \in AllJobs', j.type = "delete"
        PROVE  backups'[j.id].status = "none" \/ Doomed(j.id)'
    <3>1. PICK k \in AllJobs : k.type = "delete" /\ k.id = j.id
      BY <1>2, <2>3 DEF JobsKeep
    <3>2. PICK i \in Ids \ {lastId + 1} : i = j.id
      BY <2>1, <3>1
    <3>3. backups[i].status = "none" \/ Doomed(i)
      BY <1>3, <3>1, <3>2 DEF CopiesInv, BookInv, DeleteInv
    <3>4. backups'[i].status = "none" \/ Doomed(i)'
      BY <1>2, <2>2, <3>3
    <3> QED BY <3>2, <3>4
  <2> QED BY <2>3 DEF DeleteInv
<1>6. DataInv'
  <2>1. QuietStep
    BY <1>1, <1>3 DEF QuietStep, RecordInv, CopyShape
  <2> QED BY <1>1, <2>1, StepKeepsData DEF CopiesInv, RecordInv, CopyShape
<1> QED BY <1>2, <1>4, <1>5, <1>6 DEF CopiesInv, BookInv

LEMMA IdleWorker ==
    ASSUME RecordInv, work.pc # "sent" \/ work.job.type # "restore"
    PROVE  handlers["worker"] = NoHandler
  BY DEF RecordInv, RestorerInv

\* The facts about ClaimJob that its lemmas share
LEMMA ClaimEffect ==
    ASSUME RecordInv, NEW j \in queue, ClaimJob(j)
    PROVE  /\ RowStep /\ RowsStay /\ Job(j) /\ work = NoWork /\ handlers["worker"] = NoHandler
           /\ work' # NoWork /\ DOMAIN work' = WorkFields /\ Job(work'.job) /\ work'.job.tries # 0 /\ work'.pc = "sent"
           /\ work'.job.type = j.type /\ work'.job.id = j.id
           /\ queue' = queue \ {j} /\ DOMAIN handlers' = Slots /\ handlers'["stray"] = handlers["stray"]
           /\ \/ handlers' = handlers
              \/ /\ j.type = "restore" /\ DOMAIN handlers'["worker"] = HandlerFields
                 /\ handlers'["worker"].id = j.id /\ handlers'["worker"].pc = "fetch"
           /\ root' = root /\ aside' = aside /\ objects' = objects /\ cleaning' = cleaning /\ copyFaults' = copyFaults
           /\ excused' = excused /\ overwritten' = overwritten /\ hollow' = hollow /\ lastId' = lastId
<1>1. /\ root' = root /\ aside' = aside /\ objects' = objects /\ cleaning' = cleaning /\ copyFaults' = copyFaults
      /\ excused' = excused /\ overwritten' = overwritten /\ hollow' = hollow /\ lastId' = lastId
      /\ work = NoWork /\ queue' = queue \ {j}
  BY DEF ClaimJob, diskVars
<1>2. Job(j)
  BY DEF RecordInv, CopyShape, WorkShape
<1>3. PICK c : c = [j EXCEPT !.tries = @ + 1]
  OBVIOUS
<1>4. DOMAIN c = JobFields /\ c.type = j.type /\ c.id = j.id /\ c.tries = j.tries + 1
  BY <1>2, <1>3 DEF Job, JobFields
<1>5. Job(c) /\ c.tries # 0
  BY <1>2, <1>4 DEF Job
<1>6. work' = [NoWork EXCEPT !.job = c, !.pc = "sent"]
  BY <1>3 DEF ClaimJob
<1>7. DOMAIN work' = WorkFields /\ work'.job = c /\ work'.pc = "sent"
  BY <1>6 DEF NoWork, WorkFields
<1>8. work' # NoWork
  BY <1>7, NoneShape
<1>9. handlers["worker"] = NoHandler /\ DOMAIN handlers = Slots
  BY <1>1, IdleWorker, NoneShape DEF RecordInv, CopyShape, HandlerShape
<1>10. /\ DOMAIN handlers' = Slots /\ handlers'["stray"] = handlers["stray"]
       /\ \/ handlers' = handlers
          \/ /\ j.type = "restore" /\ DOMAIN handlers'["worker"] = HandlerFields
             /\ handlers'["worker"].id = j.id /\ handlers'["worker"].pc = "fetch"
  <2>1. PICK h : h = [NoHandler EXCEPT !.pc = "fetch", !.id = j.id, !.job = j]
    OBVIOUS
  <2>2. DOMAIN h = HandlerFields /\ h.id = j.id /\ h.pc = "fetch"
    BY <2>1 DEF NoHandler, HandlerFields
  <2>3. handlers' = IF j.type = "restore" THEN [handlers EXCEPT !["worker"] = h] ELSE handlers
    BY <2>1 DEF ClaimJob
  <2> QED BY <1>9, <2>2, <2>3 DEF Slots
<1>11. RowStep /\ RowsStay
  <2>1. CASE backups' = backups
    BY <1>1, <2>1, SameRows
  <2>2. CASE j.type \in {"create", "dump"} /\ j.id \in ListedCopies /\ backups' = [backups EXCEPT ![j.id].status = "running"]
    <3>1. PICK i \in Ids : i = j.id
      BY <1>2 DEF Job, GivenOut
    <3>2. PICK row : row = [backups[i] EXCEPT !.status = "running"]
      OBVIOUS
    <3>3. DOMAIN backups[i] = BackupFields
      BY DEF RecordInv, CopyShape, TableShape
    <3>4. /\ DOMAIN row = BackupFields /\ row.status = "running" /\ row.path = backups[i].path
          /\ row.s3 = backups[i].s3 /\ row.expires = backups[i].expires /\ row.old = backups[i].old
      BY <3>2, <3>3 DEF BackupFields
    <3>5. backups' = [backups EXCEPT ![i] = row]
      BY <2>2, <3>1, <3>2
    <3>6. /\ DOMAIN backups' = Ids /\ backups'[i] = row
          /\ \A k \in Ids : k # i => backups'[k] = backups[k]
      BY <3>5, Rewritten
    <3>7. backups[i].status # "none" /\ backups[i].status # "completed"
      BY <2>2, <3>1 DEF ListedCopies, RecordInv, MakerInv, Making
    <3>8. ~AtRest(backups[i])
      BY <3>7 DEF AtRest
    <3>9. RowStep
      BY <1>1, <3>4, <3>6, <3>7, <3>8, RowsStep
    <3>10. RowsStay
      BY <3>4, <3>6, <3>7 DEF RowsStay
    <3> QED BY <3>9, <3>10
  <2> QED BY <2>1, <2>2 DEF ClaimJob
<1> QED BY <1>1, <1>2, <1>4, <1>5, <1>7, <1>8, <1>9, <1>10, <1>11

LEMMA ClaimKeepsRecords ==
    ASSUME RecordInv, NEW j \in queue, ClaimJob(j)
    PROVE  RecordInv'
<1>1. /\ RowStep /\ RowsStay /\ Job(j) /\ work = NoWork /\ handlers["worker"] = NoHandler
      /\ work' # NoWork /\ DOMAIN work' = WorkFields /\ Job(work'.job) /\ work'.job.tries # 0 /\ work'.pc = "sent"
      /\ work'.job.type = j.type /\ work'.job.id = j.id
      /\ queue' = queue \ {j} /\ DOMAIN handlers' = Slots /\ handlers'["stray"] = handlers["stray"]
  BY ClaimEffect
<1>2. /\ \/ handlers' = handlers
         \/ /\ j.type = "restore" /\ DOMAIN handlers'["worker"] = HandlerFields
            /\ handlers'["worker"].id = j.id /\ handlers'["worker"].pc = "fetch"
      /\ root' = root /\ aside' = aside /\ copyFaults' = copyFaults /\ excused' = excused /\ lastId' = lastId
  BY ClaimEffect
<1>3. \A i : GivenOut(i)' <=> GivenOut(i)
  BY <1>2 DEF GivenOut
<1>4. \A k : Job(k)' <=> Job(k)
  BY <1>3 DEF Job
<1>5. j.id \in Ids /\ GivenOut(j.id)
  BY <1>1 DEF Job, GivenOut
<1>6. \A k \in queue : k.id \in Ids /\ Job(k)
  BY DEF RecordInv, CopyShape, WorkShape, Job, GivenOut
<1>7. TableShape' /\ FreshInv'
  BY <1>1 DEF RowStep
<1>8. DiskShape' /\ copyFaults' \in Nat
  BY <1>2 DEF RecordInv, CopyShape, DiskShape
<1>9. WorkShape'
  <2>1. \A k \in queue' : Job(k)'
    BY <1>1, <1>4, <1>6
  <2>2. PICK w : w = work'
    OBVIOUS
  <2>3. Job(w.job) <=> Job(w.job)'
    BY <1>4
  <2> QED BY <1>1, <2>1, <2>2, <2>3, NoneShape DEF WorkShape
<1>10. HandlerShape'
  <2>1. \A s \in Slots : DOMAIN handlers'[s] = HandlerFields /\ (handlers'[s] = NoHandler \/ GivenOut(handlers'[s].id))
    BY <1>1, <1>2, <1>5 DEF RecordInv, CopyShape, HandlerShape, Slots
  <2>2. \A s \in Slots : DOMAIN handlers'[s] = HandlerFields /\ (handlers'[s] = NoHandler \/ (handlers'[s].id \in Ids /\ handlers'[s].id <= lastId'))
    BY <2>1, <1>2 DEF GivenOut
  <2> QED BY <1>1, <2>2 DEF HandlerShape, GivenOut
<1>11. MakerInv'
  <2>1. \A k \in queue' : Making(k) => backups'[k.id].status # "completed"
    BY <1>1, <1>6 DEF RowsStay, RecordInv, MakerInv
  <2>2. \A k \in queue' : Making(k) => ~(Making(work'.job) /\ work'.job.id = k.id)
    BY <1>1 DEF RecordInv, MakerInv, Making
  <2>3. Making(work'.job) => backups'[work'.job.id].status # "completed"
    BY <1>1, <1>5 DEF RowsStay, RecordInv, MakerInv, Making
  <2>4. \A k, l \in queue' : Making(k) /\ Making(l) /\ k.id = l.id => k = l
    BY <1>1 DEF RecordInv, MakerInv
  <2>5. \A k : Making(k)' <=> Making(k)
    BY DEF Making
  <2>6. (Making(work.job))' <=> Making(work'.job)
    BY DEF Making
  <2> QED BY <1>1, <2>1, <2>2, <2>3, <2>4, <2>5, <2>6 DEF MakerInv
<1>12. RestorerInv'
  <2>1. \A i \in Ids : AtRest(backups[i]) => AtRest(backups'[i])
    BY <1>1 DEF RowStep
  <2>2. \A k \in queue : k.type = "restore" => AtRest(backups'[k.id])
    BY <2>1, <1>6 DEF RecordInv, RestorerInv, AllJobs
  <2>3. \A s \in Slots : handlers[s] # NoHandler => AtRest(backups'[handlers[s].id])
    BY <2>1 DEF RecordInv, RestorerInv, CopyShape, HandlerShape, GivenOut
  <2>4. \A s \in Slots : handlers'[s] # NoHandler => AtRest(backups'[handlers'[s].id])
    BY <1>1, <1>2, <2>2, <2>3 DEF Slots
  <2>5. handlers'["worker"] # NoHandler => work'.pc = "sent" /\ work'.job.type = "restore"
    BY <1>1, <1>2
  <2>6. \A k \in queue' \cup {work'.job} : k.type = "restore" => AtRest(backups'[k.id])
    BY <1>1, <2>2
  <2> QED BY <2>4, <2>5, <2>6 DEF RestorerInv, AllJobs
<1>13. ExcuseInv'
  <2>1. \A i \in Ids : i <= lastId' /\ backups'[i].status = "none" => i \in excused'
    BY <1>1, <1>2 DEF RowsStay, RecordInv, ExcuseInv
  <2>2. \A k \in queue' \cup {work'.job} : k.type = "delete" => k.id \in excused'
    BY <1>1, <1>2 DEF RecordInv, ExcuseInv, AllJobs
  <2> QED BY <2>1, <2>2 DEF ExcuseInv, AllJobs
<1> QED BY <1>7, <1>8, <1>9, <1>10, <1>11, <1>12, <1>13 DEF RecordInv, CopyShape

LEMMA ClaimKeepsInv ==
    ASSUME CopiesInv, NEW j \in queue, ClaimJob(j)
    PROVE  CopiesInv'
<1>0. RecordInv
  BY DEF CopiesInv, BookInv
<1>1. /\ RowsStay /\ RowStep /\ work = NoWork /\ handlers["worker"] = NoHandler
      /\ work'.pc = "sent" /\ work'.job.type = j.type /\ work'.job.id = j.id
      /\ queue' = queue \ {j} /\ DOMAIN handlers' = Slots /\ handlers'["stray"] = handlers["stray"]
      /\ \/ handlers' = handlers
         \/ /\ j.type = "restore" /\ DOMAIN handlers'["worker"] = HandlerFields
            /\ handlers'["worker"].id = j.id /\ handlers'["worker"].pc = "fetch"
  BY <1>0, ClaimEffect
<1>2. /\ root' = root /\ aside' = aside /\ objects' = objects /\ cleaning' = cleaning /\ copyFaults' = copyFaults
      /\ excused' = excused /\ overwritten' = overwritten /\ hollow' = hollow /\ lastId' = lastId
  BY <1>0, ClaimEffect
<1>3. RecordInv'
  BY <1>0, ClaimKeepsRecords
<1>4. CopyInv'
  <2>1. FilesStep
    BY <1>0, <1>2, SameDisk
  <2>2. CopyStep
    BY <1>1, <1>2, <2>1 DEF CopyStep, CopyBase, CopyRow, WorkQuiet, RowsStay
  <2> QED BY <2>2, StepKeepsCopies DEF CopiesInv, BookInv, RecordInv, CopyShape
<1>5. DeleteInv'
  <2>1. JobsKeep
    <3> SUFFICES ASSUME NEW k \in queue' \cup {work'.job}, k.type = "delete"
                 PROVE  \E l \in queue \cup {work.job} : l.type = "delete" /\ l.id = k.id
      BY DEF JobsKeep, AllJobs
    <3>1. CASE k \in queue'
      BY <1>1, <3>1
    <3>2. CASE k = work'.job
      <4>1. j \in queue /\ j.type = "delete" /\ j.id = k.id
        BY <1>1, <3>2
      <4> QED BY <4>1
    <3> QED BY <3>1, <3>2
  <2>2. \A i \in Ids : Doomed(i) => Doomed(i)'
    BY <1>1, <1>2, DoomStays, RowsStayStatus
  <2>3. raced => raced'
    BY DEF ClaimJob, Race
  <2>4. DeleteStep
    BY <1>1, <2>1, <2>2, <2>3 DEF DeleteStep, RowsStay
  <2> QED BY <1>0, <2>4, DeleteIds, StepKeepsDeletes DEF CopiesInv, BookInv
<1>6. DataInv'
  <2>1. handlers' = handlers \/ CalmHandlers
    BY <1>1, NoneShape DEF CalmHandlers, CalmPcs, Slots
  <2>2. QuietStep
    BY <1>0, <1>2, <2>1 DEF QuietStep, RecordInv, CopyShape
  <2> QED BY <1>0, <2>2, StepKeepsData DEF CopiesInv, RecordInv, CopyShape
<1> QED BY <1>3, <1>4, <1>5, <1>6 DEF CopiesInv, BookInv

-----------------------------------------------------------------------------
(* The worker's own steps after the archive is made *)

LEMMA LateWork ==
    ASSUME RecordInv, work.pc \in {"mark", "s3", "remove", "clear", "oldest"}
    PROVE  /\ work # NoWork /\ Making(work.job) /\ handlers["worker"] = NoHandler
           /\ work.job.id \in Ids /\ DOMAIN work = WorkFields
           /\ work.job.id \notin ListedCopies => work.job.id \in excused
           /\ DOMAIN backups[work.job.id] = BackupFields
<1>1. work # NoWork
  BY NoneShape
<1>2. Making(work.job) /\ handlers["worker"] = NoHandler /\ DOMAIN work = WorkFields
  BY IdleWorker DEF RecordInv, MakerInv, CopyShape, WorkShape
<1>3. work.job.id \in Ids /\ work.job.id <= lastId
  BY <1>1, WorkJob
<1> QED BY <1>1, <1>2, <1>3 DEF ListedCopies, RecordInv, ExcuseInv, CopyShape, TableShape

LEMMA Advanced ==
    ASSUME DOMAIN work = WorkFields, NEW x, work' = [work EXCEPT !.pc = x]
    PROVE  DOMAIN work' = WorkFields /\ work'.job = work.job /\ work'.n = work.n /\ work'.s3 = work.s3 /\ work'.pc = x
  BY DEF WorkFields

\* What every such step leaves alone
Advances(x) ==
    /\ work' = [work EXCEPT !.pc = x] /\ queue' = queue /\ handlers' = handlers /\ objects' = objects
    /\ aside' = aside /\ lastId' = lastId /\ excused' = excused /\ overwritten' = overwritten /\ hollow' = hollow
    /\ cleaning' = cleaning /\ copyFaults' = copyFaults

LEMMA AdvanceKeepsRest ==
    ASSUME CopiesInv, work.pc \in {"mark", "s3", "remove", "clear", "oldest"},
           NEW x \in {"s3", "remove", "clear", "oldest"}, Advances(x), RowStep,
           DOMAIN root' = DirFields, root'.tree = root.tree,
           \A i \in Ids : backups[i].status = "none" => backups'[i].status = "none",
           \/ raced' = raced /\ StatusKeep
           \/ raced' = (raced \/ cleaning # "idle")
    PROVE  RecordInv' /\ DeleteInv' /\ DataInv'
<1>0. RecordInv /\ copyFaults \in Nat /\ CopyShape
  BY DEF CopiesInv, BookInv, RecordInv, CopyShape
<1>1. Making(work.job) /\ handlers["worker"] = NoHandler /\ DOMAIN work = WorkFields /\ work # NoWork
  BY <1>0, LateWork
<1>2. DOMAIN work' = WorkFields /\ work'.job = work.job /\ work'.pc = x
  BY <1>1, Advanced DEF Advances
<1>3. RecordInv'
  <2>1. DiskShape'
    BY <1>0 DEF Advances, RecordInv, CopyShape, DiskShape
  <2>2. QueueStep
    BY DEF QueueStep, Advances
  <2>3. WorkStep
    BY <1>1, <1>2 DEF WorkStep
  <2>4. HandlerStep
    BY <1>0, <1>1, HandlersSame DEF Advances
  <2> QED BY <1>0, <2>1, <2>2, <2>3, <2>4, StepKeepsRecords DEF Advances
<1>4. DeleteInv'
  <2>1. AllJobs' = AllJobs
    BY <1>2 DEF AllJobs, Advances
  <2>2. ~raced' => \A i \in Ids : Doomed(i) => Doomed(i)'
    <3>1. CASE StatusKeep
      BY <3>1, DoomStays DEF Advances
    <3>2. CASE raced' = (raced \/ cleaning # "idle")
      BY <3>2 DEF Doomed
    <3> QED BY <3>1, <3>2
  <2>a. JobsKeep
    BY <2>1 DEF JobsKeep
  <2>b. raced => raced'
    <3>1. CASE raced' = raced
      BY <3>1
    <3>2. CASE raced' = (raced \/ cleaning # "idle")
      BY <3>2
    <3> QED BY <3>1, <3>2
  <2>3. DeleteStep
    BY <2>a, <2>b, <2>2 DEF DeleteStep
  <2> QED BY <1>0, <2>3, DeleteIds, StepKeepsDeletes DEF CopiesInv, BookInv
<1>5. DataInv'
  <2>1. QuietStep
    BY <1>0 DEF QuietStep, Advances
  <2> QED BY <1>0, <2>1, StepKeepsData DEF CopiesInv
<1> QED BY <1>3, <1>4, <1>5

\* A worker's step on its own row: the other rows keep their copies.
LEMMA AdvanceKeepsCopies ==
    ASSUME CopiesInv, work.pc \in {"mark", "s3", "remove", "clear", "oldest"},
           NEW x \in {"s3", "remove", "clear", "oldest"}, Advances(x),
           NEW i \in Ids, i = work.job.id,
           \A k \in Ids : k # i => backups'[k] = backups[k] /\ FilesOf(k),
           i \in Ids \ excused' => StoredRow(i)', i \in Afloat' => CopiedRow(i)',
           x = "s3" => work.s3 /\ work.pc \in {"mark", "s3"},
           x \in {"remove", "clear"} /\ i \notin excused => backups'[i].s3 = work.n
    PROVE  CopyInv'
<1>0. RecordInv /\ CopyInv
  BY DEF CopiesInv, BookInv
<1>1. DOMAIN work = WorkFields /\ work.job.id \in Ids
  BY <1>0, LateWork
<1>2. work'.job = work.job /\ work'.n = work.n /\ work'.s3 = work.s3 /\ work'.pc = x
  BY <1>1, Advanced DEF Advances
<1>3. CopyBase
  BY DEF CopyBase, Advances
<1>5. \A k \in Ids \ excused' : StoredRow(k)'
  <2>1. \A k \in Ids \ excused' : k # i => StoredRow(k)'
    BY <1>0, <1>3, StoredRowStays
  <2> QED BY <2>1
<1>6. \A k \in Afloat' : CopiedRow(k)'
  <2>1. \A k \in Afloat' : k # i => CopyRow(k) /\ FilesOf(k)
    BY DEF CopyRow, Afloat
  <2>2. \A k \in Afloat' : k # i => CopiedRow(k)'
    BY <1>0, <1>3, <2>1, CopiedRowStays
  <2> QED BY <2>2
<1>7. work'.n # 0
  BY <1>0, <1>2 DEF CopyInv
<1>8. x = "s3" /\ work.job.id \notin excused => Stored(objects, work.job.id, work.n)
  BY <1>0 DEF CopyInv
<1>9. excused' = excused /\ objects' = objects
  BY DEF Advances
<1> QED BY <1>2, <1>5, <1>6, <1>7, <1>8, <1>9, CopyInvRows

LEMMA StoredIsCopied ==
    ASSUME NEW i, StoredRow(i)', backups'[i].s3 # 0
    PROVE  CopiedRow(i)'
  BY DEF StoredRow, CopiedRow

LEMMA SameRootFiles ==
    ASSUME root' = root, aside' = aside
    PROVE  \A i : FilesOf(i)
  BY DEF FilesOf

LEMMA MarkKeepsInv ==
    ASSUME CopiesInv, MarkCompletedPath
    PROVE  CopiesInv'
<1>0. RecordInv /\ CopyInv /\ work.pc = "mark"
  BY DEF CopiesInv, BookInv, MarkCompletedPath
<1>1. PICK x : x = (IF work.s3 THEN "s3" ELSE "oldest")
  OBVIOUS
<1>2. x \in {"s3", "remove", "clear", "oldest"} /\ (x = "s3" => work.s3) /\ x \notin {"remove", "clear", "sent", "mark"}
  BY <1>1
<1>3. Advances(x) /\ root' = root /\ raced' = (raced \/ cleaning # "idle")
  BY <1>1 DEF MarkCompletedPath, diskVars, Advances, Race
<1>4. PICK i \in Ids : i = work.job.id
  BY <1>0, LateWork
<1>5. /\ Making(work.job) /\ (i \notin ListedCopies => i \in excused) /\ DOMAIN backups[i] = BackupFields
      /\ DOMAIN work = WorkFields
  BY <1>0, <1>4, LateWork
<1>6. work'.job = work.job /\ work'.pc = x
  BY <1>3, <1>5, Advanced DEF Advances
<1>7. DOMAIN root' = DirFields
  BY <1>0, <1>3 DEF RecordInv, CopyShape, DiskShape
<1>8. \A k : FilesOf(k)
  BY <1>3, SameRootFiles DEF Advances
<1>9. CopyBase /\ excused' = excused /\ overwritten' = overwritten /\ lastId' = lastId
  BY <1>3 DEF CopyBase, Advances
<1>10. CASE i \in ListedCopies
  <2>1. PICK row : row = [backups[i] EXCEPT !.status = "completed", !.path = work.n]
    OBVIOUS
  <2>2. DOMAIN row = BackupFields /\ row.status = "completed" /\ row.path = work.n /\ row.s3 = backups[i].s3
    BY <1>5, <2>1 DEF BackupFields
  <2>3. backups' = [backups EXCEPT ![i].status = "completed", ![i].path = work.n]
    BY <1>4, <1>10 DEF MarkCompletedPath
  <2>4. backups' = [backups EXCEPT ![i] = row]
    BY <1>0, <2>1, <2>3 DEF RecordInv, CopyShape, TableShape
  <2>5. /\ DOMAIN backups' = Ids /\ backups'[i] = row
        /\ \A k \in Ids : k # i => backups'[k] = backups[k]
    BY <1>0, <2>4, Rewritten
  <2>6. backups[i].status # "none"
    BY <1>10 DEF ListedCopies
  <2>7. RowStep
    BY <1>0, <1>2, <1>4, <1>5, <1>6, <1>9, <2>2, <2>5, <2>6, RowsStep
  <2>8. RecordInv' /\ DeleteInv' /\ DataInv'
    BY <1>0, <1>2, <1>3, <1>7, <2>5, <2>6, <2>7, AdvanceKeepsRest
  <2>9. i \in Ids \ excused' => StoredRow(i)'
    BY <1>0, <1>9, <2>2, <2>5, StoredRowStays
  <2>10. i \in Afloat' => CopiedRow(i)'
    <3> SUFFICES ASSUME i \in Afloat'
                 PROVE  Kept(root', aside', i, backups'[i].path)
      BY DEF CopiedRow
    <3>1. i \in Afloat
      BY <1>9 DEF Afloat
    <3>2. Kept(root, aside, i, work.n)
      BY <1>0, <1>4, <3>1 DEF CopyInv
    <3> QED BY <1>3, <2>2, <2>5, <3>2 DEF Advances
  <2>11. CopyInv'
    BY <1>0, <1>2, <1>3, <1>4, <1>8, <2>5, <2>9, <2>10, AdvanceKeepsCopies
  <2> QED BY <2>8, <2>11 DEF CopiesInv, BookInv
<1>11. CASE i \notin ListedCopies
  <2>1. backups' = backups
    BY <1>4, <1>11 DEF MarkCompletedPath
  <2>2. RowStep /\ RowsStay
    BY <1>0, <1>9, <2>1, SameRows
  <2>3. RecordInv' /\ DeleteInv' /\ DataInv'
    BY <1>0, <1>2, <1>3, <1>7, <2>1, <2>2, AdvanceKeepsRest
  <2>4. i \in excused' /\ i \notin Afloat'
    BY <1>5, <1>9, <1>11 DEF Afloat
  <2>5. CopyInv'
    BY <1>0, <1>2, <1>3, <1>4, <1>8, <2>1, <2>4, AdvanceKeepsCopies
  <2> QED BY <2>3, <2>5 DEF CopiesInv, BookInv
<1> QED BY <1>10, <1>11

LEMMA UploadKeepsInv ==
    ASSUME CopiesInv, UpdateS3Path
    PROVE  CopiesInv'
<1>0. RecordInv /\ CopyInv /\ work.pc = "s3"
  BY DEF CopiesInv, BookInv, UpdateS3Path
<1>3. Advances("remove") /\ root' = root /\ raced' = raced
  BY DEF UpdateS3Path, diskVars, Advances
<1>4. PICK i \in Ids : i = work.job.id
  BY <1>0, LateWork
<1>5. (i \notin ListedCopies => i \in excused) /\ DOMAIN backups[i] = BackupFields
  BY <1>0, <1>4, LateWork
<1>7. DOMAIN root' = DirFields
  BY <1>0, <1>3 DEF RecordInv, CopyShape, DiskShape
<1>8. \A k : FilesOf(k)
  BY <1>3, SameRootFiles DEF Advances
<1>9. CopyBase /\ excused' = excused /\ overwritten' = overwritten /\ lastId' = lastId
  BY <1>3 DEF CopyBase, Advances
<1>10. CASE i \in ListedCopies
  <2>1. PICK row : row = [backups[i] EXCEPT !.s3 = work.n]
    OBVIOUS
  <2>2. /\ DOMAIN row = BackupFields /\ row.status = backups[i].status /\ row.path = backups[i].path
        /\ row.s3 = work.n /\ row.expires = backups[i].expires /\ row.old = backups[i].old
    BY <1>5, <2>1 DEF BackupFields
  <2>4. backups' = [backups EXCEPT ![i] = row]
    BY <1>4, <1>10, <2>1 DEF UpdateS3Path
  <2>5. /\ DOMAIN backups' = Ids /\ backups'[i] = row
        /\ \A k \in Ids : k # i => backups'[k] = backups[k]
    BY <1>0, <2>4, Rewritten
  <2>6. backups[i].status # "none"
    BY <1>10 DEF ListedCopies
  <2>7. RowStep
    BY <1>0, <1>9, <2>2, <2>5, <2>6, RowsStep
  <2>s. StatusKeep
    BY <2>2, <2>5 DEF StatusKeep
  <2>8. RecordInv' /\ DeleteInv' /\ DataInv'
    BY <1>0, <1>3, <1>7, <2>2, <2>5, <2>7, <2>s, AdvanceKeepsRest
  <2>9. i \in Ids \ excused' => StoredRow(i)' /\ backups'[i].s3 # 0
    <3> SUFFICES ASSUME i \notin excused'
                 PROVE  Stored(objects', i, backups'[i].s3) /\ backups'[i].s3 # 0
      BY DEF StoredRow
    <3>1. Stored(objects, i, work.n) /\ work.n # 0
      BY <1>0, <1>4, <1>9 DEF CopyInv
    <3> QED BY <1>3, <2>2, <2>5, <3>1 DEF Advances
  <2>10. i \in Afloat' => CopiedRow(i)'
    BY <2>9, StoredIsCopied DEF Afloat
  <2>11. CopyInv'
    BY <1>0, <1>3, <1>4, <1>8, <2>2, <2>5, <2>9, <2>10, AdvanceKeepsCopies
  <2> QED BY <2>8, <2>11 DEF CopiesInv, BookInv
<1>11. CASE i \notin ListedCopies
  <2>1. backups' = backups
    BY <1>4, <1>11 DEF UpdateS3Path
  <2>2. RowStep /\ StatusKeep
    BY <1>0, <1>9, <2>1, SameRows, RowsStayStatus
  <2>3. RecordInv' /\ DeleteInv' /\ DataInv'
    BY <1>0, <1>3, <1>7, <2>1, <2>2, AdvanceKeepsRest
  <2>4. i \in excused' /\ i \notin Afloat' /\ i \in excused
    BY <1>5, <1>9, <1>11 DEF Afloat
  <2>5. CopyInv'
    BY <1>0, <1>3, <1>4, <1>8, <2>1, <2>4, AdvanceKeepsCopies
  <2> QED BY <2>3, <2>5 DEF CopiesInv, BookInv
<1> QED BY <1>10, <1>11

LEMMA RemoveKeepsInv ==
    ASSUME CopiesInv, RemoveUploaded
    PROVE  CopiesInv'
<1>0. RecordInv /\ CopyInv /\ work.pc = "remove"
  BY DEF CopiesInv, BookInv, RemoveUploaded
<1>1. PICK x : x = (IF PanelRemoves(work.job.id, work.n) THEN "clear" ELSE "oldest")
  OBVIOUS
<1>2. x \in {"clear", "oldest"}
  BY <1>1
<1>3. Advances(x) /\ root' = PanelRemove(root, work.job.id, work.n) /\ raced' = raced /\ backups' = backups
  BY <1>1 DEF RemoveUploaded, Advances
<1>4. PICK i \in Ids : i = work.job.id
  BY <1>0, LateWork
<1>5. DOMAIN root = DirFields
  BY <1>0 DEF RecordInv, CopyShape, DiskShape
<1>6. PICK d : d = root
  OBVIOUS
<1>7. PICK n : n = work.n
  OBVIOUS
<1>8. root' = PanelRemove(d, i, n)
  BY <1>3, <1>4, <1>6, <1>7
<1>9. /\ DOMAIN root' = DirFields /\ root'.tree = root.tree
      /\ \A f \in root.files : f \in root'.files \/ (f.id = i /\ f.n = n)
  BY <1>5, <1>6, <1>8, PanelRemoveShape
<1>10. CopyBase /\ excused' = excused /\ lastId' = lastId /\ aside' = aside
  BY <1>3 DEF CopyBase, Advances
<1>11. \A k \in Ids : k # i => FilesOf(k)
  BY <1>9, <1>10 DEF FilesOf, OnDisk
<1>12. RowStep /\ StatusKeep
  BY <1>0, <1>3, <1>10, SameRows, RowsStayStatus
<1>13. RecordInv' /\ DeleteInv' /\ DataInv'
  BY <1>0, <1>2, <1>3, <1>9, <1>12, AdvanceKeepsRest
<1>14. i \in Ids \ excused' => StoredRow(i)'
  BY <1>0, <1>3, <1>10, StoredRowStays
<1>15. i \notin excused => backups'[i].s3 = work.n /\ work.n # 0
  BY <1>0, <1>3, <1>4 DEF CopyInv
<1>16. i \in Afloat' => CopiedRow(i)'
  BY <1>10, <1>14, <1>15, StoredIsCopied DEF Afloat
<1>17. CopyInv'
  BY <1>0, <1>2, <1>3, <1>4, <1>11, <1>14, <1>15, <1>16, AdvanceKeepsCopies
<1> QED BY <1>13, <1>17 DEF CopiesInv, BookInv

LEMMA ClearKeepsInv ==
    ASSUME CopiesInv, ClearStoragePath
    PROVE  CopiesInv'
<1>0. RecordInv /\ CopyInv /\ work.pc = "clear"
  BY DEF CopiesInv, BookInv, ClearStoragePath
<1>3. Advances("oldest") /\ root' = root /\ raced' = raced
  BY DEF ClearStoragePath, diskVars, Advances
<1>4. PICK i \in Ids : i = work.job.id
  BY <1>0, LateWork
<1>5. (i \notin ListedCopies => i \in excused) /\ DOMAIN backups[i] = BackupFields
  BY <1>0, <1>4, LateWork
<1>7. DOMAIN root' = DirFields
  BY <1>0, <1>3 DEF RecordInv, CopyShape, DiskShape
<1>8. \A k : FilesOf(k)
  BY <1>3, SameRootFiles DEF Advances
<1>9. CopyBase /\ excused' = excused /\ overwritten' = overwritten /\ lastId' = lastId
  BY <1>3 DEF CopyBase, Advances
<1>10. CASE i \in ListedCopies
  <2>1. PICK row : row = [backups[i] EXCEPT !.path = 0]
    OBVIOUS
  <2>2. /\ DOMAIN row = BackupFields /\ row.status = backups[i].status
        /\ row.s3 = backups[i].s3 /\ row.expires = backups[i].expires /\ row.old = backups[i].old
    BY <1>5, <2>1 DEF BackupFields
  <2>4. backups' = [backups EXCEPT ![i] = row]
    BY <1>4, <1>10, <2>1 DEF ClearStoragePath
  <2>5. /\ DOMAIN backups' = Ids /\ backups'[i] = row
        /\ \A k \in Ids : k # i => backups'[k] = backups[k]
    BY <1>0, <2>4, Rewritten
  <2>6. backups[i].status # "none"
    BY <1>10 DEF ListedCopies
  <2>7. RowStep
    BY <1>0, <1>9, <2>2, <2>5, <2>6, RowsStep
  <2>s. StatusKeep
    BY <2>2, <2>5 DEF StatusKeep
  <2>8. RecordInv' /\ DeleteInv' /\ DataInv'
    BY <1>0, <1>3, <1>7, <2>2, <2>5, <2>7, <2>s, AdvanceKeepsRest
  <2>9. i \in Ids \ excused' => StoredRow(i)'
    BY <1>0, <1>9, <2>2, <2>5, StoredRowStays
  <2>10. i \in Ids \ excused' => backups'[i].s3 # 0
    BY <1>0, <1>4, <1>9, <2>2, <2>5 DEF CopyInv
  <2>11. i \in Afloat' => CopiedRow(i)'
    BY <2>9, <2>10, StoredIsCopied DEF Afloat
  <2>12. CopyInv'
    BY <1>0, <1>3, <1>4, <1>8, <2>5, <2>9, <2>11, AdvanceKeepsCopies
  <2> QED BY <2>8, <2>12 DEF CopiesInv, BookInv
<1>11. CASE i \notin ListedCopies
  <2>1. backups' = backups
    BY <1>4, <1>11 DEF ClearStoragePath
  <2>2. RowStep /\ StatusKeep
    BY <1>0, <1>9, <2>1, SameRows, RowsStayStatus
  <2>3. RecordInv' /\ DeleteInv' /\ DataInv'
    BY <1>0, <1>3, <1>7, <2>1, <2>2, AdvanceKeepsRest
  <2>4. i \in excused' /\ i \notin Afloat' /\ i \in excused
    BY <1>5, <1>9, <1>11 DEF Afloat
  <2>5. CopyInv'
    BY <1>0, <1>3, <1>4, <1>8, <2>1, <2>4, AdvanceKeepsCopies
  <2> QED BY <2>3, <2>5 DEF CopiesInv, BookInv
<1> QED BY <1>10, <1>11

-----------------------------------------------------------------------------
(* The agent's archive *)

LEMMA FaultCounts ==
    ASSUME copyFaults \in Nat, Fault
    PROVE  copyFaults' \in Nat /\ copyFaults' = copyFaults + 1 /\ copyFaults' >= copyFaults /\ copyFaults' > 0
  BY DEF Fault

LEMMA SentWork ==
    ASSUME RecordInv, work.pc = "sent", Making(work.job)
    PROVE  /\ work # NoWork /\ handlers["worker"] = NoHandler /\ work.job.id \in Ids /\ DOMAIN work = WorkFields
           /\ work.job.tries # 0
<1>1. work # NoWork
  BY NoneShape
<1>2. handlers["worker"] = NoHandler
  BY IdleWorker DEF Making
<1> QED BY <1>1, <1>2, WorkJob DEF RecordInv, CopyShape, WorkShape

LEMMA ArchivedKeepsInv ==
    ASSUME CopiesInv, work.pc = "sent", Making(work.job), NEW up \in BOOLEAN, NEW tree,
           root' = [EnsureDir(root) EXCEPT !.files = @ \cup {[id |-> work.job.id, n |-> work.job.tries, tree |-> tree]}],
           objects' = IF up THEN objects \cup {[at |-> work.job.provider, id |-> work.job.id, n |-> work.job.tries, tree |-> tree]}
                      ELSE objects,
           work' = [work EXCEPT !.pc = "mark", !.n = work.job.tries, !.s3 = up],
           queue' = queue, backups' = backups, aside' = aside, handlers' = handlers, lastId' = lastId,
           cleaning' = cleaning, excused' = excused, overwritten' = overwritten, hollow' = hollow, raced' = raced,
           copyFaults' \in Nat, copyFaults' >= copyFaults
    PROVE  CopiesInv'
<1>0. RecordInv /\ CopyInv /\ CopyShape /\ copyFaults \in Nat
  BY DEF CopiesInv, BookInv, RecordInv, CopyShape
<1>1. /\ work # NoWork /\ handlers["worker"] = NoHandler /\ work.job.id \in Ids /\ DOMAIN work = WorkFields
      /\ work.job.tries # 0
  BY <1>0, SentWork
<1>2. /\ DOMAIN work' = WorkFields /\ work'.job = work.job /\ work'.pc = "mark" /\ work'.n = work.job.tries
      /\ work'.s3 = up
  BY <1>1 DEF WorkFields
<1>n. PICK n : n = work.job.tries
  OBVIOUS
<1>i. PICK i \in Ids : i = work.job.id
  BY <1>1
<1>3. i = work.job.id /\ n = work.job.tries
  BY <1>n, <1>i
<1>4. n # 0
  BY <1>1, <1>3
<1>5. PICK made : made = [id |-> i, n |-> n, tree |-> tree]
  OBVIOUS
<1>6. made.id = i /\ made.n = n
  BY <1>5
<1>7. PICK r, d : r = root /\ d = EnsureDir(r)
  OBVIOUS
<1>8. DOMAIN r = DirFields
  BY <1>0, <1>7 DEF RecordInv, CopyShape, DiskShape
<1>9. DOMAIN d = DirFields /\ d.files = r.files /\ (d.tree = r.tree \/ (r.tree = "absent" /\ d.tree = "skeleton"))
  BY <1>7, <1>8, EnsureDirShape
<1>10. root' = [d EXCEPT !.files = d.files \cup {made}]
  BY <1>3, <1>5, <1>7
<1>11. DOMAIN root' = DirFields /\ root'.files = d.files \cup {made} /\ root'.tree = d.tree
  BY <1>9, <1>10 DEF DirFields
<1>12. DiskShape' /\ FilesStep
  BY <1>0, <1>7, <1>9, <1>11, RootOnly
<1>13. RowStep /\ RowsStay
  BY <1>0, SameRows
<1>14. RecordInv'
  <2>1. QueueStep
    BY DEF QueueStep
  <2>2. WorkStep
    BY <1>1, <1>2 DEF WorkStep
  <2>3. HandlerStep
    BY <1>0, <1>1, HandlersSame
  <2> QED BY <1>0, <1>12, <1>13, <2>1, <2>2, <2>3, StepKeepsRecords
<1>15. CopyInv'
  <2>1. CopyBase
    BY DEF CopyBase
  <2>2. \A k : FilesOf(k)
    BY <1>12 DEF FilesStep, FilesOf
  <2>3. \A k \in Ids \ excused' : StoredRow(k)'
    BY <1>0, <2>1, StoredRowStays
  <2>4. \A k \in Afloat' : CopyRow(k)
    BY DEF CopyRow
  <2>5. \A k \in Afloat' : CopiedRow(k)'
    BY <1>0, <2>1, <2>2, <2>4, CopiedRowStays
  <2>6. Kept(root', aside', i, n)
    <3>1. PICK q, b : q = root' /\ b = aside'
      OBVIOUS
    <3>2. OnDisk(q, b, made)
      BY <1>11, <3>1 DEF OnDisk
    <3>3. Kept(q, b, i, n)
      BY <1>4, <1>6, <3>2, KeptIs
    <3> QED BY <3>1, <3>3
  <2>7. up => Stored(objects', i, n)
    <3>1. PICK o : o = [at |-> work.job.provider, id |-> work.job.id, n |-> work.job.tries, tree |-> tree]
      OBVIOUS
    <3>2. o.id = i /\ o.n = n
      BY <1>3, <3>1
    <3>3. up => o \in objects'
      BY <3>1
    <3> QED BY <1>4, <3>2, <3>3 DEF Stored
  <2> QED BY <1>2, <1>3, <1>4, <2>3, <2>5, <2>6, <2>7, CopyInvRows
<1>16. DeleteInv'
  <2>1. AllJobs' = AllJobs
    BY <1>2 DEF AllJobs
  <2>2. JobsKeep
    BY <2>1 DEF JobsKeep
  <2>3. \A k \in Ids : Doomed(k) => Doomed(k)'
    BY <1>13, DoomStays, RowsStayStatus
  <2>4. DeleteStep
    BY <2>2, <2>3 DEF DeleteStep
  <2> QED BY <1>0, <2>4, DeleteIds, StepKeepsDeletes DEF CopiesInv, BookInv
<1>17. DataInv'
  <2>1. QuietStep
    BY <1>7, <1>9, <1>11 DEF QuietStep
  <2> QED BY <1>0, <2>1, StepKeepsData DEF CopiesInv
<1> QED BY <1>14, <1>15, <1>16, <1>17 DEF CopiesInv, BookInv

LEMMA ArchiveKeepsInv ==
    ASSUME CopiesInv, NEW type \in {"create", "dump"}, NEW tree, ArchiveTask(type, tree)
    PROVE  CopiesInv'
<1>0. RecordInv /\ copyFaults \in Nat /\ work.pc = "sent" /\ Making(work.job)
  BY DEF CopiesInv, BookInv, RecordInv, CopyShape, ArchiveTask, Making
<1>1. /\ aside' = aside /\ handlers' = handlers /\ lastId' = lastId /\ cleaning' = cleaning /\ excused' = excused
      /\ overwritten' = overwritten /\ hollow' = hollow /\ raced' = raced
  BY DEF ArchiveTask
<1>2. copyFaults' \in Nat /\ copyFaults' >= copyFaults
  <2>1. copyFaults' = copyFaults \/ Fault
    BY DEF ArchiveTask
  <2> QED BY <1>0, <2>1, FaultCounts
<1> DEFINE
      Answered(up) ==
        /\ root' = [EnsureDir(root) EXCEPT !.files = @ \cup {[id |-> work.job.id, n |-> work.job.tries, tree |-> tree]}]
        /\ objects' = IF up THEN objects \cup {[at |-> work.job.provider, id |-> work.job.id, n |-> work.job.tries,
                                                tree |-> [id |-> work.job.id, n |-> work.job.tries, tree |-> tree].tree]}
                      ELSE objects
        /\ work' = [work EXCEPT !.pc = "mark", !.n = work.job.tries, !.s3 = up]
        /\ queue' = queue /\ backups' = backups
<1>3. Answered(TRUE) \/ Answered(FALSE) \/ (Fault /\ root' = EnsureDir(root) /\ Refused /\ objects' = objects)
  BY DEF ArchiveTask
<1>4. ASSUME NEW up \in BOOLEAN, Answered(up) PROVE CopiesInv'
  <2>1. [id |-> work.job.id, n |-> work.job.tries, tree |-> tree].tree = tree
    OBVIOUS
  <2>2. objects' = IF up THEN objects \cup {[at |-> work.job.provider, id |-> work.job.id, n |-> work.job.tries, tree |-> tree]}
                   ELSE objects
    BY <1>4, <2>1
  <2> QED BY <1>0, <1>1, <1>2, <1>4, <2>2, ArchivedKeepsInv
<1>5. CASE Fault /\ root' = EnsureDir(root) /\ Refused /\ objects' = objects
  <2>1. TableStep
    BY <1>0, <1>1, <1>5, RefusedStep
  <2>2. HandlerStep
    BY <1>0, <1>1, SentWork, HandlersSame
  <2>3. PICK r : r = root
    OBVIOUS
  <2>4. DOMAIN r = DirFields
    BY <1>0, <2>3 DEF RecordInv, CopyShape, DiskShape
  <2>5. DOMAIN root' = DirFields /\ root'.files = r.files /\ (root'.tree = r.tree \/ (r.tree = "absent" /\ root'.tree = "skeleton"))
    BY <1>5, <2>3, <2>4, EnsureDirShape
  <2>6. DiskShape' /\ FilesStep
    BY <1>0, <1>1, <2>3, <2>5, RootOnly
  <2>7. CommonStep
    BY <1>1, <1>2, <1>5, <2>1, <2>2, <2>6 DEF CommonStep
  <2>8. QuietStep
    BY <1>1, <1>2, <2>3, <2>5 DEF QuietStep
  <2> QED BY <2>7, <2>8, QuietKeepsInv
<1> QED BY <1>3, <1>4, <1>5

-----------------------------------------------------------------------------
(* Deletions and the retention clean-up *)

LEMMA StepsKeepInv ==
    ASSUME CopiesInv, RowStep, QueueStep, WorkStep, HandlerStep, DiskShape', CopyStep, DeleteStep, QuietStep
    PROVE  CopiesInv'
<1>1. RecordInv /\ CopyShape /\ copyFaults \in Nat /\ WorkShape /\ copyFaults' \in Nat
  BY DEF CopiesInv, BookInv, RecordInv, CopyShape, QuietStep
<1>2. RecordInv'
  BY <1>1, StepKeepsRecords
<1>3. CopyInv'
  BY <1>1, StepKeepsCopies DEF CopiesInv, BookInv
<1>4. DeleteInv'
  BY <1>1, DeleteIds, StepKeepsDeletes DEF CopiesInv, BookInv
<1>5. DataInv'
  BY <1>1, StepKeepsData DEF CopiesInv
<1> QED BY <1>2, <1>3, <1>4, <1>5 DEF CopiesInv, BookInv

LEMMA DeleteKeepsInv ==
    ASSUME CopiesInv, NEW i \in Ids, deleteBackup(i)
    PROVE  CopiesInv'
<1>0. RecordInv /\ copyFaults \in Nat
  BY DEF CopiesInv, BookInv, RecordInv, CopyShape
<1>1. /\ aside' = aside /\ queue' = queue /\ work' = work /\ handlers' = handlers /\ cleaning' = cleaning
      /\ copyFaults' = copyFaults /\ overwritten' = overwritten /\ hollow' = hollow /\ lastId' = lastId
      /\ excused' = excused \cup {i} /\ backups' = [backups EXCEPT ![i] = NoBackup]
  BY DEF deleteBackup
<1>2. \A o \in objects : o \in objects' \/ o.id = i
  BY DEF deleteBackup
<1>3. PICK r, n : r = root /\ n = backups[i].path
  OBVIOUS
<1>4. DOMAIN r = DirFields /\ root' = PanelRemove(r, i, n)
  BY <1>0, <1>3 DEF RecordInv, CopyShape, DiskShape, deleteBackup
<1>5. /\ DOMAIN root' = DirFields /\ root'.tree = r.tree
      /\ \A f \in r.files : f \in root'.files \/ (f.id = i /\ f.n = n)
  BY <1>4, PanelRemoveShape
<1>6. DiskShape' /\ FilesStep
  BY <1>0, <1>1, <1>3, <1>5, RootOnly
<1>7. /\ DOMAIN backups' = Ids /\ backups'[i] = NoBackup
      /\ \A k \in Ids : k # i => backups'[k] = backups[k]
  BY <1>0, <1>1, Rewritten
<1>8. RowStep
  BY <1>0, <1>1, <1>7, RowsStep
<1>9. QueueStep /\ WorkStep /\ WorkQuiet
  BY <1>1 DEF QueueStep, WorkStep, WorkQuiet
<1>10. HandlerStep
  BY <1>0, <1>1, HandlersSame
<1>11. CopyStep
  BY <1>1, <1>2, <1>6, <1>7, <1>9 DEF CopyStep, CopyBase, CopyRow
<1>12. DeleteStep
  <2>1. raced' = (raced \/ cleaning # "idle")
    BY DEF deleteBackup, Race
  <2>2. AllJobs' = AllJobs
    BY <1>1 DEF AllJobs
  <2>3. JobsKeep
    BY <2>2 DEF JobsKeep
  <2>4. raced => raced'
    BY <2>1
  <2>5. ~raced' => \A k \in Ids : ~Doomed(k)
    BY <2>1 DEF Doomed
  <2> QED BY <1>7, <2>3, <2>4, <2>5, NoneShape DEF DeleteStep
<1>13. QuietStep
  BY <1>0, <1>1, <1>3, <1>5 DEF QuietStep
<1> QED BY <1>6, <1>8, <1>9, <1>10, <1>11, <1>12, <1>13, StepsKeepInv

LEMMA DeleteTaskKeepsInv ==
    ASSUME CopiesInv, backupDeleteTask
    PROVE  CopiesInv'
<1>0. RecordInv /\ copyFaults \in Nat /\ work.pc = "sent" /\ work.job.type = "delete"
  BY DEF CopiesInv, BookInv, RecordInv, CopyShape, backupDeleteTask
<1>1. /\ aside' = aside /\ queue' = queue /\ work' = NoWork /\ handlers' = handlers /\ cleaning' = cleaning
      /\ copyFaults' = copyFaults /\ overwritten' = overwritten /\ hollow' = hollow /\ lastId' = lastId
      /\ excused' = excused /\ backups' = backups /\ objects' = objects /\ raced' = raced
  BY DEF backupDeleteTask
<1>2. work.job.id \in excused
  BY <1>0 DEF RecordInv, ExcuseInv, AllJobs
<1>3. PICK r : r = root
  OBVIOUS
<1>4. DOMAIN r = DirFields
  BY <1>0, <1>3 DEF RecordInv, CopyShape, DiskShape
<1>5. PICK a : a = Archive(r, work.job.id, work.job.path)
  OBVIOUS
<1>6. \A f \in a : f.id = work.job.id
  BY <1>5 DEF Archive
<1>7. root' = [r EXCEPT !.files = r.files \ a]
  BY <1>3, <1>5 DEF backupDeleteTask
<1>8. DOMAIN root' = DirFields /\ root'.tree = r.tree /\ root'.files = r.files \ a
  BY <1>4, <1>7 DEF DirFields
<1>9. DiskShape' /\ FilesStep
  BY <1>0, <1>1, <1>2, <1>3, <1>6, <1>8, RootOnly
<1>10. RowStep /\ RowsStay
  BY <1>0, <1>1, SameRows
<1>11. QueueStep /\ WorkStep /\ WorkQuiet
  BY <1>1 DEF QueueStep, WorkStep, WorkQuiet
<1>12. JobsKeep
  BY <1>1, NoneShape DEF JobsKeep, AllJobs
<1>13. HandlerStep
  BY <1>0, <1>1, IdleWorker, HandlersSame
<1>14. CommonStep
  BY <1>0, <1>1, <1>9, <1>10, <1>11, <1>12, <1>13 DEF CommonStep, TableStep
<1>15. QuietStep
  BY <1>0, <1>1, <1>3, <1>8 DEF QuietStep
<1> QED BY <1>14, <1>15, QuietKeepsInv

LEMMA ExpireKeepsInv ==
    ASSUME CopiesInv, CleanupExpired
    PROVE  CopiesInv'
<1>0. RecordInv /\ copyFaults \in Nat /\ cleaning = "expired"
  BY DEF CopiesInv, BookInv, RecordInv, CopyShape, CleanupExpired
<1>1. PICK gone : gone = {i \in Ids : backups[i].expires /\ backups[i].old /\ i \notin KeptCopies}
  OBVIOUS
<1>2. /\ root' = root /\ aside' = aside /\ queue' = queue /\ work' = work /\ handlers' = handlers
      /\ copyFaults' = copyFaults /\ overwritten' = overwritten /\ hollow' = hollow /\ lastId' = lastId
      /\ excused' = excused \cup gone /\ objects' = objects /\ raced' = raced
      /\ backups' = [i \in Ids |-> IF i \in gone THEN NoBackup ELSE backups[i]]
  BY <1>1 DEF CleanupExpired, diskVars
<1>3. DiskShape' /\ FilesStep
  BY <1>0, <1>2, SameDisk
<1>4. DOMAIN backups' = Ids /\ \A i \in Ids : backups'[i] = IF i \in gone THEN NoBackup ELSE backups[i]
  BY <1>2
<1>5. RowStep
  <2>1. \A i \in Ids : backups'[i] = backups[i] \/ (backups'[i] = NoBackup /\ i \in excused')
    BY <1>2, <1>4
  <2> QED BY <1>0, <1>2, <1>4, <2>1, RowsStep
<1>6. QueueStep /\ WorkStep /\ WorkQuiet
  BY <1>2 DEF QueueStep, WorkStep, WorkQuiet
<1>7. HandlerStep
  BY <1>0, <1>2, HandlersSame
<1>8. CopyStep
  BY <1>2, <1>3, <1>4, <1>6 DEF CopyStep, CopyBase, CopyRow
<1>9. DeleteStep
  <2>1. AllJobs' = AllJobs
    BY <1>2 DEF AllJobs
  <2>2. JobsKeep
    BY <2>1 DEF JobsKeep
  <2>3. \A i \in Ids : Doomed(i) => backups'[i].status = "none"
    BY <1>1, <1>4, NoneShape DEF Doomed
  <2> QED BY <1>2, <1>4, <2>2, <2>3, NoneShape DEF DeleteStep
<1>10. QuietStep
  BY <1>0, <1>2 DEF QuietStep
<1> QED BY <1>3, <1>5, <1>6, <1>7, <1>8, <1>9, <1>10, StepsKeepInv

LEMMA EnqueueKeepsInv ==
    ASSUME CopiesInv, enqueueLocalBackupDeletes
    PROVE  CopiesInv'
<1>0. RecordInv /\ copyFaults \in Nat /\ cleaning = "idle" /\ CopyShape
  BY DEF CopiesInv, BookInv, RecordInv, CopyShape, enqueueLocalBackupDeletes
<1>1. PICK stamped : stamped = [i \in Ids |->
            IF retention /\ backups[i].status = "completed" /\ backups[i].old
            THEN [backups[i] EXCEPT !.expires = TRUE] ELSE backups[i]]
  OBVIOUS
<1>2. PICK listed : listed = ListExpiredLocal(stamped)
  OBVIOUS
<1>3. /\ root' = root /\ aside' = aside /\ work' = work /\ handlers' = handlers
      /\ copyFaults' = copyFaults /\ overwritten' = overwritten /\ hollow' = hollow /\ lastId' = lastId
      /\ excused' = excused \cup listed /\ objects' = objects /\ raced' = raced
      /\ cleaning' = "expired" /\ backups' = stamped
  BY <1>1, <1>2 DEF enqueueLocalBackupDeletes, diskVars
<1>4. \A j \in queue' : j \in queue \/ \E i \in listed : j = [NoJob EXCEPT !.type = "delete", !.id = i, !.path = backups[i].path]
  BY <1>1, <1>2 DEF enqueueLocalBackupDeletes
<1>5. DOMAIN stamped = Ids
  BY <1>1
<1>6. ASSUME NEW i \in Ids
      PROVE  /\ stamped[i] = backups[i] \/ backups[i].status = "completed"
             /\ DOMAIN stamped[i] = BackupFields /\ stamped[i].status = backups[i].status
             /\ stamped[i].path = backups[i].path /\ stamped[i].s3 = backups[i].s3 /\ stamped[i].old = backups[i].old
             /\ backups[i].expires => stamped[i].expires
  <2>1. PICK row : row = [backups[i] EXCEPT !.expires = TRUE]
    OBVIOUS
  <2>2. DOMAIN backups[i] = BackupFields
    BY <1>0 DEF CopyShape, TableShape
  <2>3. /\ DOMAIN row = BackupFields /\ row.status = backups[i].status /\ row.path = backups[i].path
        /\ row.s3 = backups[i].s3 /\ row.expires = TRUE /\ row.old = backups[i].old
    BY <2>1, <2>2 DEF BackupFields
  <2>4. stamped[i] = IF retention /\ backups[i].status = "completed" /\ backups[i].old THEN row ELSE backups[i]
    BY <1>1, <2>1
  <2>5. CASE stamped[i] = row /\ backups[i].status = "completed"
    BY <2>3, <2>5
  <2>6. CASE stamped[i] = backups[i]
    BY <2>2, <2>6
  <2> QED BY <2>4, <2>5, <2>6
<1>7. DiskShape' /\ FilesStep
  BY <1>0, <1>3, SameDisk
<1>8. RowsStay
  BY <1>3, <1>6 DEF RowsStay
<1>9. RowStep
  <2>1. \A i \in Ids : \/ backups'[i] = backups[i]
                       \/ /\ DOMAIN backups'[i] = BackupFields /\ backups[i].status # "none"
                          /\ backups'[i].status = backups[i].status
    BY <1>3, <1>6
  <2> QED BY <1>0, <1>3, <1>5, <2>1, RowsStep
<1>10. \A i \in listed : i \in Ids /\ i <= lastId
  <2>1. \A i \in listed : i \in Ids /\ backups[i].path # 0
    BY <1>2, <1>6 DEF ListExpiredLocal
  <2>2. lastId \in Nat /\ \A i \in Ids : i \in Nat
    BY <1>0, CopiesAssumption DEF CopyShape, TableShape
  <2>3. \A i \in listed : ~(i > lastId)
    BY <1>0, <2>1, NoneShape DEF RecordInv, FreshInv
  <2> QED BY <2>1, <2>2, <2>3
<1>11. \A j \in queue' : j \in queue \/ (Job(j) /\ j.type = "delete" /\ j.id \in listed)
  <2> SUFFICES ASSUME NEW j \in queue', j \notin queue
               PROVE  Job(j) /\ j.type = "delete" /\ j.id \in listed
    OBVIOUS
  <2>1. PICK i \in listed : j = [NoJob EXCEPT !.type = "delete", !.id = i, !.path = backups[i].path]
    BY <1>4
  <2>2. DOMAIN j = JobFields /\ j.type = "delete" /\ j.id = i /\ j.tries = 0
    BY <2>1 DEF NoJob, JobFields
  <2> QED BY <1>10, <2>2 DEF Job, GivenOut, JobTypes
<1>12. QueueStep
  BY <1>3, <1>11 DEF QueueStep
<1>13. WorkStep /\ WorkQuiet
  BY <1>3 DEF WorkStep, WorkQuiet
<1>14. HandlerStep
  BY <1>0, <1>3, HandlersSame
<1>15. RecordInv'
  BY <1>0, <1>3, <1>7, <1>9, <1>12, <1>13, <1>14, StepKeepsRecords
<1>16. CopyInv'
  <2>1. CopyStep
    BY <1>3, <1>6, <1>7, <1>13 DEF CopyStep, CopyBase, CopyRow
  <2> QED BY <1>0, <2>1, StepKeepsCopies DEF CopiesInv, BookInv, CopyShape
<1>17. DeleteInv'
  <2> SUFFICES ASSUME ~raced', NEW j \in queue' \cup {work'.job}, j.type = "delete"
               PROVE  backups'[j.id].status = "none" \/ Doomed(j.id)'
    BY DEF DeleteInv, AllJobs
  <2>1. KeptCopies' = KeptCopies
    <3>1. PICK D, E : D = {i \in Ids : backups[i].status = "completed"} /\ E = {i \in Ids : backups'[i].status = "completed"}
      OBVIOUS
    <3>2. D = E
      BY <1>3, <1>6, <3>1
    <3> QED BY <3>1, <3>2 DEF KeptCopies
  <2>2. CASE j \in AllJobs
    <3>1. backups[j.id].status = "none" /\ j.id \in Ids
      BY <1>0, <1>3, <2>2, DeleteIds DEF CopiesInv, BookInv, DeleteInv, Doomed
    <3> QED BY <1>3, <1>6, <3>1
  <2>3. CASE j.id \in listed
    <3>1. PICK i \in listed : i = j.id
      BY <2>3
    <3>2. stamped[i].expires /\ stamped[i].old /\ i \notin KeptCopies
      BY <1>2 DEF ListExpiredLocal
    <3>3. Doomed(i)'
      BY <1>3, <2>1, <3>2 DEF Doomed
    <3> QED BY <3>1, <3>3
  <2> QED BY <1>3, <1>11, <2>2, <2>3 DEF AllJobs
<1>18. DataInv'
  <2>1. QuietStep
    BY <1>0, <1>3 DEF QuietStep
  <2> QED BY <1>0, <2>1, StepKeepsData DEF CopiesInv
<1> QED BY <1>15, <1>16, <1>17, <1>18 DEF CopiesInv, BookInv

LEMMA LocalKeepsInv ==
    ASSUME CopiesInv, CleanupLocalAfterS3
    PROVE  CopiesInv'
<1>0. RecordInv /\ CopyInv /\ copyFaults \in Nat /\ cleaning = "local" /\ CopyShape
  BY DEF CopiesInv, BookInv, RecordInv, CopyShape, CleanupLocalAfterS3
<1>1. PICK up : up = {i \in Ids : /\ backups[i].status = "completed" /\ backups[i].s3 # 0
                                  /\ backups[i].path # 0 /\ PanelRemoves(i, backups[i].path)}
  OBVIOUS
<1>2. /\ aside' = aside /\ queue' = queue /\ work' = work /\ handlers' = handlers /\ objects' = objects
      /\ copyFaults' = copyFaults /\ overwritten' = overwritten /\ hollow' = hollow /\ lastId' = lastId
      /\ excused' = excused /\ raced' = raced
      /\ backups' = [i \in Ids |-> IF i \in up THEN [backups[i] EXCEPT !.path = 0] ELSE backups[i]]
      /\ root' = [root EXCEPT !.files = {f \in @ : ~(f.id \in up /\ f.n = backups[f.id].path)}]
  BY <1>1 DEF CleanupLocalAfterS3
<1>3. PICK r, left : r = root /\ left = {f \in r.files : ~(f.id \in up /\ f.n = backups[f.id].path)}
  OBVIOUS
<1>4. DOMAIN r = DirFields /\ root' = [r EXCEPT !.files = left]
  BY <1>0, <1>2, <1>3 DEF CopyShape, DiskShape
<1>5. DOMAIN root' = DirFields /\ root'.tree = root.tree /\ root'.files = left
  BY <1>3, <1>4 DEF DirFields
<1>6. \A f \in root.files : f \in root'.files \/ f.id \in up
  BY <1>3, <1>5
<1>7. \A k \in Ids \ up : FilesOf(k)
  BY <1>2, <1>6 DEF FilesOf, OnDisk
<1>8. DiskShape'
  BY <1>0, <1>2, <1>5 DEF CopyShape, DiskShape
<1>9. \A i \in up : i \in Ids /\ backups[i].status = "completed" /\ backups[i].s3 # 0
  BY <1>1
<1>10. ASSUME NEW i \in Ids
       PROVE  /\ i \notin up => backups'[i] = backups[i]
              /\ DOMAIN backups'[i] = BackupFields /\ backups'[i].status = backups[i].status
              /\ backups'[i].s3 = backups[i].s3
              /\ backups'[i].expires = backups[i].expires /\ backups'[i].old = backups[i].old
  <2>1. PICK row : row = [backups[i] EXCEPT !.path = 0]
    OBVIOUS
  <2>2. DOMAIN backups[i] = BackupFields
    BY <1>0 DEF CopyShape, TableShape
  <2>3. /\ DOMAIN row = BackupFields /\ row.status = backups[i].status
        /\ row.s3 = backups[i].s3 /\ row.expires = backups[i].expires /\ row.old = backups[i].old
    BY <2>1, <2>2 DEF BackupFields
  <2>4. backups'[i] = IF i \in up THEN row ELSE backups[i]
    BY <1>2, <2>1
  <2> QED BY <2>2, <2>3, <2>4
<1>11. RowStep
  <2>1. DOMAIN backups' = Ids
    BY <1>2
  <2>2. \A i \in Ids : \/ backups'[i] = backups[i]
                       \/ /\ DOMAIN backups'[i] = BackupFields /\ backups[i].status # "none"
                          /\ backups'[i].status = backups[i].status
    BY <1>9, <1>10
  <2> QED BY <1>0, <1>2, <2>1, <2>2, RowsStep
<1>12. QueueStep /\ WorkStep
  BY <1>2 DEF QueueStep, WorkStep
<1>13. HandlerStep
  BY <1>0, <1>2, HandlersSame
<1>14. RecordInv'
  BY <1>0, <1>2, <1>8, <1>11, <1>12, <1>13, StepKeepsRecords
<1>15. CopyInv'
  <2>1. CopyBase
    BY <1>2 DEF CopyBase
  <2>2. \A k \in Ids \ excused' : StoredRow(k)'
    BY <1>0, <1>10, <2>1, StoredRowStays
  <2>3. \A k \in Afloat' : CopiedRow(k)'
    <3> SUFFICES ASSUME NEW k \in Afloat'
                 PROVE  CopiedRow(k)'
      OBVIOUS
    <3>1. k \in Ids \ excused'
      BY DEF Afloat
    <3>2. CASE k \in up
      BY <1>9, <1>10, <2>2, <3>1, <3>2, StoredIsCopied
    <3>3. CASE k \notin up
      <4>1. CopyRow(k) /\ FilesOf(k)
        BY <1>7, <1>10, <3>1, <3>3 DEF CopyRow
      <4> QED BY <1>0, <2>1, <4>1, CopiedRowStays
    <3> QED BY <3>2, <3>3
  <2>4. work.pc = "mark" /\ work.job.id \in Afloat' => Kept(root', aside', work.job.id, work.n)
    <3> SUFFICES ASSUME work.pc = "mark", work.job.id \in Afloat'
                 PROVE  Kept(root', aside', work.job.id, work.n)
      OBVIOUS
    <3>n. PICK n : n = work.n
      OBVIOUS
    <3>i. PICK i \in Ids : i = work.job.id
      BY <1>0, LateWork
    <3>1. i = work.job.id /\ n = work.n
      BY <3>n, <3>i
    <3>2. i \in Afloat /\ i \notin excused' \cup overwritten'
      BY <1>2, <3>1 DEF Afloat
    <3>3. Kept(root, aside, i, n)
      BY <1>0, <3>1, <3>2 DEF CopyInv
    <3>4. i \notin up
      BY <1>0, <1>9, <3>1, LateWork DEF RecordInv, MakerInv
    <3>5. Kept(root', aside', i, n)
      BY <1>7, <3>2, <3>3, <3>4, KeptStays
    <3> QED BY <3>1, <3>5
  <2>5. work.pc \in {"remove", "clear"} /\ work.job.id \notin excused => backups'[work.job.id].s3 = work.n
    BY <1>0, <1>10, LateWork DEF CopyInv
  <2>6. work.pc \in {"mark", "s3"} /\ work.s3 /\ work.job.id \notin excused => Stored(objects, work.job.id, work.n)
    BY <1>0 DEF CopyInv
  <2>7. (work.pc \in {"mark", "s3", "remove", "clear", "oldest"} => work.n # 0) /\ (work.pc = "s3" => work.s3)
    BY <1>0 DEF CopyInv
  <2> QED BY <1>2, <2>2, <2>3, <2>4, <2>5, <2>6, <2>7, CopyInvRows
<1>16. DeleteInv'
  <2>1. AllJobs' = AllJobs
    BY <1>2 DEF AllJobs
  <2>2. JobsKeep
    BY <2>1 DEF JobsKeep
  <2>3. \A k \in Ids : ~Doomed(k)
    BY <1>0 DEF Doomed
  <2>4. DeleteStep
    BY <1>2, <1>10, <2>2, <2>3 DEF DeleteStep
  <2> QED BY <1>0, <2>4, DeleteIds, StepKeepsDeletes DEF CopiesInv, BookInv
<1>17. DataInv'
  <2>1. QuietStep
    BY <1>0, <1>2, <1>5 DEF QuietStep
  <2> QED BY <1>0, <2>1, StepKeepsData DEF CopiesInv
<1> QED BY <1>14, <1>15, <1>16, <1>17 DEF CopiesInv, BookInv

\* What DeleteOldest removes is downward closed.
LEMMA OlderGoesToo ==
    ASSUME NEW i \in ListedCopies, NEW j \in ListedCopies, j > i,
           Cardinality({k \in ListedCopies : k > j}) >= KeepOldest
    PROVE  Cardinality({k \in ListedCopies : k > i}) >= KeepOldest
<1>1. PICK L, S, T : L = ListedCopies /\ S = {k \in L : k > i} /\ T = {k \in L : k > j}
  OBVIOUS
<1>2. IsFiniteSet(Ids) /\ L \in SUBSET Ids /\ Ids \subseteq Nat
  BY <1>1, CopiesAssumption DEF ListedCopies
<1>3. IsFiniteSet(L)
  BY <1>2, FS_Subset
<1>4. S \in SUBSET L
  BY <1>1
<1>5. IsFiniteSet(S)
  BY <1>3, <1>4, FS_Subset
<1>6. i \in Nat /\ j \in Nat /\ \A k \in L : k \in Nat
  BY <1>1, <1>2
<1>7. T \in SUBSET S
  BY <1>1, <1>6
<1>8. IsFiniteSet(T) /\ Cardinality(T) <= Cardinality(S)
  BY <1>5, <1>7, FS_Subset
<1>9. Cardinality(S) \in Nat /\ Cardinality(T) \in Nat
  BY <1>5, <1>8, FS_CardinalityType
<1>10. Cardinality(T) >= KeepOldest
  BY <1>1
<1>11. KeepOldest \in Nat
  BY CopiesAssumption
<1>12. Cardinality(S) >= KeepOldest
  BY <1>8, <1>9, <1>10, <1>11
<1> QED BY <1>1, <1>12

LEMMA OldestKeepsInv ==
    ASSUME CopiesInv, DeleteOldest
    PROVE  CopiesInv'
<1>0. RecordInv /\ copyFaults \in Nat /\ work.pc = "oldest" /\ CopyShape
  BY DEF CopiesInv, BookInv, RecordInv, CopyShape, DeleteOldest
<1>1. PICK surplus : surplus = {i \in ListedCopies : Cardinality({j \in ListedCopies : j > i}) >= KeepOldest}
  OBVIOUS
<1>2. PICK gone : gone = (IF work.job.provider # "none" /\ ~work.s3 THEN {} ELSE surplus)
  OBVIOUS
<1>3. /\ aside' = aside /\ queue' = queue /\ work' = NoWork /\ handlers' = handlers /\ cleaning' = cleaning
      /\ copyFaults' = copyFaults /\ overwritten' = overwritten /\ hollow' = hollow /\ lastId' = lastId
      /\ excused' = excused \cup gone /\ raced' = raced
      /\ backups' = [i \in Ids |-> IF i \in gone THEN NoBackup ELSE backups[i]]
      /\ \A o \in objects : o \in objects' \/ o.id \in gone
  BY <1>1, <1>2 DEF DeleteOldest
<1>4. root' = IF remote THEN root
                   ELSE [root EXCEPT !.files = {f \in @ : ~(f.id \in gone /\ f.n = backups[f.id].path)}]
  BY <1>1, <1>2 DEF DeleteOldest
<1>5. /\ DOMAIN root' = DirFields /\ root'.tree = root.tree
      /\ \A f \in root.files : f \in root'.files \/ f.id \in gone
  <2>1. PICK r, left : r = root /\ left = {f \in r.files : ~(f.id \in gone /\ f.n = backups[f.id].path)}
    OBVIOUS
  <2>2. DOMAIN r = DirFields
    BY <1>0, <2>1 DEF CopyShape, DiskShape
  <2>3. CASE root' = r
    BY <2>1, <2>2, <2>3
  <2>4. CASE root' = [r EXCEPT !.files = left]
    <3>1. DOMAIN root' = DirFields /\ root'.tree = r.tree /\ root'.files = left
      BY <2>2, <2>4 DEF DirFields
    <3> QED BY <2>1, <3>1
  <2> QED BY <1>4, <2>1, <2>3, <2>4
<1>6. DiskShape' /\ FilesStep
  BY <1>0, <1>3, <1>5, RootOnly
<1>7. DOMAIN backups' = Ids /\ \A i \in Ids : backups'[i] = IF i \in gone THEN NoBackup ELSE backups[i]
  BY <1>3
<1>8. RowStep
  <2>1. \A i \in Ids : backups'[i] = backups[i] \/ (backups'[i] = NoBackup /\ i \in excused')
    BY <1>3, <1>7
  <2> QED BY <1>0, <1>3, <1>7, <2>1, RowsStep
<1>9. QueueStep /\ WorkStep /\ WorkQuiet
  BY <1>3 DEF QueueStep, WorkStep, WorkQuiet
<1>10. HandlerStep
  BY <1>0, <1>3, LateWork, HandlersSame
<1>11. CopyStep
  BY <1>3, <1>6, <1>7, <1>9 DEF CopyStep, CopyBase, CopyRow
<1>12. \A i, j \in ListedCopies : j > i /\ j \in gone => i \in gone
  <2>1. \A i, j \in ListedCopies : j > i /\ j \in surplus => i \in surplus
    <3> SUFFICES ASSUME NEW i \in ListedCopies, NEW j \in ListedCopies, j > i, j \in surplus
                 PROVE  i \in surplus
      OBVIOUS
    <3>1. Cardinality({k \in ListedCopies : k > j}) >= KeepOldest
      BY <1>1
    <3>2. Cardinality({k \in ListedCopies : k > i}) >= KeepOldest
      BY <3>1, OlderGoesToo
    <3> QED BY <1>1, <3>2
  <2> QED BY <1>2, <2>1
<1>13. \A i \in Ids : Doomed(i) => Doomed(i)' \/ backups'[i].status = "none"
  <2> SUFFICES ASSUME NEW i \in Ids, Doomed(i), i \notin gone
               PROVE  Doomed(i)'
    BY <1>7, NoneShape
  <2>1. backups'[i] = backups[i]
    BY <1>7
  <2>2. i \notin KeptCopies'
    <3> SUFFICES ASSUME i \in KeptCopies'
                 PROVE  FALSE
      OBVIOUS
    <3>1. PICK D, E : D = {k \in Ids : backups[k].status = "completed"} /\ E = {k \in Ids : backups'[k].status = "completed"}
      OBVIOUS
    <3>2. i \in E /\ Cardinality({j \in E : j > i}) < KeepLast
      BY <3>1 DEF KeptCopies
    <3>3. i \in D
      BY <2>1, <3>1, <3>2
    <3>4. \A k \in D : k \in ListedCopies
      BY <3>1 DEF ListedCopies
    <3>5. \A k \in Ids : k > i => (k \in E <=> k \in D)
      <4> SUFFICES ASSUME NEW k \in Ids, k > i
                   PROVE  k \in E <=> k \in D
        OBVIOUS
      <4>1. k \in D => k \notin gone
        BY <1>12, <3>3, <3>4
      <4>2. k \in E => k \notin gone
        BY <1>7, <3>1, NoneShape
      <4> QED BY <1>7, <3>1, <4>1, <4>2
    <3>6. {j \in E : j > i} = {j \in D : j > i}
      BY <3>1, <3>5
    <3>7. Cardinality({j \in D : j > i}) < KeepLast
      BY <3>2, <3>6
    <3>8. i \in KeptCopies
      BY <3>1, <3>3, <3>7 DEF KeptCopies
    <3> QED BY <3>8 DEF Doomed
  <2> QED BY <1>3, <2>1, <2>2 DEF Doomed
<1>14. DeleteStep
  <2>1. JobsKeep
    BY <1>3, NoneShape DEF JobsKeep, AllJobs
  <2> QED BY <1>3, <1>7, <1>13, <2>1, NoneShape DEF DeleteStep
<1>15. QuietStep
  BY <1>0, <1>3, <1>5 DEF QuietStep
<1> QED BY <1>6, <1>8, <1>9, <1>10, <1>11, <1>14, <1>15, StepsKeepInv

-----------------------------------------------------------------------------
(* The restore *)

LEMMA ActiveHandler ==
    ASSUME RecordInv, NEW s \in Slots, handlers[s].pc # "none"
    PROVE  /\ handlers[s] # NoHandler /\ handlers[s].id \in Ids /\ DOMAIN handlers[s] = HandlerFields
           /\ s = "worker" => work.pc = "sent"
<1>1. handlers[s] # NoHandler
  BY NoneShape
<1> QED BY <1>1 DEF RecordInv, CopyShape, HandlerShape, GivenOut, RestorerInv

\* The handler goes on.
LEMMA MovesOn ==
    ASSUME RecordInv, NEW s \in Slots, handlers[s].pc # "none",
           NEW h, DOMAIN h = HandlerFields, h.id = handlers[s].id, handlers' = [handlers EXCEPT ![s] = h],
           Same, lastId' = lastId, excused' = excused
    PROVE  TableStep /\ HandlerStep /\ handlers'[s] = h /\ \A t \in Slots \ {s} : handlers'[t] = handlers[t]
<1>1. handlers[s] # NoHandler /\ handlers[s].id \in Ids
  BY ActiveHandler
<1>2. DOMAIN handlers = Slots /\ \A t \in Slots : DOMAIN handlers[t] = HandlerFields
  BY DEF RecordInv, CopyShape, HandlerShape
<1>3. DOMAIN handlers' = Slots /\ handlers'[s] = h /\ \A t \in Slots \ {s} : handlers'[t] = handlers[t]
  BY <1>2
<1>4. TableStep
  BY SameStep
<1>5. HandlerStep
  BY <1>1, <1>2, <1>3 DEF HandlerStep, Same
<1> QED BY <1>3, <1>4, <1>5

LEMMA GoesOn ==
    ASSUME RecordInv, NEW s \in Slots, handlers[s].pc # "none", NEW pc, Goes(s, pc),
           Same, lastId' = lastId, excused' = excused
    PROVE  /\ TableStep /\ HandlerStep /\ \A t \in Slots \ {s} : handlers'[t] = handlers[t]
           /\ handlers'[s].pc = pc /\ handlers'[s].id = handlers[s].id
           /\ handlers'[s].old = handlers[s].old /\ handlers'[s].tree = handlers[s].tree
<1>1. DOMAIN handlers[s] = HandlerFields
  BY ActiveHandler
<1>2. PICK h : h = [handlers[s] EXCEPT !.pc = pc]
  OBVIOUS
<1>3. /\ DOMAIN h = HandlerFields /\ h.pc = pc /\ h.id = handlers[s].id /\ h.old = handlers[s].old
      /\ h.tree = handlers[s].tree
  BY <1>1, <1>2 DEF HandlerFields
<1>4. handlers' = [handlers EXCEPT ![s] = h]
  BY <1>2 DEF Goes
<1>5. TableStep /\ HandlerStep /\ handlers'[s] = h /\ \A t \in Slots \ {s} : handlers'[t] = handlers[t]
  BY <1>3, <1>4, MovesOn
<1> QED BY <1>3, <1>5

\* The handler ends with an error.
LEMMA GivesUp ==
    ASSUME RecordInv, NEW s \in Slots, handlers[s].pc # "none", Fails(s), lastId' = lastId, excused' = excused
    PROVE  TableStep /\ HandlerStep /\ handlers'[s] = NoHandler /\ \A t \in Slots \ {s} : handlers'[t] = handlers[t]
<1>1. handlers[s] # NoHandler /\ (s = "worker" => work.pc = "sent")
  BY ActiveHandler
<1>2. DOMAIN handlers = Slots /\ \A t \in Slots : DOMAIN handlers[t] = HandlerFields
  BY DEF RecordInv, CopyShape, HandlerShape
<1>3. DOMAIN handlers' = Slots /\ handlers'[s] = NoHandler /\ \A t \in Slots \ {s} : handlers'[t] = handlers[t]
  BY <1>2 DEF Fails
<1>4. TableStep
  <2>1. CASE s = "worker"
    BY <1>1, <2>1, RefusedStep DEF Fails
  <2>2. CASE s # "worker"
    BY <2>2, SameStep DEF Fails
  <2> QED BY <2>1, <2>2
<1>5. HandlerStep
  <2>1. handlers'["worker"] # NoHandler => s # "worker" /\ handlers'["worker"] = handlers["worker"]
    BY <1>3 DEF Slots
  <2>2. s # "worker" => work' = work
    BY DEF Fails, Same
  <2> QED BY <1>2, <1>3, <2>1, <2>2 DEF HandlerStep
<1> QED BY <1>3, <1>4, <1>5

LEMMA CalmStep ==
    ASSUME NEW s \in Slots, handlers[s].pc \in CalmPcs, handlers[s].pc # "none",
           \A t \in Slots \ {s} : handlers'[t] = handlers[t],
           handlers'[s].pc \in CalmPcs, handlers'[s].pc = "discard" /\ ~hollow' => handlers'[s].tree = "whole"
    PROVE  CalmHandlers
  BY NoneShape DEF CalmHandlers, Slots

LEMMA FetchKeepsInv ==
    ASSUME CopiesInv, NEW s \in Slots, RestoreFetch(s)
    PROVE  CopiesInv'
<1>0. RecordInv /\ copyFaults \in Nat /\ handlers[s].pc = "fetch" /\ handlers[s].pc # "none"
  BY DEF CopiesInv, BookInv, RecordInv, CopyShape, RestoreFetch
<1>1. /\ aside' = aside /\ objects' = objects /\ cleaning' = cleaning /\ excused' = excused /\ raced' = raced
      /\ overwritten' = overwritten /\ hollow' = hollow /\ lastId' = lastId
  BY DEF RestoreFetch
<1>2. copyFaults' \in Nat /\ copyFaults' >= copyFaults
  <2>1. copyFaults' = copyFaults \/ Fault
    BY DEF RestoreFetch
  <2> QED BY <1>0, <2>1, FaultCounts
<1>3. Fails(s) \/ (Goes(s, "extract") /\ Same)
  BY DEF RestoreFetch
<1>4. /\ TableStep /\ HandlerStep /\ \A t \in Slots \ {s} : handlers'[t] = handlers[t]
      /\ handlers'[s].pc \in {"none", "extract"}
  <2>1. CASE Fails(s)
    BY <1>0, <1>1, <2>1, GivesUp, NoneShape
  <2>2. CASE Goes(s, "extract") /\ Same
    BY <1>0, <1>1, <2>2, GoesOn
  <2> QED BY <1>3, <2>1, <2>2
<1>5. /\ DOMAIN root' = DirFields
      /\ \A f \in root.files : f.n # 0 => f \in root'.files
      /\ root'.tree = root.tree \/ (root.tree = "absent" /\ root'.tree = "skeleton")
  <2>1. PICK r, d : r = root /\ d = EnsureDir(r)
    OBVIOUS
  <2>2. DOMAIN r = DirFields
    BY <1>0, <2>1 DEF RecordInv, CopyShape, DiskShape
  <2>3. DOMAIN d = DirFields /\ d.files = r.files /\ (d.tree = r.tree \/ (r.tree = "absent" /\ d.tree = "skeleton"))
    BY <2>1, <2>2, EnsureDirShape
  <2>4. \/ root' = r \/ root' = d
        \/ \E more : root' = [d EXCEPT !.files = (d.files \ Archive(r, handlers[s].id, 0)) \cup more]
    BY <2>1 DEF RestoreFetch
  <2>5. CASE root' = r
    BY <2>1, <2>2, <2>5
  <2>6. CASE root' = d
    BY <2>1, <2>3, <2>6
  <2>7. ASSUME NEW more, root' = [d EXCEPT !.files = (d.files \ Archive(r, handlers[s].id, 0)) \cup more]
        PROVE  /\ DOMAIN root' = DirFields
               /\ \A f \in root.files : f.n # 0 => f \in root'.files
               /\ root'.tree = root.tree \/ (root.tree = "absent" /\ root'.tree = "skeleton")
    <3>1. PICK a : a = Archive(r, handlers[s].id, 0)
      OBVIOUS
    <3>2. \A f \in a : f.n = 0
      BY <3>1 DEF Archive
    <3>3. DOMAIN root' = DirFields /\ root'.tree = d.tree /\ root'.files = (d.files \ a) \cup more
      BY <2>3, <2>7, <3>1 DEF DirFields
    <3> QED BY <2>1, <2>3, <3>2, <3>3
  <2> QED BY <2>4, <2>5, <2>6, <2>7
<1>6. DiskShape' /\ FilesStep
  BY <1>0, <1>1, <1>5, RootOnly
<1>7. CommonStep
  BY <1>1, <1>2, <1>4, <1>6 DEF CommonStep
<1>8. CalmHandlers
  BY <1>0, <1>4, CalmStep DEF CalmPcs
<1>9. QuietStep
  BY <1>1, <1>2, <1>5, <1>8 DEF QuietStep
<1> QED BY <1>7, <1>9, QuietKeepsInv

LEMMA ExtractKeepsInv ==
    ASSUME CopiesInv, NEW s \in Slots, RestoreExtract(s)
    PROVE  CopiesInv'
<1>0. RecordInv /\ copyFaults \in Nat /\ handlers[s].pc = "extract" /\ handlers[s].pc # "none"
  BY DEF CopiesInv, BookInv, RecordInv, CopyShape, RestoreExtract
<1>1. /\ root' = root /\ aside' = aside /\ objects' = objects /\ cleaning' = cleaning /\ excused' = excused
      /\ raced' = raced /\ overwritten' = overwritten /\ lastId' = lastId
  BY DEF RestoreExtract, diskVars
<1>2. copyFaults' \in Nat /\ copyFaults' >= copyFaults
  <2>1. copyFaults' = copyFaults \/ Fault
    BY DEF RestoreExtract
  <2> QED BY <1>0, <2>1, FaultCounts
<1>3. \/ Fails(s) /\ hollow' = hollow
      \/ \E tree : /\ hollow' = (hollow \/ tree # "whole") /\ Same
                   /\ handlers' = [handlers EXCEPT ![s].pc = "discard", ![s].tree = tree]
  BY DEF RestoreExtract
<1>4. /\ TableStep /\ HandlerStep /\ \A t \in Slots \ {s} : handlers'[t] = handlers[t]
      /\ handlers'[s].pc \in {"none", "discard"} /\ (hollow => hollow')
      /\ handlers'[s].pc = "discard" /\ ~hollow' => handlers'[s].tree = "whole"
  <2>1. CASE Fails(s) /\ hollow' = hollow
    BY <1>0, <1>1, <2>1, GivesUp, NoneShape
  <2>2. ASSUME NEW tree, hollow' = (hollow \/ tree # "whole"), Same,
               handlers' = [handlers EXCEPT ![s].pc = "discard", ![s].tree = tree]
        PROVE  /\ TableStep /\ HandlerStep /\ \A t \in Slots \ {s} : handlers'[t] = handlers[t]
               /\ handlers'[s].pc \in {"none", "discard"} /\ (hollow => hollow')
               /\ handlers'[s].pc = "discard" /\ ~hollow' => handlers'[s].tree = "whole"
    <3>1. DOMAIN handlers[s] = HandlerFields
      BY <1>0, ActiveHandler
    <3>2. PICK h : h = [handlers[s] EXCEPT !.pc = "discard", !.tree = tree]
      OBVIOUS
    <3>3. DOMAIN h = HandlerFields /\ h.pc = "discard" /\ h.id = handlers[s].id /\ h.tree = tree
      BY <3>1, <3>2 DEF HandlerFields
    <3>4. handlers' = [handlers EXCEPT ![s] = h]
      BY <1>0, <2>2, <3>2 DEF RecordInv, CopyShape, HandlerShape
    <3>5. TableStep /\ HandlerStep /\ handlers'[s] = h /\ \A t \in Slots \ {s} : handlers'[t] = handlers[t]
      BY <1>0, <1>1, <2>2, <3>3, <3>4, MovesOn
    <3> QED BY <2>2, <3>3, <3>5
  <2> QED BY <1>3, <2>1, <2>2
<1>5. DiskShape' /\ FilesStep
  BY <1>0, <1>1, SameDisk
<1>6. CommonStep
  BY <1>1, <1>2, <1>4, <1>5 DEF CommonStep
<1>7. CalmHandlers
  BY <1>0, <1>4, CalmStep DEF CalmPcs
<1>8. QuietStep
  BY <1>1, <1>2, <1>4, <1>7 DEF QuietStep
<1> QED BY <1>6, <1>8, QuietKeepsInv

\* A directory put aside is written.
LEMMA AsideChange ==
    ASSUME RecordInv, NEW i \in Ids, NEW d, DOMAIN d = DirFields, aside' = [aside EXCEPT ![i] = d], DOMAIN root' = DirFields,
           \A f : f \in root.files \/ f \in aside[i].files =>
                f \in root'.files \/ f \in d.files \/ f.id \in excused' \cup overwritten'
    PROVE  DiskShape' /\ FilesStep /\ aside'[i] = d /\ \A k \in Ids \ {i} : aside'[k] = aside[k]
<1>1. DOMAIN aside = Ids /\ \A k \in Ids : DOMAIN aside[k] = DirFields
  BY DEF RecordInv, CopyShape, DiskShape
<1>2. DOMAIN aside' = Ids /\ aside'[i] = d /\ \A k \in Ids \ {i} : aside'[k] = aside[k]
  BY <1>1
<1>3. DiskShape'
  BY <1>1, <1>2 DEF DiskShape
<1>4. FilesStep
  <2> SUFFICES ASSUME NEW f, OnDisk(root, aside, f)
               PROVE  OnDisk(root', aside', f) \/ f.id \in excused' \cup overwritten'
    BY DEF FilesStep
  <2>1. CASE f \in root.files \/ f \in aside[i].files
    BY <1>2, <2>1 DEF OnDisk
  <2>2. ASSUME NEW k \in Ids \ {i}, f \in aside[k].files
        PROVE  OnDisk(root', aside', f)
    BY <1>2, <2>2 DEF OnDisk
  <2> QED BY <2>1, <2>2 DEF OnDisk
<1> QED BY <1>2, <1>3, <1>4

\* The data of the site, at the parts of DataInv
LEMMA DataParts ==
    ASSUME CopiesInv, ~hollow
    PROVE  /\ WholeTrees /\ copyFaults \in Nat
           /\ copyFaults = 0 => FirstFault
           /\ copyFaults <= 1 => HasData /\ RollbackSafe /\ FinishSafe
           /\ "worker" \in Slots /\ "stray" \in Slots /\ \A s \in Slots : s = "worker" \/ s = "stray"
  BY DEF CopiesInv, DataInv, BookInv, RecordInv, CopyShape, Slots

LEMMA DiscardKeepsInv ==
    ASSUME CopiesInv, NEW s \in Slots, RestoreDiscard(s)
    PROVE  CopiesInv'
<1>0. RecordInv /\ copyFaults \in Nat /\ handlers[s].pc = "discard" /\ handlers[s].pc # "none"
  BY DEF CopiesInv, BookInv, RecordInv, CopyShape, RestoreDiscard
<1>1. /\ root' = root /\ objects' = objects /\ cleaning' = cleaning /\ excused' = excused /\ raced' = raced
      /\ hollow' = hollow /\ lastId' = lastId /\ copyFaults' = copyFaults /\ Same
  BY DEF RestoreDiscard
<1>2. PICK i \in Ids : i = handlers[s].id
  BY <1>0, ActiveHandler
<1>3. DOMAIN handlers[s] = HandlerFields /\ DOMAIN root = DirFields /\ DOMAIN handlers = Slots
  BY <1>0, ActiveHandler DEF RecordInv, CopyShape, DiskShape, HandlerShape
<1>4. CASE root.tree = "absent"
  <2>1. aside' = aside /\ overwritten' = overwritten
    BY <1>4 DEF RestoreDiscard
  <2>2. PICK h : h = [handlers[s] EXCEPT !.pc = "install", !.old = FALSE]
    OBVIOUS
  <2>3. DOMAIN h = HandlerFields /\ h.pc = "install" /\ h.id = handlers[s].id /\ h.tree = handlers[s].tree
    BY <1>3, <2>2 DEF HandlerFields
  <2>4. handlers' = [handlers EXCEPT ![s] = h]
    BY <1>3, <1>4, <2>2 DEF RestoreDiscard
  <2>5. TableStep /\ HandlerStep /\ handlers'[s] = h /\ \A t \in Slots \ {s} : handlers'[t] = handlers[t]
    BY <1>0, <1>1, <2>3, <2>4, MovesOn
  <2>6. DiskShape' /\ FilesStep
    BY <1>0, <1>1, <2>1, SameDisk
  <2>7. CommonStep
    BY <1>0, <1>1, <2>1, <2>5, <2>6 DEF CommonStep
  <2>8. DataInv'
    <3> SUFFICES ASSUME ~hollow
                 PROVE  /\ WholeTrees' /\ (copyFaults = 0 => FirstFault')
                        /\ copyFaults <= 1 => HasData' /\ RollbackSafe' /\ FinishSafe'
      BY <1>1 DEF DataInv
    <3>1. WholeTrees'
      BY <1>0, <2>3, <2>5, DataParts DEF WholeTrees
    <3>2. copyFaults # 0
      BY <1>0, <1>4, DataParts, NoneShape DEF FirstFault
    <3>3. HasData' /\ FinishSafe'
      BY <2>3, <2>5 DEF HasData, Carries, FinishSafe
    <3>4. copyFaults <= 1 => RollbackSafe'
      BY <1>0, <2>1, <2>3, <2>5, DataParts, NoneShape DEF RollbackSafe
    <3> QED BY <3>1, <3>2, <3>3, <3>4
  <2> QED BY <2>7, <2>8, CommonKeepsBooks DEF CopiesInv
<1>5. CASE root.tree # "absent"
  <2>1. aside' = [aside EXCEPT ![i] = NoDir] /\ Overwrites(aside[i])
    BY <1>2, <1>5 DEF RestoreDiscard
  <2>2. PICK h : h = [handlers[s] EXCEPT !.pc = "stage", !.old = TRUE]
    OBVIOUS
  <2>3. DOMAIN h = HandlerFields /\ h.pc = "stage" /\ h.id = handlers[s].id /\ h.tree = handlers[s].tree /\ h.old = TRUE
    BY <1>3, <2>2 DEF HandlerFields
  <2>4. handlers' = [handlers EXCEPT ![s] = h]
    BY <1>3, <1>5, <2>2 DEF RestoreDiscard
  <2>5. TableStep /\ HandlerStep /\ handlers'[s] = h /\ \A t \in Slots \ {s} : handlers'[t] = handlers[t]
    BY <1>0, <1>1, <2>3, <2>4, MovesOn
  <2>6. (\A f \in aside[i].files : f.id \in overwritten') /\ \A k \in overwritten : k \in overwritten'
    BY <2>1 DEF Overwrites
  <2>7. DiskShape' /\ FilesStep /\ aside'[i] = NoDir /\ \A k \in Ids \ {i} : aside'[k] = aside[k]
    BY <1>0, <1>1, <1>3, <2>1, <2>6, NoneShape, AsideChange
  <2>8. CommonStep
    BY <1>0, <1>1, <2>5, <2>6, <2>7 DEF CommonStep
  <2>9. DataInv'
    <3> SUFFICES ASSUME ~hollow
                 PROVE  /\ WholeTrees' /\ (copyFaults = 0 => FirstFault')
                        /\ copyFaults <= 1 => HasData' /\ RollbackSafe' /\ FinishSafe'
      BY <1>1 DEF DataInv
    <3>1. WholeTrees'
      BY <1>0, <2>3, <2>5, DataParts DEF WholeTrees
    <3>2. copyFaults = 0 => FirstFault'
      <4> SUFFICES ASSUME copyFaults = 0
                   PROVE  FirstFault'
        OBVIOUS
      <4>1. FirstFault /\ s = "worker"
        BY <1>0, DataParts, NoneShape DEF FirstFault
      <4>2. handlers'["stray"] = NoHandler /\ handlers'["worker"] = h
        BY <2>5, <4>1, DataParts DEF FirstFault
      <4>3. root.tree = "whole"
        BY <1>0, <4>1 DEF FirstFault
      <4> QED BY <1>1, <2>3, <4>2, <4>3 DEF FirstFault
    <3>3. HasData'
      BY <1>1, <1>5, <2>3, <2>5 DEF HasData, Carries
    <3>4. copyFaults <= 1 => RollbackSafe'
      BY <1>0, <2>3, <2>5, DataParts, NoneShape DEF RollbackSafe
    <3>5. copyFaults <= 1 => FinishSafe'
      BY <1>0, <1>1, <2>3, <2>5, DataParts DEF FinishSafe
    <3> QED BY <3>1, <3>2, <3>3, <3>4, <3>5
  <2> QED BY <2>8, <2>9, CommonKeepsBooks DEF CopiesInv
<1> QED BY <1>4, <1>5

\* A step with the first fault leaves a whole site where FirstFault saw it.
LEMMA FirstFaultAt ==
    ASSUME CopiesInv, ~hollow, Fault, copyFaults' <= 1
    PROVE  FirstFault /\ copyFaults = 0
<1>1. copyFaults \in Nat
  BY DataParts
<1>2. copyFaults = 0
  BY <1>1, FaultCounts
<1> QED BY <1>2, DataParts

LEMMA StageKeepsInv ==
    ASSUME CopiesInv, NEW s \in Slots, RestoreStage(s)
    PROVE  CopiesInv'
<1>0. RecordInv /\ copyFaults \in Nat /\ handlers[s].pc = "stage" /\ handlers[s].pc # "none"
  BY DEF CopiesInv, BookInv, RecordInv, CopyShape, RestoreStage
<1>1. /\ objects' = objects /\ cleaning' = cleaning /\ excused' = excused /\ raced' = raced
      /\ hollow' = hollow /\ lastId' = lastId
  BY DEF RestoreStage
<1>2. PICK i \in Ids : i = handlers[s].id
  BY <1>0, ActiveHandler
<1>3. PICK r, a : r = root /\ a = aside[i]
  OBVIOUS
<1>4. DOMAIN r = DirFields /\ DOMAIN a = DirFields /\ DOMAIN aside = Ids
  BY <1>0, <1>3 DEF RecordInv, CopyShape, DiskShape
<1>5. PICK m : m = movePath(r, a)
  OBVIOUS
<1>6. DOMAIN m = DirFields /\ m.files = a.files \cup r.files /\ m.tree = IF a.tree = "whole" THEN "whole" ELSE r.tree
  BY <1>5, MovePathShape
<1>7. PICK p : p = [a EXCEPT !.tree = IF a.tree = "whole" THEN "whole" ELSE "part"]
  OBVIOUS
<1>8. DOMAIN p = DirFields /\ p.files = a.files
  BY <1>4, <1>7 DEF DirFields
<1>9. CASE /\ root.tree # "absent" /\ aside' = [aside EXCEPT ![i] = m] /\ root' = NoDir
           /\ Goes(s, "install") /\ Same /\ copyFaults' = copyFaults /\ overwritten' = overwritten
  <2>1. /\ TableStep /\ HandlerStep /\ \A t \in Slots \ {s} : handlers'[t] = handlers[t]
        /\ handlers'[s].pc = "install" /\ handlers'[s].id = handlers[s].id
        /\ handlers'[s].old = handlers[s].old /\ handlers'[s].tree = handlers[s].tree
    BY <1>0, <1>1, <1>9, GoesOn
  <2>2. DiskShape' /\ FilesStep /\ aside'[i] = m /\ \A k \in Ids \ {i} : aside'[k] = aside[k]
    BY <1>0, <1>3, <1>6, <1>9, NoneShape, AsideChange
  <2>3. CommonStep
    BY <1>0, <1>1, <1>9, <2>1, <2>2 DEF CommonStep
  <2>4. DataInv'
    <3> SUFFICES ASSUME ~hollow
                 PROVE  /\ WholeTrees' /\ (copyFaults = 0 => FirstFault')
                        /\ copyFaults <= 1 => HasData' /\ RollbackSafe' /\ FinishSafe'
      BY <1>1, <1>9 DEF DataInv
    <3>1. WholeTrees'
      BY <1>0, <2>1, DataParts DEF WholeTrees
    <3>2. copyFaults = 0 => FirstFault'
      <4> SUFFICES ASSUME copyFaults = 0
                   PROVE  FirstFault'
        OBVIOUS
      <4>1. FirstFault /\ s = "worker"
        BY <1>0, DataParts, NoneShape DEF FirstFault
      <4>2. handlers'["stray"] = NoHandler
        BY <2>1, <4>1, DataParts DEF FirstFault
      <4>3. r.tree = "whole" /\ handlers["worker"].old
        BY <1>0, <1>3, <4>1 DEF FirstFault
      <4>4. aside'[i].tree = "whole"
        BY <1>6, <2>2, <4>3
      <4> QED BY <1>2, <2>1, <4>1, <4>2, <4>3, <4>4 DEF FirstFault
    <3>3. HasData' /\ FinishSafe'
      BY <2>1 DEF HasData, Carries, FinishSafe
    <3>4. copyFaults <= 1 => RollbackSafe'
      BY <1>0, <2>1, DataParts, NoneShape DEF RollbackSafe
    <3> QED BY <3>1, <3>2, <3>3, <3>4
  <2> QED BY <2>3, <2>4, CommonKeepsBooks DEF CopiesInv
<1>10. CASE /\ root.tree # "absent" /\ Fault /\ Fails(s) /\ Overwrites(root)
            /\ \/ aside' = [aside EXCEPT ![i] = p] /\ root' = root
               \/ aside' = [aside EXCEPT ![i] = m] /\ root' = [tree |-> "part", files |-> {}]
  <2>1. TableStep /\ HandlerStep /\ handlers'[s] = NoHandler /\ \A t \in Slots \ {s} : handlers'[t] = handlers[t]
    BY <1>0, <1>1, <1>10, GivesUp
  <2>2. (\A f \in root.files : f.id \in overwritten') /\ \A k \in overwritten : k \in overwritten'
    BY <1>10 DEF Overwrites
  <2>3. DOMAIN root' = DirFields /\ (root' = root \/ root'.files = {})
    BY <1>3, <1>4, <1>10 DEF DirFields
  <2>4. /\ DiskShape' /\ FilesStep /\ \A k \in Ids \ {i} : aside'[k] = aside[k]
        /\ (aside'[i] = p /\ root' = root) \/ aside'[i] = m
    <3>1. CASE aside' = [aside EXCEPT ![i] = p] /\ root' = root
      BY <1>0, <1>3, <1>8, <2>3, <3>1, AsideChange
    <3>2. CASE aside' = [aside EXCEPT ![i] = m]
      BY <1>0, <1>3, <1>6, <2>2, <2>3, <3>2, AsideChange
    <3> QED BY <1>10, <3>1, <3>2
  <2>5. copyFaults' \in Nat /\ copyFaults' > 0
    BY <1>0, <1>10, FaultCounts
  <2>6. CommonStep
    BY <1>1, <2>1, <2>2, <2>4, <2>5 DEF CommonStep
  <2>7. DataInv'
    <3> SUFFICES ASSUME ~hollow
                 PROVE  WholeTrees' /\ (copyFaults' <= 1 => HasData' /\ RollbackSafe' /\ FinishSafe')
      BY <1>1, <2>5 DEF DataInv
    <3>1. WholeTrees'
      BY <2>1, DataParts, NoneShape DEF WholeTrees
    <3>2. ASSUME copyFaults' <= 1 PROVE HasData' /\ RollbackSafe' /\ FinishSafe'
      <4>1. FirstFault
        BY <1>10, <3>2, FirstFaultAt
      <4>2. s = "worker" /\ root.tree = "whole"
        BY <1>0, <4>1, DataParts, NoneShape DEF FirstFault
      <4>3. \A t \in Slots : handlers'[t] = NoHandler
        BY <2>1, <4>1, <4>2, DataParts DEF FirstFault
      <4>4. root'.tree = "whole" \/ aside'[i].tree = "whole"
        BY <1>3, <1>6, <2>4, <4>2
      <4> QED BY <4>3, <4>4, DataParts, NoneShape DEF HasData, RollbackSafe, FinishSafe
    <3> QED BY <3>1, <3>2
  <2> QED BY <2>6, <2>7, CommonKeepsBooks DEF CopiesInv
<1>11. CASE /\ root.tree = "absent" /\ Fails(s) /\ root' = root /\ aside' = aside /\ copyFaults' = copyFaults
            /\ overwritten' = overwritten
  <2>1. TableStep /\ HandlerStep /\ handlers'[s] = NoHandler /\ \A t \in Slots \ {s} : handlers'[t] = handlers[t]
    BY <1>0, <1>1, <1>11, GivesUp
  <2>2. DiskShape' /\ FilesStep
    BY <1>0, <1>11, SameDisk
  <2>3. CommonStep
    BY <1>0, <1>1, <1>11, <2>1, <2>2 DEF CommonStep
  <2>4. DataInv'
    <3> SUFFICES ASSUME ~hollow
                 PROVE  /\ WholeTrees' /\ (copyFaults = 0 => FirstFault')
                        /\ copyFaults <= 1 => HasData' /\ RollbackSafe' /\ FinishSafe'
      BY <1>1, <1>11 DEF DataInv
    <3>1. WholeTrees'
      BY <2>1, DataParts, NoneShape DEF WholeTrees
    <3>2. copyFaults # 0
      BY <1>0, <1>11, DataParts, NoneShape DEF FirstFault
    <3>3. copyFaults <= 1 => HasData'
      <4> SUFFICES ASSUME HasData
                   PROVE  HasData'
        BY DataParts
      <4>1. (\E k \in Ids : aside[k].tree = "whole") \/ \E t \in Slots : handlers[t].pc = "install"
        BY <1>11 DEF HasData, Carries
      <4> QED BY <1>0, <1>11, <2>1, <4>1 DEF HasData, Carries
    <3>4. copyFaults <= 1 => RollbackSafe'
      BY <1>0, <2>1, DataParts, NoneShape DEF RollbackSafe
    <3>5. copyFaults <= 1 => FinishSafe'
      BY <1>0, <1>11, <2>1, DataParts, NoneShape DEF FinishSafe
    <3> QED BY <3>1, <3>2, <3>3, <3>4, <3>5
  <2> QED BY <2>3, <2>4, CommonKeepsBooks DEF CopiesInv
<1>12. p = [a EXCEPT !.tree = IF @ = "whole" THEN "whole" ELSE "part"]
  BY <1>4, <1>7
<1>13. [aside EXCEPT ![i].tree = IF @ = "whole" THEN "whole" ELSE "part"] = [aside EXCEPT ![i] = p]
  BY <1>3, <1>12
<1>14. [aside EXCEPT ![i] = movePath(root, @)] = [aside EXCEPT ![i] = m]
  BY <1>3, <1>5
<1> QED BY <1>2, <1>9, <1>10, <1>11, <1>13, <1>14 DEF RestoreStage

LEMMA InstallKeepsInv ==
    ASSUME CopiesInv, NEW s \in Slots, RestoreInstall(s)
    PROVE  CopiesInv'
<1>0. RecordInv /\ copyFaults \in Nat /\ handlers[s].pc = "install" /\ handlers[s].pc # "none"
  BY DEF CopiesInv, BookInv, RecordInv, CopyShape, RestoreInstall
<1>1. /\ aside' = aside /\ objects' = objects /\ cleaning' = cleaning /\ excused' = excused /\ raced' = raced
      /\ overwritten' = overwritten /\ hollow' = hollow /\ lastId' = lastId /\ Same
  BY DEF RestoreInstall
<1>2. handlers[s].id \in Ids
  BY <1>0, ActiveHandler
<1>3. PICK r : r = root
  OBVIOUS
<1>4. DOMAIN r = DirFields
  BY <1>0, <1>3 DEF RecordInv, CopyShape, DiskShape
<1>5. CASE /\ root' = movePath([tree |-> handlers[s].tree, files |-> {}], r)
           /\ Goes(s, "finish") /\ copyFaults' = copyFaults
  <2>1. /\ TableStep /\ HandlerStep /\ \A t \in Slots \ {s} : handlers'[t] = handlers[t]
        /\ handlers'[s].pc = "finish"
    BY <1>0, <1>1, <1>5, GoesOn
  <2>2. PICK x : x = [tree |-> handlers[s].tree, files |-> {}]
    OBVIOUS
  <2>3. x.tree = handlers[s].tree /\ x.files = {}
    BY <2>2
  <2>4. DOMAIN root' = DirFields /\ root'.files = r.files \cup x.files /\ root'.tree = IF r.tree = "whole" THEN "whole" ELSE x.tree
    BY <1>5, <2>2, MovePathShape
  <2>5. DiskShape' /\ FilesStep
    BY <1>0, <1>1, <1>3, <2>4, RootOnly
  <2>6. CommonStep
    BY <1>0, <1>1, <1>5, <2>1, <2>5 DEF CommonStep
  <2>7. DataInv'
    <3> SUFFICES ASSUME ~hollow
                 PROVE  /\ WholeTrees' /\ (copyFaults = 0 => FirstFault')
                        /\ copyFaults <= 1 => HasData' /\ RollbackSafe' /\ FinishSafe'
      BY <1>1, <1>5 DEF DataInv
    <3>1. WholeTrees'
      BY <2>1, DataParts DEF WholeTrees
    <3>2. root'.tree = "whole"
      BY <1>0, <2>3, <2>4, DataParts DEF WholeTrees
    <3>3. copyFaults = 0 => FirstFault'
      BY <1>0, <2>1, <3>2, DataParts, NoneShape DEF FirstFault
    <3>4. HasData' /\ FinishSafe'
      BY <3>2 DEF HasData, FinishSafe
    <3>5. copyFaults <= 1 => RollbackSafe'
      BY <1>0, <2>1, DataParts, NoneShape DEF RollbackSafe
    <3> QED BY <3>1, <3>3, <3>4, <3>5
  <2> QED BY <2>6, <2>7, CommonKeepsBooks DEF CopiesInv
<1>6. CASE /\ Fault /\ root' = [r EXCEPT !.tree = IF @ = "whole" THEN "whole" ELSE "part"]
           /\ Goes(s, "rollback")
  <2>1. /\ TableStep /\ HandlerStep /\ \A t \in Slots \ {s} : handlers'[t] = handlers[t]
        /\ handlers'[s].pc = "rollback" /\ handlers'[s].id = handlers[s].id /\ handlers'[s].old = handlers[s].old
    BY <1>0, <1>1, <1>6, GoesOn
  <2>2. DOMAIN root' = DirFields /\ root'.files = r.files
    BY <1>4, <1>6 DEF DirFields
  <2>3. DiskShape' /\ FilesStep
    BY <1>0, <1>1, <1>3, <2>2, RootOnly
  <2>4. copyFaults' \in Nat /\ copyFaults' > 0
    BY <1>0, <1>6, FaultCounts
  <2>5. CommonStep
    BY <1>1, <2>1, <2>3, <2>4 DEF CommonStep
  <2>6. DataInv'
    <3> SUFFICES ASSUME ~hollow
                 PROVE  WholeTrees' /\ (copyFaults' <= 1 => HasData' /\ RollbackSafe' /\ FinishSafe')
      BY <1>1, <2>4 DEF DataInv
    <3>1. WholeTrees'
      BY <2>1, DataParts DEF WholeTrees
    <3>2. ASSUME copyFaults' <= 1 PROVE HasData' /\ RollbackSafe' /\ FinishSafe'
      <4>1. FirstFault
        BY <1>6, <3>2, FirstFaultAt
      <4>2. s = "worker" /\ handlers["worker"].old /\ aside[handlers["worker"].id].tree = "whole"
        BY <1>0, <4>1, DataParts, NoneShape DEF FirstFault
      <4>3. handlers'["stray"] = NoHandler
        BY <2>1, <4>1, <4>2, DataParts DEF FirstFault
      <4>4. HasData'
        BY <1>1, <1>2, <4>2 DEF HasData
      <4>5. RollbackSafe'
        BY <1>1, <2>1, <4>2, <4>3, NoneShape DEF RollbackSafe
      <4>6. FinishSafe'
        BY <2>1, <4>2, <4>3, DataParts, NoneShape DEF FinishSafe
      <4> QED BY <4>4, <4>5, <4>6
    <3> QED BY <3>1, <3>2
  <2> QED BY <2>5, <2>6, CommonKeepsBooks DEF CopiesInv
<1> QED BY <1>3, <1>5, <1>6 DEF RestoreInstall

LEMMA RollbackKeepsInv ==
    ASSUME CopiesInv, NEW s \in Slots, RestoreRollback(s)
    PROVE  CopiesInv'
<1>0. RecordInv /\ copyFaults \in Nat /\ handlers[s].pc = "rollback" /\ handlers[s].pc # "none"
  BY DEF CopiesInv, BookInv, RecordInv, CopyShape, RestoreRollback
<1>1. /\ objects' = objects /\ cleaning' = cleaning /\ excused' = excused /\ raced' = raced
      /\ hollow' = hollow /\ lastId' = lastId /\ Fails(s)
  BY DEF RestoreRollback
<1>2. PICK i \in Ids : i = handlers[s].id
  BY <1>0, ActiveHandler
<1>3. DOMAIN aside[i] = DirFields /\ DOMAIN root = DirFields
  BY <1>0 DEF RecordInv, CopyShape, DiskShape
<1>4. TableStep /\ HandlerStep /\ handlers'[s] = NoHandler /\ \A t \in Slots \ {s} : handlers'[t] = handlers[t]
  BY <1>0, <1>1, GivesUp
<1>5. handlers[s].old => (\A f \in root.files : f.id \in overwritten') /\ \A k \in overwritten : k \in overwritten'
  BY DEF RestoreRollback, Overwrites
<1>6. ~handlers[s].old => root' = root /\ aside' = aside /\ copyFaults' = copyFaults /\ overwritten' = overwritten
  BY DEF RestoreRollback
<1>7. \A k \in overwritten : k \in overwritten'
  BY <1>5, <1>6
<1>8. WholeTrees => WholeTrees'
  BY <1>4, NoneShape DEF WholeTrees
<1>9. ~hollow => copyFaults # 0
  BY <1>0, DataParts, NoneShape DEF FirstFault
<1>10. ~hollow /\ copyFaults <= 1 =>
         /\ s = "worker" /\ handlers[s].old /\ aside[i].tree = "whole"
         /\ \A t \in Slots : handlers'[t] = NoHandler
  BY <1>0, <1>2, <1>4, DataParts DEF RollbackSafe
<1>11. copyFaults' \in Nat /\ copyFaults' >= copyFaults
  <2>1. copyFaults' = copyFaults \/ Fault
    BY DEF RestoreRollback
  <2> QED BY <1>0, <2>1, FaultCounts
<1>12. /\ DiskShape' /\ FilesStep
       /\ ~hollow /\ copyFaults' <= 1 => root'.tree = "whole"
  <2>1. CASE handlers[s].old /\ root' = aside[i] /\ aside' = [aside EXCEPT ![i] = NoDir]
    <3>1. DiskShape' /\ FilesStep
      BY <1>0, <1>3, <1>5, <2>1, NoneShape, AsideChange
    <3> QED BY <1>0, <1>10, <1>11, <2>1, <3>1
  <2>2. CASE handlers[s].old /\ Fault /\ root' = [tree |-> "part", files |-> {}] /\ aside' = aside
    <3>1. DOMAIN root' = DirFields
      BY <2>2 DEF DirFields
    <3>2. DiskShape' /\ FilesStep
      BY <1>0, <1>5, <2>2, <3>1, RootOnly
    <3>3. ~(~hollow /\ copyFaults' <= 1)
      BY <1>9, <2>2, FirstFaultAt
    <3> QED BY <3>2, <3>3
  <2>3. CASE ~handlers[s].old
    <3>1. DiskShape' /\ FilesStep
      BY <1>0, <1>6, <2>3, SameDisk
    <3> QED BY <1>6, <1>10, <2>3, <3>1
  <2> QED BY <1>2, <2>1, <2>2, <2>3 DEF RestoreRollback
<1>13. CommonStep
  BY <1>1, <1>4, <1>7, <1>11, <1>12 DEF CommonStep
<1>14. DataInv'
  <2> SUFFICES ASSUME ~hollow
               PROVE  /\ WholeTrees' /\ (copyFaults' = 0 => FirstFault')
                      /\ copyFaults' <= 1 => HasData' /\ RollbackSafe' /\ FinishSafe'
    BY <1>1 DEF DataInv
  <2>1. WholeTrees'
    BY <1>8, DataParts
  <2>2. copyFaults' # 0
    BY <1>0, <1>9, <1>11
  <2>3. ASSUME copyFaults' <= 1 PROVE HasData' /\ RollbackSafe' /\ FinishSafe'
    <3>1. root'.tree = "whole" /\ \A t \in Slots : handlers'[t] = NoHandler
      BY <1>0, <1>10, <1>11, <1>12, <2>3
    <3> QED BY <3>1, DataParts, NoneShape DEF HasData, RollbackSafe, FinishSafe
  <2> QED BY <2>1, <2>2, <2>3
<1> QED BY <1>13, <1>14, CommonKeepsBooks DEF CopiesInv

LEMMA FinishKeepsInv ==
    ASSUME CopiesInv, NEW s \in Slots, RestoreFinish(s)
    PROVE  CopiesInv'
<1>0. RecordInv /\ copyFaults \in Nat /\ handlers[s].pc = "finish" /\ handlers[s].pc # "none"
  BY DEF CopiesInv, BookInv, RecordInv, CopyShape, RestoreFinish
<1>1. /\ root' = root /\ objects' = objects /\ cleaning' = cleaning /\ excused' = excused /\ raced' = raced
      /\ queue' = queue /\ hollow' = hollow /\ lastId' = lastId /\ copyFaults' = copyFaults
      /\ handlers' = [handlers EXCEPT ![s] = NoHandler]
  BY DEF RestoreFinish
<1>2. PICK i \in Ids : i = handlers[s].id
  BY <1>0, ActiveHandler
<1>3. /\ DOMAIN aside[i] = DirFields /\ DOMAIN root = DirFields /\ DOMAIN handlers = Slots
      /\ \A t \in Slots : DOMAIN handlers[t] = HandlerFields
  BY <1>0 DEF RecordInv, CopyShape, DiskShape, HandlerShape
<1>4. DOMAIN handlers' = Slots /\ handlers'[s] = NoHandler /\ \A t \in Slots \ {s} : handlers'[t] = handlers[t]
  BY <1>1, <1>3
<1>5. RowStep /\ RowsStay
  <2>1. CASE s = "worker" /\ i \in ListedCopies
    <3>1. backups[i].status = "completed"
      BY <1>0, <1>2, <2>1, NoneShape DEF RecordInv, RestorerInv, AtRest, ListedCopies
    <3>2. DOMAIN backups[i] = BackupFields
      BY <1>0 DEF RecordInv, CopyShape, TableShape
    <3>3. PICK row : row = [backups[i] EXCEPT !.status = "completed"]
      OBVIOUS
    <3>4. /\ DOMAIN row = BackupFields /\ row.status = "completed" /\ row.path = backups[i].path
          /\ row.s3 = backups[i].s3 /\ row.expires = backups[i].expires /\ row.old = backups[i].old
      BY <3>2, <3>3 DEF BackupFields
    <3>5. backups' = [backups EXCEPT ![i] = row]
      BY <1>2, <2>1, <3>3 DEF RestoreFinish
    <3>6. /\ DOMAIN backups' = Ids /\ backups'[i] = row
          /\ \A k \in Ids : k # i => backups'[k] = backups[k]
      BY <1>0, <3>5, Rewritten
    <3>7. RowStep
      BY <1>0, <1>1, <3>1, <3>4, <3>6, RowsStep
    <3>8. RowsStay
      BY <3>1, <3>4, <3>6 DEF RowsStay
    <3> QED BY <3>7, <3>8
  <2>2. CASE ~(s = "worker" /\ i \in ListedCopies)
    <3>1. backups' = backups
      BY <1>2, <2>2 DEF RestoreFinish
    <3> QED BY <1>0, <1>1, <3>1, SameRows
  <2> QED BY <2>1, <2>2
<1>6. (s = "worker" /\ work' = NoWork) \/ (s # "worker" /\ work' = work)
  BY DEF RestoreFinish
<1>7. TableStep
  <2>2. QueueStep /\ WorkStep /\ WorkQuiet
    BY <1>1, <1>6 DEF QueueStep, WorkStep, WorkQuiet
  <2>3. JobsKeep
    BY <1>1, <1>6, NoneShape DEF JobsKeep, AllJobs
  <2> QED BY <1>5, <2>2, <2>3 DEF TableStep
<1>8. HandlerStep
  BY <1>3, <1>4, <1>6 DEF HandlerStep, Slots
<1>9. /\ DiskShape' /\ FilesStep /\ \A k \in overwritten : k \in overwritten'
  <2>1. CASE handlers[s].old
    <3>1. aside' = [aside EXCEPT ![i] = NoDir] /\ Overwrites(aside[i])
      BY <1>2, <2>1 DEF RestoreFinish
    <3>2. (\A f \in aside[i].files : f.id \in overwritten') /\ \A k \in overwritten : k \in overwritten'
      BY <3>1 DEF Overwrites
    <3> QED BY <1>0, <1>1, <1>3, <3>1, <3>2, NoneShape, AsideChange
  <2>2. CASE ~handlers[s].old
    <3>1. aside' = aside /\ overwritten' = overwritten
      BY <2>2 DEF RestoreFinish
    <3> QED BY <1>0, <1>1, <3>1, SameDisk
  <2> QED BY <2>1, <2>2
<1>10. CommonStep
  BY <1>0, <1>1, <1>7, <1>8, <1>9 DEF CommonStep
<1>11. DataInv'
  <2> SUFFICES ASSUME ~hollow
               PROVE  /\ WholeTrees' /\ (copyFaults = 0 => FirstFault')
                      /\ copyFaults <= 1 => HasData' /\ RollbackSafe' /\ FinishSafe'
    BY <1>1 DEF DataInv
  <2>1. WholeTrees'
    BY <1>4, DataParts, NoneShape DEF WholeTrees
  <2>2. copyFaults = 0 => FirstFault'
    <3> SUFFICES ASSUME copyFaults = 0
                 PROVE  FirstFault'
      OBVIOUS
    <3>1. FirstFault /\ s = "worker"
      BY <1>0, DataParts, NoneShape DEF FirstFault
    <3>2. root.tree = "whole" /\ handlers'["stray"] = NoHandler /\ handlers'["worker"] = NoHandler
      BY <1>0, <1>4, <3>1, DataParts DEF FirstFault
    <3> QED BY <1>1, <3>2, NoneShape DEF FirstFault
  <2>3. copyFaults <= 1 => HasData'
    BY <1>0, <1>1, <1>4, DataParts DEF FinishSafe, HasData, Carries
  <2>4. copyFaults <= 1 => RollbackSafe'
    BY <1>0, <1>4, DataParts, NoneShape DEF RollbackSafe
  <2>5. copyFaults <= 1 => FinishSafe'
    BY <1>0, <1>1, <1>4, DataParts, NoneShape DEF FinishSafe
  <2> QED BY <2>1, <2>2, <2>3, <2>4, <2>5
<1> QED BY <1>10, <1>11, CommonKeepsBooks DEF CopiesInv

-----------------------------------------------------------------------------
(* Crashes *)

\* The stray handler is the worker's that went on.
LEMMA StrayKeepsData ==
    ASSUME CopiesInv, Fault, handlers["stray"] = NoHandler, root' = root, aside' = aside, hollow' = hollow,
           handlers' = [handlers EXCEPT !["worker"] = NoHandler, !["stray"] = handlers["worker"]]
    PROVE  /\ DataInv' /\ DOMAIN handlers' = Slots
           /\ handlers'["worker"] = NoHandler /\ handlers'["stray"] = handlers["worker"]
<1>1. DOMAIN handlers = Slots /\ copyFaults \in Nat
  BY DEF CopiesInv, BookInv, RecordInv, CopyShape, HandlerShape
<1>2. DOMAIN handlers' = Slots /\ handlers'["worker"] = NoHandler /\ handlers'["stray"] = handlers["worker"]
  BY <1>1 DEF Slots
<1>3. copyFaults' \in Nat /\ copyFaults' > 0
  BY <1>1, FaultCounts
<1>4. DataInv'
  <2> SUFFICES ASSUME ~hollow
               PROVE  WholeTrees' /\ (copyFaults' <= 1 => HasData' /\ RollbackSafe' /\ FinishSafe')
    BY <1>3 DEF DataInv
  <2>1. WholeTrees'
    BY <1>2, DataParts, NoneShape DEF WholeTrees
  <2>2. ASSUME copyFaults' <= 1 PROVE HasData' /\ RollbackSafe' /\ FinishSafe'
    <3>1. FirstFault
      BY <2>2, FirstFaultAt
    <3>2. HasData'
      BY <1>2, <3>1, DataParts DEF FirstFault, HasData, Carries
    <3>3. RollbackSafe'
      BY <1>2, <3>1, NoneShape DEF FirstFault, RollbackSafe
    <3>4. FinishSafe'
      BY <1>2, <3>1, DataParts, NoneShape DEF FirstFault, FinishSafe
    <3> QED BY <3>2, <3>3, <3>4
  <2> QED BY <2>1, <2>2
<1> QED BY <1>2, <1>4

LEMMA StrayStep ==
    ASSUME RecordInv, DOMAIN handlers' = Slots, handlers'["worker"] = NoHandler,
           handlers'["stray"] = handlers["worker"]
    PROVE  HandlerStep
  BY DEF HandlerStep, RecordInv, CopyShape, HandlerShape, Slots

LEMMA BackendCrashKeepsInv ==
    ASSUME CopiesInv, BackendCrash
    PROVE  CopiesInv'
<1>0. RecordInv /\ copyFaults \in Nat /\ copyFaults' \in Nat
  BY FaultCounts DEF CopiesInv, BookInv, RecordInv, CopyShape, BackendCrash
<1>1. /\ root' = root /\ aside' = aside /\ objects' = objects /\ excused' = excused /\ overwritten' = overwritten
      /\ queue' = queue /\ backups' = backups /\ hollow' = hollow /\ lastId' = lastId /\ work' = NoWork
  BY DEF BackendCrash, diskVars
<1>2. /\ DataInv' /\ DOMAIN handlers' = Slots
      /\ handlers'["worker"] = NoHandler /\ handlers'["stray"] = handlers["worker"]
  BY <1>1, StrayKeepsData DEF BackendCrash
<1>3. HandlerStep
  BY <1>0, <1>2, StrayStep
<1>4. RowStep /\ RowsStay
  BY <1>0, <1>1, SameRows
<1>5. QueueStep /\ WorkStep /\ WorkQuiet
  BY <1>1 DEF QueueStep, WorkStep, WorkQuiet
<1>6. DiskShape' /\ FilesStep
  BY <1>0, <1>1, SameDisk
<1>7. RecordInv'
  BY <1>0, <1>3, <1>4, <1>5, <1>6, StepKeepsRecords
<1>8. CopyInv'
  <2>1. CopyStep
    BY <1>1, <1>5, <1>6 DEF CopyStep, CopyBase, CopyRow
  <2> QED BY <1>0, <2>1, StepKeepsCopies DEF CopiesInv, BookInv, RecordInv, CopyShape
<1>9. DeleteInv'
  <2>1. raced' = (raced \/ cleaning # "idle")
    BY DEF BackendCrash, Race
  <2>2. JobsKeep
    BY <1>1, NoneShape DEF JobsKeep, AllJobs
  <2>3. raced => raced'
    BY <2>1
  <2>4. ~raced' => \A k \in Ids : ~Doomed(k)
    BY <2>1 DEF Doomed
  <2>5. DeleteStep
    BY <1>1, <2>2, <2>3, <2>4 DEF DeleteStep
  <2> QED BY <1>0, <2>5, DeleteIds, StepKeepsDeletes DEF CopiesInv, BookInv
<1> QED BY <1>2, <1>7, <1>8, <1>9 DEF CopiesInv, BookInv

LEMMA TimeoutKeepsInv ==
    ASSUME CopiesInv, ClientTimeout
    PROVE  CopiesInv'
<1>0. RecordInv /\ copyFaults \in Nat /\ copyFaults' \in Nat
  BY FaultCounts DEF CopiesInv, BookInv, RecordInv, CopyShape, ClientTimeout
<1>1. /\ root' = root /\ aside' = aside /\ objects' = objects /\ excused' = excused /\ overwritten' = overwritten
      /\ hollow' = hollow /\ lastId' = lastId /\ cleaning' = cleaning /\ raced' = raced /\ Refused
      /\ handlers["worker"] # NoHandler
  BY DEF ClientTimeout, diskVars
<1>2. /\ DataInv' /\ DOMAIN handlers' = Slots
      /\ handlers'["worker"] = NoHandler /\ handlers'["stray"] = handlers["worker"]
  BY <1>1, StrayKeepsData DEF ClientTimeout
<1>3. HandlerStep
  BY <1>0, <1>2, StrayStep
<1>4. work.pc = "sent"
  BY <1>0, <1>1 DEF RecordInv, RestorerInv
<1>5. TableStep
  BY <1>0, <1>1, <1>4, RefusedStep
<1>6. DiskShape' /\ FilesStep
  BY <1>0, <1>1, SameDisk
<1>7. CommonStep
  BY <1>0, <1>1, <1>3, <1>5, <1>6 DEF CommonStep
<1> QED BY <1>2, <1>7, CommonKeepsBooks DEF CopiesInv

LEMMA AgentCrashKeepsInv ==
    ASSUME CopiesInv, AgentCrash
    PROVE  CopiesInv'
<1>0. RecordInv /\ copyFaults \in Nat /\ copyFaults' \in Nat /\ copyFaults' > 0
  BY FaultCounts DEF CopiesInv, BookInv, RecordInv, CopyShape, AgentCrash
<1>1. /\ root' = root /\ aside' = aside /\ objects' = objects /\ excused' = excused /\ overwritten' = overwritten
      /\ hollow' = hollow /\ lastId' = lastId /\ cleaning' = cleaning /\ raced' = raced /\ Fault
  BY DEF AgentCrash, diskVars
<1>2. DOMAIN handlers' = Slots /\ \A s \in Slots : handlers'[s] = NoHandler
  BY <1>0 DEF AgentCrash, RecordInv, CopyShape, HandlerShape
<1>3. HandlerStep
  BY <1>2 DEF HandlerStep, Slots
<1>4. TableStep
  <2>1. CASE handlers["worker"] # NoHandler
    <3>1. work.pc = "sent"
      BY <1>0, <2>1 DEF RecordInv, RestorerInv
    <3> QED BY <1>0, <1>1, <2>1, <3>1, RefusedStep DEF AgentCrash
  <2>2. CASE handlers["worker"] = NoHandler
    BY <1>0, <1>1, <2>2, SameStep DEF AgentCrash
  <2> QED BY <2>1, <2>2
<1>5. DiskShape' /\ FilesStep
  BY <1>0, <1>1, SameDisk
<1>6. CommonStep
  BY <1>0, <1>1, <1>3, <1>4, <1>5 DEF CommonStep
<1>7. DataInv'
  <2> SUFFICES ASSUME ~hollow
               PROVE  WholeTrees' /\ (copyFaults' <= 1 => HasData' /\ RollbackSafe' /\ FinishSafe')
    BY <1>0, <1>1 DEF DataInv
  <2>1. WholeTrees'
    BY <1>2, NoneShape DEF WholeTrees
  <2>2. ASSUME copyFaults' <= 1 PROVE HasData' /\ RollbackSafe' /\ FinishSafe'
    <3>1. FirstFault
      BY <1>1, <2>2, FirstFaultAt
    <3>2. handlers["worker"].pc = "install" => handlers["worker"].id \in Ids
      BY <1>0, ActiveHandler DEF Slots
    <3>3. HasData'
      BY <1>1, <3>1, <3>2 DEF FirstFault, HasData
    <3> QED BY <1>2, <3>3, DataParts, NoneShape DEF RollbackSafe, FinishSafe
  <2> QED BY <2>1, <2>2
<1> QED BY <1>6, <1>7, CommonKeepsBooks DEF CopiesInv

-----------------------------------------------------------------------------
(* The theorems *)

LEMMA CopiesInvInit == CopiesInit => CopiesInv
<1> SUFFICES ASSUME CopiesInit
             PROVE  CopiesInv
  OBVIOUS
<1>1. /\ DOMAIN backups = Ids /\ (\A i \in Ids : backups[i] = NoBackup) /\ lastId = 0
      /\ DOMAIN aside = Ids /\ (\A i \in Ids : aside[i] = NoDir)
      /\ DOMAIN handlers = Slots /\ (\A s \in Slots : handlers[s] = NoHandler)
      /\ objects = {} /\ queue = {} /\ work = NoWork /\ copyFaults = 0 /\ excused = {} /\ ~hollow
  BY DEF CopiesInit, Slots
<1>2. DOMAIN root = DirFields /\ root.tree = "whole" /\ root.files = {}
  BY DEF CopiesInit, DirFields
<1>3. ~Making(NoJob) /\ "worker" \in Slots /\ "stray" \in Slots
  BY NoneShape DEF Making, Slots
<1>4. CopyShape
  BY <1>1, <1>2, NoneShape DEF CopyShape, TableShape, DiskShape, WorkShape, HandlerShape
<1>5. FreshInv
  BY <1>1 DEF FreshInv
<1>6. MakerInv
  BY <1>1, <1>3, NoneShape DEF MakerInv
<1>7. RestorerInv
  BY <1>1, <1>3, NoneShape DEF RestorerInv, AllJobs
<1>8. ExcuseInv
  <2>1. \A i \in Ids : ~(i <= lastId)
    BY <1>1, CopiesAssumption
  <2> QED BY <1>1, <2>1, NoneShape DEF ExcuseInv, AllJobs
<1>9. CopyInv
  BY <1>1, NoneShape DEF CopyInv, Afloat
<1>10. DeleteInv
  BY <1>1, NoneShape DEF DeleteInv, AllJobs
<1>11. DataInv
  BY <1>1, <1>2, <1>3, NoneShape DEF DataInv, WholeTrees, FirstFault, HasData, RollbackSafe, FinishSafe
<1> QED BY <1>4, <1>5, <1>6, <1>7, <1>8, <1>9, <1>10, <1>11 DEF CopiesInv, BookInv, RecordInv

LEMMA CopiesInvNext == CopiesInv /\ [CopiesNext]_copyVars => CopiesInv'
<1> SUFFICES ASSUME CopiesInv, [CopiesNext]_copyVars
             PROVE  CopiesInv'
  OBVIOUS
<1>1. CASE UNCHANGED copyVars
  <2>1. RecordInv /\ Untouched /\ Same /\ work' = work /\ raced' = raced
    BY <1>1 DEF copyVars, Untouched, Same, CopiesInv, BookInv
  <2>2. TableStep
    BY <2>1, SameStep DEF Untouched
  <2> QED BY <2>1, <2>2, UntouchedKeepsInv
<1>2. ASSUME NEW p \in CopyProviders \cup {"none"}, createWithProvider(p) \/ createDatabaseBackup(p) PROVE CopiesInv'
  <2>1. Create("create", p) \/ Create("dump", p)
    BY <1>2 DEF createWithProvider, createDatabaseBackup
  <2> QED BY <2>1, CreateKeepsInv
<1>3. ASSUME NEW i \in Ids, restore(i) \/ deleteBackup(i) \/ Age(i) PROVE CopiesInv'
  BY <1>3, RestoreRequest, DeleteKeepsInv, AgeKeepsInv
<1>4. CASE (\E p \in CopyProviders : deleteProvider(p)) \/ (\E v \in BOOLEAN : setRetention(v))
  BY <1>4, ProviderRequests
<1>5. ASSUME NEW j \in queue, ClaimJob(j) PROVE CopiesInv'
  BY <1>5, ClaimKeepsInv
<1>6. CASE backupCreateTask
  <2>1. PICK tree : tree = EnsureDir(root).tree
    OBVIOUS
  <2>2. ArchiveTask("create", tree)
    BY <1>6, <2>1 DEF backupCreateTask
  <2> QED BY <2>2, ArchiveKeepsInv
<1>7. CASE databaseBackupTask
  BY <1>7, ArchiveKeepsInv DEF databaseBackupTask
<1>8. CASE \/ MarkCompletedPath \/ UpdateS3Path \/ RemoveUploaded \/ ClearStoragePath \/ DeleteOldest \/ backupDeleteTask
  BY <1>8, MarkKeepsInv, UploadKeepsInv, RemoveKeepsInv, ClearKeepsInv, OldestKeepsInv, DeleteTaskKeepsInv
<1>9. ASSUME NEW s \in Slots,
             \/ RestoreFetch(s) \/ RestoreExtract(s) \/ RestoreDiscard(s) \/ RestoreStage(s)
             \/ RestoreInstall(s) \/ RestoreRollback(s) \/ RestoreFinish(s)
      PROVE  CopiesInv'
  BY <1>9, FetchKeepsInv, ExtractKeepsInv, DiscardKeepsInv, StageKeepsInv, InstallKeepsInv, RollbackKeepsInv, FinishKeepsInv
<1>10. CASE enqueueLocalBackupDeletes \/ CleanupExpired \/ CleanupLocalAfterS3
  BY <1>10, EnqueueKeepsInv, ExpireKeepsInv, LocalKeepsInv
<1>11. CASE BackendCrash \/ ClientTimeout \/ AgentCrash \/ CleanupStuckRunning
  BY <1>11, BackendCrashKeepsInv, TimeoutKeepsInv, AgentCrashKeepsInv, StuckKeepsInv
<1> QED
  BY <1>1, <1>2, <1>3, <1>4, <1>5, <1>6, <1>7, <1>8, <1>9, <1>10, <1>11 DEF CopiesNext, Slots

LEMMA CopiesInvHolds == CopiesSpec => []CopiesInv
  BY CopiesInvInit, CopiesInvNext, PTL DEF CopiesSpec

(* A completed backup that no deletion, retention or restore reached has a *)
(* copy that its columns lead to, however many backups, providers,         *)
(* attempts, crashes and restores there are.                               *)
THEOREM CompletedHasCopyHolds == CopiesSpec => []CompletedHasCopy
<1>1. CopiesInv => CompletedHasCopy
  <2> SUFFICES ASSUME CopiesInv, NEW i \in ListedCopies \ (excused \cup overwritten), backups[i].status = "completed"
               PROVE  \/ /\ backups[i].path # 0
                         /\ \E d \in {root} \cup {aside[j] : j \in Ids} : Archive(d, i, backups[i].path) # {}
                      \/ backups[i].s3 # 0 /\ \E o \in objects : o.id = i /\ o.n = backups[i].s3
    BY DEF CompletedHasCopy
  <2>1. i \in Afloat
    BY DEF Afloat, ListedCopies
  <2>2. Kept(root, aside, i, backups[i].path) \/ Stored(objects, i, backups[i].s3)
    BY <2>1 DEF CopiesInv, BookInv, CopyInv
  <2> QED BY <2>2 DEF Kept, Stored
<1> QED BY <1>1, CopiesInvHolds, PTL

(* Whatever restores run, one crash, time-out or failed step at any point  *)
(* of backupRestoreTask leaves a whole site in the root or beside it once  *)
(* the handlers have ended.                                                *)
THEOREM SiteHasDataHolds == CopiesSpec => []SiteHasData
<1>1. CopiesInv => SiteHasData
  <2> SUFFICES ASSUME CopiesInv, copyFaults <= 1, ~hollow, \A s \in DOMAIN handlers : handlers[s] = NoHandler
               PROVE  root.tree = "whole" \/ \E i \in Ids : aside[i].tree = "whole"
    BY DEF SiteHasData
  <2>1. DOMAIN handlers = Slots
    BY DEF CopiesInv, BookInv, RecordInv, CopyShape, HandlerShape
  <2>2. HasData
    BY DataParts
  <2> QED BY <2>1, <2>2, NoneShape DEF HasData, Carries
<1> QED BY <1>1, CopiesInvHolds, PTL

(* A backup.delete job of the clean-up is for a record that CleanupExpired *)
(* removed, for every number of backups and every retention: the two       *)
(* statements select the same rows unless the completed ones changed       *)
(* between them.                                                           *)
THEOREM DeletesWhatExpiredHolds == CopiesSpec => []DeletesWhatExpired
<1>1. CopiesInv => DeletesWhatExpired
  BY DEF CopiesInv, BookInv, DeleteInv, DeletesWhatExpired, Doomed, AllJobs
<1> QED BY <1>1, CopiesInvHolds, PTL

-----------------------------------------------------------------------------
(* Numbers *)

\* What holds of zero and of each successor holds of all.
LEMMA NatsByStep ==
    ASSUME NEW S, 0 \in S, \A n \in Nat : n \in S => n + 1 \in S
    PROVE  \A n \in Nat : n \in S
  <1>1. PICK R : R = {ss \in Nat \X Nat : ss[1] < ss[2]}
    OBVIOUS
  <1>2. IsWellFoundedOn(R, Nat)
    BY <1>1, NatLessThanWellFounded DEF OpToRel
  <1>3. PICK T : T = {n \in Nat : n \notin S}
    OBVIOUS
  <1>4. ASSUME T # {} PROVE FALSE
    <2>1. PICK x \in T : \A y \in T : ~(<<y, x>> \in R)
      BY <1>2, <1>3, <1>4, WFMin
    <2>2. x \in Nat \ {0} /\ x - 1 \in Nat /\ x - 1 + 1 = x /\ x - 1 < x
      BY <1>3, <2>1
    <2>3. x - 1 \notin T
      BY <1>1, <2>1, <2>2
    <2>4. QED
      BY <1>3, <2>1, <2>2, <2>3
  <1>5. QED
    BY <1>3, <1>4

\* A set of numbers that is not empty has a least one.
LEMMA LeastOf ==
    ASSUME NEW S \in SUBSET Nat, S # {}
    PROVE  \E x \in S : \A y \in S : x <= y
  <1>1. PICK R : R = {ss \in Nat \X Nat : ss[1] < ss[2]}
    OBVIOUS
  <1>2. IsWellFoundedOn(R, Nat)
    BY <1>1, NatLessThanWellFounded DEF OpToRel
  <1>3. PICK x \in S : \A y \in S : ~(<<y, x>> \in R)
    BY <1>2, WFMin
  <1>4. \A y \in S : ~(y < x)
    BY <1>1, <1>3
  <1>5. QED
    BY <1>3, <1>4

LEMMA DivModOf ==
    ASSUME NEW t \in Nat, NEW m \in Nat \ {0}, NEW q \in Nat, NEW r \in Nat, r < m, t = m * q + r
    PROVE  t \div m = q /\ t % m = r
  OBVIOUS

LEMMA DivMod ==
    ASSUME NEW t \in Nat, NEW m \in Nat \ {0}
    PROVE  /\ t \div m \in Nat /\ t % m \in Nat /\ t % m < m
           /\ t = m * (t \div m) + (t % m)
  <1>1. t \div m \in Nat
    OBVIOUS
  <1>2. t % m \in Nat /\ t % m < m
    OBVIOUS
  <1>3. t = m * (t \div m) + (t % m)
    OBVIOUS
  <1>4. QED
    BY <1>1, <1>2, <1>3

LEMMA ProductNat == ASSUME NEW a \in Nat, NEW b \in Nat PROVE a * b \in Nat
  OBVIOUS

\* Whole periods more.
LEMMA DivModShift ==
    ASSUME NEW t \in Nat, NEW k \in Nat, NEW m \in Nat \ {0}
    PROVE  (t + m * k) \div m = (t \div m) + k /\ (t + m * k) % m = t % m
  <1>1. PICK q \in Nat, r \in Nat : q = t \div m /\ r = t % m /\ r < m /\ t = m * q + r
    BY DivMod
  <1>2. PICK u \in Nat, c \in Nat : u = t + m * k /\ c = q + k
    <2>1. m * k \in Nat
      BY ProductNat
    <2>2. t + m * k \in Nat /\ q + k \in Nat
      BY <1>1, <2>1
    <2>3. QED
      BY <2>2
  <1>3. u = m * c + r
    <2>1. m * (q + k) = m * q + m * k
      BY <1>1
    <2>2. QED
      BY <1>1, <1>2, <2>1, ProductNat
  <1>4. u \div m = c /\ u % m = r
    <2>1. m \in Nat \ {0} /\ u \in Nat /\ c \in Nat /\ r \in Nat /\ r < m
      BY <1>1, <1>2
    <2>2. QED
      BY <1>3, <2>1, DivModOf, Zenon
  <1>5. QED
    BY <1>1, <1>2, <1>4

\* A number of days that is whole in years, of a months of b days, and in weeks.
IsCycle(d, a, b, w) ==
    /\ (d + a * b * w) % w = d % w
    /\ (d + a * b * w) % a = d % a
    /\ ((d + a * b * w) \div a) % b = (d \div a) % b

LEMMA CycleOf ==
    ASSUME NEW d \in Nat, NEW a \in Nat \ {0}, NEW b \in Nat \ {0}, NEW w \in Nat \ {0}
    PROVE  IsCycle(d, a, b, w)
  <1>1. a * b \in Nat /\ b * w \in Nat
    BY ProductNat
  <1>2. d + a * b * w = d + w * (a * b) /\ d + a * b * w = d + a * (b * w)
    OBVIOUS
  <1>3. (d + w * (a * b)) % w = d % w
    BY <1>1, DivModShift, Zenon
  <1>4. (d + a * (b * w)) % a = d % a /\ (d + a * (b * w)) \div a = (d \div a) + b * w
    BY <1>1, DivModShift, Zenon
  <1>5. d \div a \in Nat
    BY DivMod
  <1>6. ((d \div a) + b * w) % b = (d \div a) % b
    BY <1>5, DivModShift, Zenon
  <1>7. QED
    BY <1>2, <1>3, <1>4, <1>6, Zenon DEF IsCycle

\* The minute and the hour in a day of b hours of a minutes.
IsTime(v, a, b, q, r) == v % a = r % a /\ (v \div a) % b = (r \div a) % b

LEMMA TimeOfDay ==
    ASSUME NEW v \in Nat, NEW a \in Nat \ {0}, NEW b \in Nat \ {0}, NEW q \in Nat, NEW r \in Nat,
           v = (a * b) * q + r
    PROVE  IsTime(v, a, b, q, r)
  <1>1. b * q \in Nat /\ v = r + a * (b * q)
    BY ProductNat
  <1>2. (r + a * (b * q)) % a = r % a /\ (r + a * (b * q)) \div a = (r \div a) + b * q
    BY <1>1, DivModShift, Zenon
  <1>3. r \div a \in Nat
    BY DivMod
  <1>4. ((r \div a) + b * q) % b = (r \div a) % b
    BY <1>3, DivModShift, Zenon
  <1>5. QED
    BY <1>1, <1>2, <1>4, Zenon DEF IsTime

LEMMA DivDiv ==
    ASSUME NEW t \in Nat, NEW m \in Nat \ {0}, NEW n \in Nat \ {0}
    PROVE  (t \div m) \div n = t \div (m * n)
  OBVIOUS

LEMMA DivMonotone ==
    ASSUME NEW t \in Nat, NEW u \in Nat, t <= u, NEW m \in Nat \ {0}
    PROVE  t \div m <= u \div m
  OBVIOUS

\* The multiple after t: what lies between is in the same interval.
LEMMA NextMultiple ==
    ASSUME NEW t \in Nat, NEW m \in Nat \ {0}
    PROVE  /\ (t \div m + 1) * m \in Nat /\ (t \div m + 1) * m > t
           /\ ((t \div m + 1) * m) \div m = t \div m + 1
           /\ ((t \div m + 1) * m) % m = 0
           /\ \A u \in Nat : t <= u /\ u < (t \div m + 1) * m => u \div m = t \div m
  <1>1. PICK q \in Nat, r \in Nat : q = t \div m /\ r = t % m /\ r < m /\ t = m * q + r
    BY DivMod
  <1>2. (q + 1) * m \in Nat /\ (q + 1) * m > t /\ (q + 1) * m = m * (q + 1) + 0 /\ m > 0
    BY <1>1
  <1>3. ((q + 1) * m) \div m = q + 1 /\ ((q + 1) * m) % m = 0
    <2>1. PICK u \in Nat, c \in Nat : u = (q + 1) * m /\ c = q + 1
      BY <1>1, <1>2
    <2>2. u = m * c + 0 /\ 0 < m
      BY <2>1, <1>2
    <2>3. u \div m = c /\ u % m = 0
      BY <2>1, <2>2, DivModOf
    <2>4. QED
      BY <2>1, <2>3
  <1>4. ASSUME NEW u \in Nat, t <= u, u < (q + 1) * m PROVE u \div m = q
    <2>1. PICK s \in Nat : u = m * q + s /\ s < m
      <3>1. u - m * q \in Nat /\ u - m * q < m /\ u = m * q + (u - m * q)
        BY <1>1, <1>4
      <3>2. QED
        BY <3>1
    <2>2. QED
      BY <2>1, DivModOf
  <1>5. QED
    BY <1>1, <1>2, <1>3, <1>4

-----------------------------------------------------------------------------
(* The calendar *)

LEMMA Calendar ==
    /\ DayLength \in Nat \ {0} /\ MonthLength \in Nat \ {0} /\ YearLength \in Nat \ {0}
    /\ SearchLimit \in Nat
  <1>1. \A a, b \in Nat \ {0} : a * b \in Nat \ {0}
    OBVIOUS
  <1>2. DayLength \in Nat \ {0}
    BY <1>1, PlansAssumption DEF DayLength
  <1>3. MonthLength \in Nat \ {0}
    BY <1>1, <1>2, PlansAssumption DEF MonthLength
  <1>4. YearLength \in Nat \ {0}
    BY <1>1, <1>3, PlansAssumption DEF YearLength
  <1>5. QED
    BY <1>2, <1>3, <1>4 DEF SearchLimit

\* The day is one that the expression names.
GoodDay(p, t) == MonthOf(t) \in p.months /\ DayMatches(p, t)
GoodTime(p, t) == HourOf(t) \in p.hours /\ MinuteOf(t) \in p.minutes

LEMMA HitParts == ASSUME NEW p, NEW t PROVE Hit(p, t) <=> GoodDay(p, t) /\ GoodTime(p, t)
  BY DEF Hit, GoodDay, GoodTime

LEMMA MonthOfDay ==
    ASSUME NEW t \in Nat
    PROVE  MonthOf(t) = (((t \div DayLength) \div Days) % Months) + 1
  <1>1. t \div MonthLength = (t \div DayLength) \div Days
    BY DivDiv, Calendar, PlansAssumption DEF MonthLength
  <1>2. QED
    BY <1>1 DEF MonthOf

\* All minutes of a day are minutes of a named day, or none is.
LEMMA SameDay ==
    ASSUME NEW p, NEW t \in Nat, NEW u \in Nat, t \div DayLength = u \div DayLength
    PROVE  DayMatches(p, t) = DayMatches(p, u) /\ GoodDay(p, t) = GoodDay(p, u)
  <1>1. MonthOf(t) = MonthOf(u)
    BY MonthOfDay
  <1>2. DayOf(t) = DayOf(u) /\ WeekdayOf(t) = WeekdayOf(u)
    BY DEF DayOf, WeekdayOf
  <1>3. DayMatches(p, t) = DayMatches(p, u)
    BY <1>2 DEF DayMatches
  <1>4. QED
    BY <1>1, <1>3 DEF GoodDay

\* The hour and the minute are those of the time of the day.
LEMMA SameTime ==
    ASSUME NEW p, NEW t \in Nat, NEW u \in Nat, t % DayLength = u % DayLength
    PROVE  GoodTime(p, t) = GoodTime(p, u)
  <1>1. ASSUME NEW v \in Nat
        PROVE  MinuteOf(v) = MinuteOf(v % DayLength) /\ HourOf(v) = HourOf(v % DayLength)
    <2>1. DayLength \in Nat \ {0} /\ Minutes \in Nat \ {0} /\ Hours \in Nat \ {0}
      BY Calendar, PlansAssumption
    <2>2. /\ v \div DayLength \in Nat /\ v % DayLength \in Nat
          /\ v = DayLength * (v \div DayLength) + (v % DayLength)
      BY <2>1, DivMod, Zenon
    <2>3. PICK q \in Nat, r \in Nat : r = v % DayLength /\ v = DayLength * q + r
      BY <2>2, Zenon
    <2>4. v = (Minutes * Hours) * q + r
      BY <2>3 DEF DayLength
    <2>5. v % Minutes = r % Minutes /\ (v \div Minutes) % Hours = (r \div Minutes) % Hours
      <3>1. PICK a \in Nat \ {0}, b \in Nat \ {0} : a = Minutes /\ b = Hours
        BY <2>1
      <3>2. v = (a * b) * q + r
        BY <2>4, <3>1
      <3>3. v % a = r % a /\ (v \div a) % b = (r \div a) % b
        <4>1. IsTime(v, a, b, q, r)
          BY <3>2, TimeOfDay
        <4>2. QED
          BY <4>1 DEF IsTime
      <3>4. QED
        BY <3>1, <3>3
    <2>6. QED
      BY <2>3, <2>5 DEF MinuteOf, HourOf
  <1>2. QED
    BY <1>1 DEF GoodTime

\* After YearLength * Week minutes months, days and weekdays meet again.
LEMMA HitAgain ==
    ASSUME NEW p, NEW t \in Nat
    PROVE  Hit(p, t + YearLength * Week) = Hit(p, t)
  <1>1. PICK D \in Nat \ {0}, a \in Nat \ {0}, b \in Nat \ {0}, w \in Nat \ {0} :
            D = DayLength /\ a = Days /\ b = Months /\ w = Week
    BY PlansAssumption, Calendar
  <1>2. YearLength * Week = D * (a * b * w)
    BY <1>1 DEF YearLength, MonthLength
  <1>3. PICK u \in Nat : u = t + D * (a * b * w)
    <2>1. D * (a * b * w) \in Nat
      BY <1>1, ProductNat
    <2>2. QED
      BY <2>1
  <1>4. PICK d \in Nat : d = t \div D
    BY <1>1, DivMod
  <1>5. u \div D = d + a * b * w /\ u % D = t % D
    <2>1. a * b * w \in Nat
      BY <1>1, ProductNat
    <2>2. (t + D * (a * b * w)) \div D = (t \div D) + a * b * w /\ (t + D * (a * b * w)) % D = t % D
      BY <2>1, DivModShift, Zenon
    <2>3. QED
      BY <1>3, <1>4, <2>2
  <1>6. GoodTime(p, u) = GoodTime(p, t)
    BY <1>1, <1>5, SameTime
  <1>7. WeekdayOf(u) = WeekdayOf(t)
    <2>1. (d + a * b * w) % w = d % w
      <3>1. IsCycle(d, a, b, w)
        BY CycleOf
      <3>2. QED
        BY <3>1 DEF IsCycle
    <2>2. QED
      BY <1>1, <1>4, <1>5, <2>1 DEF WeekdayOf
  <1>8. DayOf(u) = DayOf(t) /\ MonthOf(u) = MonthOf(t)
    <2>1. (d + a * b * w) % a = d % a /\ ((d + a * b * w) \div a) % b = (d \div a) % b
      <3>1. IsCycle(d, a, b, w)
        BY CycleOf
      <3>2. QED
        BY <3>1 DEF IsCycle
    <2>2. QED
      BY <1>1, <1>3, <1>4, <1>5, <2>1, MonthOfDay DEF DayOf
  <1>9. GoodDay(p, u) = GoodDay(p, t)
    BY <1>7, <1>8 DEF GoodDay, DayMatches
  <1>10. QED
    BY <1>2, <1>3, <1>6, <1>9, HitParts

-----------------------------------------------------------------------------
(* The search for the next run *)

\* One round of the search, and the minutes it visits.
Round(p, t) == IF Hit(p, t) THEN t ELSE Jump(p, t)
IsSearch(g, p, start, n) == g = [i \in 0..n |-> IF i = 0 THEN start ELSE Round(p, g[i - 1])]
Search(p, start) == CHOOSE g : IsSearch(g, p, start, SearchLimit)

LEMMA NextCronRunDef ==
    ASSUME NEW cron, NEW after
    PROVE  NextCronRun(cron, after) =
              IF Hit(Parsed(cron), Search(Parsed(cron), after + 1)[SearchLimit])
              THEN Search(Parsed(cron), after + 1)[SearchLimit] ELSE after + DayLength
  BY Zenon DEF NextCronRun, Search, IsSearch, Round

\* A recursion over the numbers up to n has a solution.
LEMMA SearchExists ==
    ASSUME NEW p, NEW start, NEW n \in Nat
    PROVE  \E g : IsSearch(g, p, start, n)
  <1>1. PICK S : S = {k \in Nat : \E g : IsSearch(g, p, start, k)}
    OBVIOUS
  <1>2. 0 \in S
    <2>1. PICK g : g = [i \in 0..0 |-> start]
      OBVIOUS
    <2>2. g = [i \in 0..0 |-> IF i = 0 THEN start ELSE Round(p, g[i - 1])]
      BY <2>1
    <2>3. QED
      BY <1>1, <2>2 DEF IsSearch
  <1>3. ASSUME NEW k \in Nat, k \in S PROVE k + 1 \in S
    <2>1. PICK g : IsSearch(g, p, start, k)
      BY <1>1, <1>3
    <2>2. PICK f : f = [i \in 0..(k + 1) |-> IF i = k + 1 THEN Round(p, g[k]) ELSE g[i]]
      OBVIOUS
    <2>3. ASSUME NEW i \in 0..(k + 1)
          PROVE  f[i] = IF i = 0 THEN start ELSE Round(p, f[i - 1])
      <3>1. CASE i = k + 1
        <4>1. f[i] = Round(p, g[k]) /\ i # 0 /\ i - 1 = k /\ f[k] = g[k]
          BY <2>2, <3>1
        <4>2. QED
          BY <4>1
      <3>2. CASE i # k + 1 /\ i # 0
        <4>1. i \in 0..k /\ i - 1 \in 0..k /\ i # k + 1 /\ i - 1 # k + 1
          BY <3>2
        <4>2. f[i] = g[i] /\ f[i - 1] = g[i - 1]
          BY <2>2, <4>1
        <4>3. g[i] = Round(p, g[i - 1])
          BY <2>1, <3>2, <4>1 DEF IsSearch
        <4>4. QED
          BY <3>2, <4>2, <4>3
      <3>3. CASE i = 0
        <4>1. f[0] = g[0] /\ g[0] = start
          BY <2>1, <2>2 DEF IsSearch
        <4>2. QED
          BY <3>3, <4>1
      <3>4. QED
        BY <3>1, <3>2, <3>3
    <2>4. f = [i \in 0..(k + 1) |-> IF i = 0 THEN start ELSE Round(p, f[i - 1])]
      BY <2>2, <2>3
    <2>5. QED
      BY <1>1, <2>4 DEF IsSearch
  <1>4. n \in S
    BY <1>2, <1>3, NatsByStep
  <1>5. QED
    BY <1>1, <1>4

LEMMA SearchSteps ==
    ASSUME NEW p, NEW start, NEW g, g = Search(p, start)
    PROVE  /\ g[0] = start
           /\ \A i \in Nat : i + 1 <= SearchLimit => g[i + 1] = Round(p, g[i])
  <1>1. SearchLimit \in Nat
    BY Calendar
  <1>2. IsSearch(g, p, start, SearchLimit)
    BY <1>1, SearchExists DEF Search
  <1>3. g = [i \in 0..SearchLimit |-> IF i = 0 THEN start ELSE Round(p, g[i - 1])]
    BY <1>2 DEF IsSearch
  <1>4. g[0] = start
    BY <1>1, <1>3
  <1>5. ASSUME NEW i \in Nat, i + 1 <= SearchLimit PROVE g[i + 1] = Round(p, g[i])
    <2>1. i + 1 \in 0..SearchLimit /\ i + 1 # 0 /\ i + 1 - 1 = i
      BY <1>1, <1>5
    <2>2. PICK j \in 0..SearchLimit : j = i + 1 /\ j # 0 /\ j - 1 = i
      BY <2>1
    <2>3. g[j] = Round(p, g[j - 1])
      BY <1>3, <2>2
    <2>4. QED
      BY <2>2, <2>3
  <1>6. QED
    BY <1>4, <1>5

\* A jump goes forward, past no match: within the minutes of a named day it is
\* one minute, and from any other day it goes to a later one.
LEMMA JumpForward ==
    ASSUME NEW p, NEW t \in Nat, ~Hit(p, t)
    PROVE  /\ Jump(p, t) \in Nat /\ Jump(p, t) > t
           /\ \A u \in Nat : t <= u /\ u < Jump(p, t) => ~Hit(p, u)
           /\ GoodDay(p, t) => Jump(p, t) = t + 1
           /\ ~GoodDay(p, t) => Jump(p, t) \div DayLength >= (t \div DayLength) + 1
  <1>1. PICK D \in Nat \ {0}, M \in Nat \ {0}, b \in Nat \ {0} : D = DayLength /\ M = MonthLength /\ b = Days /\ M = D * b
    BY Calendar, PlansAssumption DEF MonthLength
  <1>2. CASE MonthOf(t) \notin p.months
    <2>1. Jump(p, t) = (t \div M + 1) * M /\ ~GoodDay(p, t)
      BY <1>1, <1>2 DEF Jump, GoodDay
    <2>2. PICK j \in Nat : /\ j = (t \div M + 1) * M /\ j > t
                           /\ \A u \in Nat : t <= u /\ u < j => u \div M = t \div M
      BY NextMultiple
    <2>3. ASSUME NEW u \in Nat, t <= u, u < j PROVE ~Hit(p, u)
      <3>1. u \div M = t \div M
        BY <2>2, <2>3
      <3>2. MonthOf(u) = MonthOf(t)
        BY <1>1, <3>1 DEF MonthOf
      <3>3. QED
        BY <1>2, <3>2 DEF Hit
    <2>4. j \div D >= (t \div D) + 1
      <3>1. PICK q \in Nat : q = t \div M
        BY DivMod
      <3>2. PICK c \in Nat : c = b * (q + 1)
        BY <3>1, ProductNat
      <3>3. j = D * c + 0 /\ 0 < D
        BY <1>1, <2>2, <3>1, <3>2
      <3>4. j \div D = c
        BY <3>3, DivModOf, Zenon
      <3>5. PICK e \in Nat, r \in Nat : e = t \div D /\ t = D * e + r
        BY DivMod
      <3>6. e < c
        BY <2>2, <3>3, <3>5
      <3>7. QED
        BY <3>4, <3>5, <3>6
    <2>5. QED
      BY <1>1, <2>1, <2>2, <2>3, <2>4
  <1>3. CASE MonthOf(t) \in p.months /\ ~DayMatches(p, t)
    <2>1. Jump(p, t) = (t \div D + 1) * D /\ ~GoodDay(p, t)
      BY <1>1, <1>3 DEF Jump, GoodDay
    <2>2. PICK j \in Nat : /\ j = (t \div D + 1) * D /\ j > t
                           /\ j \div D = t \div D + 1
                           /\ \A u \in Nat : t <= u /\ u < j => u \div D = t \div D
      BY NextMultiple
    <2>3. ASSUME NEW u \in Nat, t <= u, u < j PROVE ~Hit(p, u)
      <3>1. u \div D = t \div D
        BY <2>2, <2>3
      <3>2. DayMatches(p, u) = DayMatches(p, t)
        BY <1>1, <3>1, SameDay
      <3>3. QED
        BY <1>3, <3>2 DEF Hit
    <2>4. QED
      BY <1>1, <2>1, <2>2, <2>3, DivMod
  <1>4. CASE GoodDay(p, t)
    <2>1. Jump(p, t) = t + 1
      BY <1>4 DEF Jump, GoodDay
    <2>2. QED
      BY <1>4, <2>1
  <1>5. QED
    BY <1>2, <1>3, <1>4 DEF GoodDay

\* The search never turns back.
LEMMA SearchForward ==
    ASSUME NEW p, NEW start \in Nat
    PROVE  Search(p, start)[SearchLimit] \in Nat /\ Search(p, start)[SearchLimit] >= start
  <1>1. PICK g : g = Search(p, start)
    OBVIOUS
  <1>2. PICK S : S = {i \in Nat : i <= SearchLimit => g[i] \in Nat /\ g[i] >= start}
    OBVIOUS
  <1>3. PICK L \in Nat : L = SearchLimit
    BY Calendar
  <1>4. 0 \in S
    BY <1>1, <1>2, SearchSteps
  <1>5. ASSUME NEW i \in Nat, i \in S PROVE i + 1 \in S
    <2>1. SUFFICES ASSUME i + 1 <= L PROVE g[i + 1] \in Nat /\ g[i + 1] >= start
      BY <1>2, <1>3
    <2>2. g[i] \in Nat /\ g[i] >= start /\ g[i + 1] = Round(p, g[i])
      BY <1>1, <1>2, <1>3, <1>5, <2>1, SearchSteps
    <2>3. PICK t \in Nat : t = g[i]
      BY <2>2
    <2>4. Round(p, t) \in Nat /\ Round(p, t) >= t
      BY JumpForward DEF Round
    <2>5. QED
      BY <2>2, <2>3, <2>4
  <1>6. L \in S
    BY <1>4, <1>5, NatsByStep
  <1>7. QED
    BY <1>1, <1>2, <1>3, <1>6

\* The next run lies in the future.
LEMMA NextCronRunLater ==
    ASSUME NEW cron, NEW after \in Nat
    PROVE  NextCronRun(cron, after) \in Nat /\ NextCronRun(cron, after) > after
  <1>1. PICK start \in Nat : start = after + 1
    OBVIOUS
  <1>2. PICK e \in Nat : e = Search(Parsed(cron), start)[SearchLimit] /\ e >= start
    BY SearchForward
  <1>3. PICK D \in Nat \ {0} : D = DayLength
    BY Calendar
  <1>4. NextCronRun(cron, after) = IF Hit(Parsed(cron), e) THEN e ELSE after + D
    BY <1>1, <1>2, <1>3, NextCronRunDef
  <1>5. QED
    BY <1>1, <1>2, <1>3, <1>4


\* h is the first minute from start on that the expression names.
FirstHit(p, start, h) ==
    /\ h \in Nat /\ h >= start /\ Hit(p, h)
    /\ \A u \in Nat : start <= u /\ u < h => ~Hit(p, u)

\* How many rounds have brought the search to t.  It passes minutes singly only
\* on named days: on the day it starts, once the named time of that day is over,
\* and on the day of the match, up to it; both together are less than a day.
\* Of any other day it passes at least the rest in a round.
Counted(p, D, start, h, i, t) ==
    /\ t \in Nat /\ start <= t /\ t <= h
    /\ t \div D = start \div D => i <= t - start /\ (i = 0 \/ GoodDay(p, start))
    /\ t \div D # start \div D =>
          i <= ((t \div D) - (start \div D)) + (D - 1 - (h % D)) + (IF t \div D = h \div D THEN t % D ELSE 0)

\* The named time of a named day is a match.
LEMMA HitOnGoodDay ==
    ASSUME NEW p, NEW D \in Nat \ {0}, D = DayLength, NEW start \in Nat, NEW h, FirstHit(p, start, h),
           NEW t \in Nat, NEW d \in Nat, d = t \div D, GoodDay(p, t), NEW s \in Nat, s = h % D, start <= D * d + s
    PROVE  h <= D * d + s
  <1>1. h \in Nat /\ Hit(p, h)
    BY DEF FirstHit
  <1>2. s < D
    BY <1>1, DivMod
  <1>3. PICK x \in Nat : x = D * d + s
    BY ProductNat
  <1>4. x \div D = d /\ x % D = s
    BY <1>2, <1>3, DivModOf, Zenon
  <1>5. GoodDay(p, x)
    BY <1>4, SameDay
  <1>6. GoodTime(p, x)
    <2>1. GoodTime(p, x) = GoodTime(p, h)
      BY <1>1, <1>4, SameTime
    <2>2. QED
      BY <1>1, <2>1, HitParts
  <1>7. Hit(p, x)
    BY <1>5, <1>6, HitParts
  <1>8. QED
    BY <1>1, <1>3, <1>7 DEF FirstHit

LEMMA CountedStep ==
    ASSUME NEW p, NEW start \in Nat, NEW h, FirstHit(p, start, h), NEW i \in Nat, NEW t,
           Counted(p, DayLength, start, h, i, t), ~Hit(p, t)
    PROVE  Counted(p, DayLength, start, h, i + 1, Jump(p, t))
  <1>1. PICK D \in Nat \ {0} : D = DayLength
    BY Calendar
  <1>2. t \in Nat /\ h \in Nat /\ start <= t /\ t < h /\ Hit(p, h)
    BY DEF FirstHit, Counted
  <1>3. PICK j \in Nat : /\ j = Jump(p, t) /\ j > t
                         /\ \A u \in Nat : t <= u /\ u < j => ~Hit(p, u)
                         /\ GoodDay(p, t) => j = t + 1
                         /\ ~GoodDay(p, t) => j \div D >= (t \div D) + 1
    BY <1>1, <1>2, JumpForward
  <1>4. j <= h
    BY <1>2, <1>3
  <1>5. PICK ds \in Nat, rs \in Nat : ds = start \div D /\ rs = start % D /\ rs < D /\ start = D * ds + rs
    BY DivMod
  <1>6. PICK dt \in Nat, rt \in Nat : dt = t \div D /\ rt = t % D /\ rt < D /\ t = D * dt + rt
    BY <1>2, DivMod
  <1>7. PICK dh \in Nat, s \in Nat : dh = h \div D /\ s = h % D /\ s < D /\ h = D * dh + s
    BY <1>2, DivMod
  <1>8. PICK dj \in Nat, rj \in Nat : dj = j \div D /\ rj = j % D /\ rj < D /\ j = D * dj + rj
    BY DivMod
  <1>9. ds <= dt /\ dt <= dj /\ dj <= dh
    <2>1. start <= t /\ t <= j /\ j <= h /\ t \in Nat /\ h \in Nat
      BY <1>2, <1>3, <1>4
    <2>2. start \div D <= t \div D /\ t \div D <= j \div D /\ j \div D <= h \div D
      BY <2>1, DivMonotone, Zenon
    <2>3. QED
      BY <1>5, <1>6, <1>7, <1>8, <2>2
  <1>10. /\ dt = ds => i <= t - start /\ (i = 0 \/ GoodDay(p, start))
         /\ dt # ds => i <= (dt - ds) + (D - 1 - s) + (IF dt = dh THEN rt ELSE 0)
    BY <1>1, <1>5, <1>6, <1>7 DEF Counted
  <1>11. /\ dj = ds => i + 1 <= j - start /\ (i + 1 = 0 \/ GoodDay(p, start))
         /\ dj # ds => i + 1 <= (dj - ds) + (D - 1 - s) + (IF dj = dh THEN rj ELSE 0)
    <2>1. CASE GoodDay(p, t) /\ dt = ds
      <3>1. j = t + 1 /\ i <= t - start /\ GoodDay(p, start)
        BY <1>1, <1>2, <1>3, <1>5, <1>6, <1>10, <2>1, SameDay
      <3>2. CASE dj = ds
        BY <1>2, <3>1, <3>2
      <3>3. CASE dj # ds
        <4>1. ASSUME start <= D * ds + s PROVE FALSE
          <5>1. h <= D * ds + s
            BY <1>1, <1>5, <1>7, <3>1, <4>1, HitOnGoodDay
          <5>2. dh > ds
            BY <1>9, <2>1, <3>3
          <5>3. D * dh >= D * ds + D
            BY <5>2
          <5>4. QED
            BY <1>7, <5>1, <5>3, ProductNat
        <4>2. j = D * ds + D
          <5>1. rt = D - 1
            <6>1. CASE rt + 1 < D
              <7>1. rt + 1 \in Nat /\ j = D * ds + (rt + 1)
                BY <1>6, <2>1, <3>1, ProductNat
              <7>2. j \div D = ds
                BY <6>1, <7>1, DivModOf, Zenon
              <7>3. QED
                BY <1>8, <3>3, <7>2
            <6>2. QED
              BY <1>6, <6>1
          <5>2. QED
            BY <1>6, <2>1, <3>1, <5>1, ProductNat
        <4>3. j - start <= D - 1 - s
          BY <1>5, <1>7, <4>1, <4>2, ProductNat
        <4>4. QED
          BY <1>9, <1>7, <1>2, <3>1, <3>3, <4>3
      <3>4. QED
        BY <3>2, <3>3
    <2>2. CASE GoodDay(p, t) /\ dt # ds
      <3>1. j = t + 1 /\ dt >= ds + 1
        BY <1>3, <1>9, <2>2
      <3>2. D * dt >= D * ds + D
        BY <3>1
      <3>3. start <= D * dt + s
        BY <1>5, <1>7, <3>2, ProductNat
      <3>4. h <= D * dt + s
        BY <1>1, <1>2, <1>6, <1>7, <2>2, <3>3, HitOnGoodDay
      <3>5. dh = dt
        <4>1. CASE dh > dt
          <5>1. D * dh >= D * dt + D
            BY <4>1
          <5>2. QED
            BY <1>7, <3>4, <5>1, ProductNat
        <4>2. QED
          BY <1>9, <4>1
      <3>6. dj = dt
        BY <1>9, <3>5
      <3>7. rj = rt + 1
        BY <1>6, <1>8, <3>1, <3>6, ProductNat
      <3>8. QED
        BY <1>10, <2>2, <3>5, <3>6, <3>7, <1>7
    <2>3. CASE ~GoodDay(p, t)
      <3>1. dj >= dt + 1
        BY <1>3, <1>6, <1>8, <2>3
      <3>2. dt # dh
        <4>1. GoodDay(p, h)
          BY <1>2, HitParts
        <4>2. QED
          BY <1>1, <1>2, <1>6, <1>7, <2>3, <4>1, SameDay
      <3>3. dt = ds => i = 0
        BY <1>1, <1>2, <1>5, <1>6, <1>10, <2>3, SameDay
      <3>4. QED
        BY <1>7, <1>8, <1>9, <1>10, <3>1, <3>2, <3>3
    <2>4. QED
      BY <2>1, <2>2, <2>3
  <1>12. QED
    <2>1. start <= j /\ j <= h
      BY <1>2, <1>3, <1>4
    <2>2. Counted(p, D, start, h, i + 1, j)
      BY <1>5, <1>7, <1>8, <1>11, <2>1 DEF Counted
    <2>3. QED
      BY <1>1, <1>3, <2>2

\* A first match within the cycle is reached before the rounds run out.
LEMMA SearchReaches ==
    ASSUME NEW p, NEW start \in Nat, NEW h, FirstHit(p, start, h), h < start + YearLength * Week
    PROVE  Search(p, start)[SearchLimit] = h
  <1>1. PICK D \in Nat \ {0}, L \in Nat : D = DayLength /\ L = SearchLimit
    BY Calendar
  <1>2. PICK g : g = Search(p, start)
    OBVIOUS
  <1>3. PICK S : S = {i \in Nat : i <= L => g[i] = h \/ Counted(p, D, start, h, i, g[i])}
    OBVIOUS
  <1>4. h \in Nat /\ h >= start /\ Hit(p, h)
    BY DEF FirstHit
  <1>5. 0 \in S
    <2>1. g[0] = start
      BY <1>2, SearchSteps
    <2>2. 0 <= start - start /\ start <= start
      OBVIOUS
    <2>3. Counted(p, D, start, h, 0, start)
      BY <1>4, <2>2 DEF Counted
    <2>4. QED
      BY <1>3, <2>1, <2>3
  <1>6. ASSUME NEW i \in Nat, i \in S PROVE i + 1 \in S
    <2>1. SUFFICES ASSUME i + 1 <= L PROVE g[i + 1] = h \/ Counted(p, D, start, h, i + 1, g[i + 1])
      BY <1>3
    <2>2. g[i + 1] = Round(p, g[i])
      BY <1>1, <1>2, <2>1, SearchSteps
    <2>3. g[i] = h \/ Counted(p, D, start, h, i, g[i])
      BY <1>3, <1>6, <2>1
    <2>4. CASE Hit(p, g[i])
      <3>1. g[i] = h
        BY <1>4, <2>3, <2>4 DEF FirstHit, Counted
      <3>2. QED
        BY <2>2, <2>4, <3>1 DEF Round
    <2>5. CASE ~Hit(p, g[i])
      <3>1. g[i + 1] = Jump(p, g[i])
        BY <2>2, <2>5 DEF Round
      <3>2. Counted(p, D, start, h, i, g[i])
        BY <1>4, <2>3, <2>5
      <3>3. QED
        BY <1>1, <2>5, <3>1, <3>2, CountedStep
    <2>6. QED
      BY <2>4, <2>5
  <1>7. L \in S
    BY <1>5, <1>6, NatsByStep
  <1>8. ASSUME Counted(p, D, start, h, L, g[L]), g[L] # h PROVE FALSE
    <2>1. PICK t \in Nat : t = g[L] /\ start <= t /\ t < h
      BY <1>4, <1>8 DEF Counted
    <2>2. PICK ds \in Nat, rs \in Nat : ds = start \div D /\ rs = start % D /\ rs < D /\ start = D * ds + rs
      BY DivMod
    <2>3. PICK dt \in Nat, rt \in Nat : dt = t \div D /\ rt = t % D /\ rt < D /\ t = D * dt + rt
      BY DivMod
    <2>4. PICK dh \in Nat, s \in Nat : dh = h \div D /\ s = h % D /\ s < D /\ h = D * dh + s
      BY <1>4, DivMod
    <2>5. dt <= dh
      <3>1. t <= h /\ h \in Nat
        BY <1>4, <2>1
      <3>2. t \div D <= h \div D
        BY <3>1, DivMonotone, Zenon
      <3>3. QED
        BY <2>3, <2>4, <3>2
    <2>6. PICK c \in Nat : c = Days * Months * Week /\ YearLength * Week = D * c /\ c + D <= L + 1
      <3>1. PICK a \in Nat \ {0}, b \in Nat \ {0}, w \in Nat \ {0} : a = Days /\ b = Months /\ w = Week
        BY PlansAssumption
      <3>2. a * b * w \in Nat
        BY ProductNat
      <3>3. YearLength * Week = D * (a * b * w)
        BY <1>1, <3>1 DEF YearLength, MonthLength
      <3>4. a * b * w + D <= L + 1
        BY <1>1, <3>1, SearchAssumption
      <3>5. QED
        BY <3>1, <3>2, <3>3, <3>4
    <2>7. dh <= ds + c
      <3>1. h < D * ds + rs + D * c
        BY <2>2, <2>6
      <3>2. CASE dh > ds + c
        <4>1. D * dh >= D * ds + D * c + D
          <5>1. dh >= ds + c + 1
            BY <3>2
          <5>2. D * dh >= D * (ds + c + 1)
            BY <5>1
          <5>3. D * (ds + c + 1) = D * ds + D * c + D
            OBVIOUS
          <5>4. QED
            BY <5>2, <5>3, ProductNat
        <4>2. QED
          BY <2>2, <2>4, <3>1, <4>1, ProductNat
      <3>3. QED
        BY <3>2
    <2>8. L > D
      <3>1. PICK a \in Nat \ {0} : YearLength = D * a
        <4>1. PICK b \in Nat \ {0}, m \in Nat \ {0} : b = Days /\ m = Months
          BY PlansAssumption
        <4>2. YearLength = D * (b * m) /\ b * m \in Nat \ {0}
          BY <1>1, <4>1 DEF YearLength, MonthLength
        <4>3. QED
          BY <4>2
      <3>2. D * a >= D /\ D * a \in Nat
        OBVIOUS
      <3>3. L = D * a + 1
        BY <1>1, <3>1 DEF SearchLimit
      <3>4. QED
        BY <3>2, <3>3
    <2>9. /\ dt = ds => L <= t - start
          /\ dt # ds => L <= (dt - ds) + (D - 1 - s) + (IF dt = dh THEN rt ELSE 0)
      BY <1>8, <2>1, <2>2, <2>3, <2>4 DEF Counted
    <2>10. CASE dt = ds
      <3>1. t - start <= D
        BY <2>2, <2>3, <2>10, ProductNat
      <3>2. QED
        BY <2>1, <2>8, <2>9, <2>10, <3>1
    <2>11. CASE dt # ds
      <3>1. dt = dh => rt < s
        <4>1. ASSUME dt = dh PROVE rt < s
          <5>1. PICK k \in Nat : k = D * dh
            BY ProductNat
          <5>2. t = k + rt /\ h = k + s
            BY <2>3, <2>4, <4>1, <5>1
          <5>3. QED
            BY <2>1, <5>2
        <4>2. QED
          BY <4>1
      <3>2. QED
        BY <2>3, <2>4, <2>5, <2>6, <2>7, <2>9, <2>11, <3>1
    <2>12. QED
      BY <2>10, <2>11
  <1>9. QED
    BY <1>1, <1>2, <1>3, <1>7, <1>8

\* NextCronRun computes what it is for, from every minute and for every
\* expression: its jumps skip no match, and its limit cuts off none.
LEMMA SearchIsEarliest ==
    ASSUME NEW cron, NEW after \in Nat
    PROVE  NextCronRun(cron, after) = EarliestMatch(cron, after)
  <1>1. PICK p : p = Parsed(cron)
    OBVIOUS
  <1>2. PICK start \in Nat, Y \in Nat, D \in Nat : start = after + 1 /\ Y = YearLength * Week /\ D = DayLength
    <2>1. YearLength * Week \in Nat
      BY Calendar, PlansAssumption, ProductNat
    <2>2. QED
      BY <2>1, Calendar
  <1>3. PICK matches : matches = {t \in start..(after + Y) : Hit(p, t)}
    OBVIOUS
  <1>4. matches \in SUBSET Nat
    BY <1>2, <1>3
  <1>5. EarliestMatch(cron, after) =
            IF matches = {} THEN after + D ELSE CHOOSE t \in matches : \A u \in matches : t <= u
    BY <1>1, <1>2, <1>3 DEF EarliestMatch
  <1>6. PICK e \in Nat : e = Search(p, start)[SearchLimit] /\ e >= start
    BY SearchForward
  <1>7. NextCronRun(cron, after) = IF Hit(p, e) THEN e ELSE after + D
    BY <1>1, <1>2, <1>6, NextCronRunDef
  <1>8. CASE matches # {}
    <2>1. PICK h \in matches : \A u \in matches : h <= u
      BY <1>4, <1>8, LeastOf
    <2>2. h \in Nat /\ h >= start /\ h <= after + Y /\ Hit(p, h)
      BY <1>2, <1>3, <2>1
    <2>3. FirstHit(p, start, h)
      <3>1. ASSUME NEW u \in Nat, start <= u, u < h PROVE ~Hit(p, u)
        <4>1. u \in start..(after + Y) /\ ~(h <= u)
          BY <1>2, <2>2, <3>1
        <4>2. QED
          BY <1>3, <2>1, <4>1
      <3>2. QED
        BY <2>2, <3>1 DEF FirstHit
    <2>4. h < start + YearLength * Week
      BY <1>2, <2>2
    <2>5. e = h
      BY <1>6, <2>3, <2>4, SearchReaches
    <2>6. (CHOOSE t \in matches : \A u \in matches : t <= u) = h
      <3>1. \A t \in matches : (\A u \in matches : t <= u) => t = h
        BY <1>4, <2>1, <2>2
      <3>2. QED
        BY <2>1, <3>1
    <2>7. QED
      BY <1>5, <1>7, <1>8, <2>2, <2>5, <2>6
  <1>9. CASE matches = {}
    <2>1. ASSUME Hit(p, e) PROVE FALSE
      <3>1. PICK H : H = {t \in Nat : t >= start /\ Hit(p, t)}
        OBVIOUS
      <3>2. H \in SUBSET Nat /\ e \in H
        BY <1>6, <2>1, <3>1
      <3>3. PICK h \in H : \A u \in H : h <= u
        BY <3>2, LeastOf
      <3>4. h \in Nat /\ h >= start /\ Hit(p, h)
        BY <3>1, <3>3
      <3>5. ~(h <= after + Y)
        BY <1>2, <1>3, <1>9, <3>4
      <3>6. PICK u \in Nat : u = h - Y /\ u >= start
        BY <1>2, <3>4, <3>5
      <3>7. Hit(p, u) = Hit(p, u + Y) /\ u + Y = h
        BY <1>2, <3>4, <3>6, HitAgain
      <3>8. u \in H /\ u < h
        <4>1. Y > 0
          <5>1. PICK a \in Nat \ {0}, b \in Nat \ {0} : a = YearLength /\ b = Week
            BY Calendar, PlansAssumption
          <5>2. a * b > 0
            OBVIOUS
          <5>3. QED
            BY <1>2, <5>1, <5>2
        <4>2. QED
          <5>1. u < h
            BY <1>2, <3>4, <3>6, <4>1
          <5>2. Hit(p, u)
            BY <3>4, <3>7
          <5>3. QED
            BY <3>1, <3>6, <5>1, <5>2
      <3>9. QED
        BY <3>3, <3>4, <3>6, <3>8
    <2>2. QED
      BY <1>5, <1>7, <1>9, <2>1
  <1>10. QED
    BY <1>8, <1>9


-----------------------------------------------------------------------------
(* The tables and the tick *)

PlanFields == {"status", "scope", "sites", "provider", "cron", "enabled", "next", "usedCron", "usedAt"}
PlanRow(row) ==
    /\ DOMAIN row = PlanFields
    /\ row.next \in Int /\ row.usedAt \in Nat
    /\ row.next # Never => row.next = EarliestMatch(row.usedCron, row.usedAt)
PlanTable(table) == DOMAIN table = PlanIds /\ \A x \in PlanIds : PlanRow(table[x])

\* The plan will not run again before the time at, if it runs at all.
Handled(table, x, at) == table[x].status = "live" => table[x].next > at

\* An id that was used once stays used, and a plan that was handled up to
\* some moment before n stays so.
PlansKept(old, new, n) ==
    \A x \in PlanIds :
        old[x].status # "none" =>
            /\ new[x].status # "none"
            /\ \A at \in Nat : at <= n /\ Handled(old, x, at) => Handled(new, x, at)

ScheduleSteps == {"schedules", "mark schedule", "write schedule"}
ConfigSteps == {"configs", "sites", "mark config", "write config"}
TickFields == {"pc", "due", "cur", "scope", "cron", "storage", "todo", "listed", "at", "failed"}

\* Of the plans of one kind that the tick found due: each was given up, is
\* handled, or is still to do while the tick is at this kind.
KindInv(tick, kind, table, steps, turn) ==
    \A x : <<kind, x>> \in tick.listed =>
        /\ x \in PlanIds /\ table[x].status # "none"
        /\ \/ <<kind, x>> \in tick.failed \/ Handled(table, x, tick.at)
           \/ tick.pc \in steps /\ (x \in tick.due \/ (tick.pc # turn /\ x = tick.cur))

TickInv(tick, cf, sc, n) ==
    /\ DOMAIN tick = TickFields
    /\ tick.at \in Nat /\ tick.at <= n
    /\ tick.due \in SUBSET PlanIds
    /\ tick.pc \in {"idle"} \cup ScheduleSteps \cup ConfigSteps
    /\ tick.pc \in ScheduleSteps => \A x : <<"config", x>> \notin tick.listed
    /\ \A d \in tick.listed : \E x : d = <<"schedule", x>> \/ d = <<"config", x>>
    /\ KindInv(tick, "schedule", sc, ScheduleSteps, "schedules")
    /\ KindInv(tick, "config", cf, ConfigSteps, "configs")

PlansInv ==
    /\ now \in Nat
    /\ PlanTable(configs) /\ PlanTable(schedules)
    /\ TickInv(planTick, configs, schedules, now)

LEMMA KeepsItself == ASSUME NEW table, NEW n PROVE PlansKept(table, table, n)
  BY DEF PlansKept

LEMMA KindKept ==
    ASSUME NEW tick, NEW kind, NEW old, NEW new, NEW steps, NEW turn, NEW n,
           tick.at \in Nat, tick.at <= n, KindInv(tick, kind, old, steps, turn), PlansKept(old, new, n)
    PROVE  KindInv(tick, kind, new, steps, turn)
  <1>1. SUFFICES ASSUME NEW x, <<kind, x>> \in tick.listed
                 PROVE  /\ x \in PlanIds /\ new[x].status # "none"
                        /\ \/ <<kind, x>> \in tick.failed \/ Handled(new, x, tick.at)
                           \/ tick.pc \in steps /\ (x \in tick.due \/ (tick.pc # turn /\ x = tick.cur))
    BY DEF KindInv
  <1>2. x \in PlanIds /\ old[x].status # "none"
    BY <1>1 DEF KindInv
  <1>3. new[x].status # "none" /\ (Handled(old, x, tick.at) => Handled(new, x, tick.at))
    BY <1>2 DEF PlansKept
  <1>4. QED
    BY <1>1, <1>2, <1>3 DEF KindInv

\* Requests and the clock: the tick stands where it was.
LEMMA TickStands ==
    ASSUME PlansInv, planTick' = planTick, now' \in Nat, now <= now',
           PlanTable(configs'), PlanTable(schedules'),
           PlansKept(configs, configs', now), PlansKept(schedules, schedules', now)
    PROVE  PlansInv'
  <1>1. TickInv(planTick, configs, schedules, now) /\ planTick.at \in Nat /\ planTick.at <= now /\ now \in Nat
    BY DEF PlansInv, TickInv
  <1>2. KindInv(planTick, "schedule", schedules', ScheduleSteps, "schedules")
    BY <1>1, KindKept DEF TickInv
  <1>3. KindInv(planTick, "config", configs', ConfigSteps, "configs")
    BY <1>1, KindKept DEF TickInv
  <1>4. planTick.at <= now'
    BY <1>1
  <1>5. TickInv(planTick, configs', schedules', now')
    BY <1>1, <1>2, <1>3, <1>4 DEF TickInv
  <1>6. QED
    BY <1>5 DEF PlansInv

\* Putting one row that is handled, or of a plan that was not there before.
LEMMA RowPut ==
    ASSUME NEW table, PlanTable(table), NEW x \in PlanIds, NEW row, PlanRow(row), NEW n \in Nat, NEW new,
           new = [table EXCEPT ![x] = row],
           table[x].status # "none" =>
               /\ row.status # "none"
               /\ \A at \in Nat : at <= n => row.status # "live" \/ row.next > at
                                             \/ ~Handled(table, x, at)
    PROVE  PlanTable(new) /\ PlansKept(table, new, n) /\ new[x] = row
  <1>1. DOMAIN new = PlanIds /\ new[x] = row /\ \A y \in PlanIds \ {x} : new[y] = table[y]
    BY DEF PlanTable
  <1>2. PlanTable(new)
    BY <1>1 DEF PlanTable
  <1>3. PlansKept(table, new, n)
    BY <1>1 DEF PlansKept, Handled
  <1>4. QED
    BY <1>1, <1>2, <1>3

\* A row whose next run is computed anew, from any expression.
Timed(row, cron, n) == [row EXCEPT !.next = NextCronRun(cron, n), !.usedCron = cron, !.usedAt = n]

LEMMA RowTimed ==
    ASSUME NEW row, PlanRow(row), NEW n \in Nat, NEW cron
    PROVE  /\ PlanRow(Timed(row, cron, n)) /\ Timed(row, cron, n).next > n
           /\ Timed(row, cron, n).next \in Int /\ Timed(row, cron, n).status = row.status
  <1>1. PICK new : new = [row EXCEPT !.next = NextCronRun(cron, n), !.usedCron = cron, !.usedAt = n]
    OBVIOUS
  <1>2. PICK e \in Nat : e = NextCronRun(cron, n) /\ e > n
    BY NextCronRunLater
  <1>3. e = EarliestMatch(cron, n)
    BY <1>2, SearchIsEarliest
  <1>4. /\ DOMAIN new = PlanFields /\ new.next = e /\ new.usedCron = cron /\ new.usedAt = n
        /\ new.status = row.status
    BY <1>2, <1>1 DEF PlanRow, PlanFields
  <1>5. new = Timed(row, cron, n)
    BY <1>1 DEF Timed
  <1>6. QED
    BY <1>2, <1>3, <1>4, <1>5 DEF PlanRow

LEMMA RowAdvanced ==
    ASSUME NEW table, PlanTable(table), NEW x \in PlanIds, NEW row, PlanRow(row), NEW n \in Nat,
           row.status = "live", \A at \in Nat : at <= n => row.next > at
    PROVE  /\ PlanTable([table EXCEPT ![x] = row])
           /\ PlansKept(table, [table EXCEPT ![x] = row], n)
  <1>1. PICK new : new = [table EXCEPT ![x] = row]
    OBVIOUS
  <1>2. row.status # "none"
    OBVIOUS
  <1>3. PlanTable(new) /\ PlansKept(table, new, n)
    BY <1>1, <1>2, RowPut
  <1>4. QED
    BY <1>1, <1>3

LEMMA MarkedKeeps ==
    ASSUME NEW table, PlanTable(table), now \in Nat, NEW x, NEW cron, NEW new, new = MarkedRun(table, x, cron)
    PROVE  /\ PlanTable(new) /\ PlansKept(table, new, now)
           /\ x \in PlanIds => \A at \in Nat : at <= now => Handled(new, x, at)
  <1>1. CASE x \in LiveRows(table)
    <2>1. x \in PlanIds /\ table[x].status = "live" /\ PlanRow(table[x])
      BY <1>1 DEF LiveRows, PlanTable
    <2>2. PICK row : row = [table[x] EXCEPT !.next = NextCronRun(cron, now), !.usedCron = cron, !.usedAt = now]
      OBVIOUS
    <2>3. PICK n \in Nat : n = now
      OBVIOUS
    <2>4. PlanRow(row) /\ row.next > now /\ row.next \in Int /\ row.status = "live"
      <3>1. row = Timed(table[x], cron, n)
        BY <2>2, <2>3 DEF Timed
      <3>2. PlanRow(row) /\ row.next > n /\ row.next \in Int /\ row.status = table[x].status
        BY <2>1, <3>1, RowTimed
      <3>3. QED
        BY <2>1, <2>3, <3>2
    <2>5. new = [table EXCEPT ![x] = row]
      BY <1>1, <2>1, <2>2 DEF MarkedRun, PlanTable, PlanRow, PlanFields
    <2>6. \A at \in Nat : at <= now => row.next > at
      BY <2>4
    <2>7. PlanTable(new) /\ PlansKept(table, new, now) /\ new[x] = row
      <3>1. \A at \in Nat : at <= n => row.next > at
        BY <2>6, <2>3
      <3>2. PlanTable(new) /\ PlansKept(table, new, n) /\ new[x] = row
        <4>1. PlanRow(row) /\ row.status = "live"
          BY <2>4
        <4>2. PlanTable([table EXCEPT ![x] = row]) /\ PlansKept(table, [table EXCEPT ![x] = row], n)
          BY <2>1, <3>1, <4>1, RowAdvanced
        <4>3. QED
          BY <2>1, <2>5, <4>2 DEF PlanTable
      <3>3. QED
        BY <2>3, <3>2
    <2>8. QED
      BY <2>6, <2>7 DEF Handled
  <1>2. CASE x \notin LiveRows(table)
    <2>1. new = table
      BY <1>2 DEF MarkedRun
    <2>2. x \in PlanIds => table[x].status # "live"
      BY <1>2 DEF LiveRows, PlanTable
    <2>3. QED
      BY <2>1, <2>2, KeepsItself DEF Handled
  <1>3. QED
    BY <1>1, <1>2

LEMMA UnusedIsRow ==
    PlanRow(UnusedPlan) /\ UnusedPlan.status = "none"
  BY DEF PlanRow, UnusedPlan, PlanFields, Never

LEMMA PlansInitInv == PlansInit => PlansInv
  <1> SUFFICES ASSUME PlansInit PROVE PlansInv
    OBVIOUS
  <1>1. PlanTable(configs) /\ PlanTable(schedules) /\ now \in Nat
    BY UnusedIsRow DEF PlansInit, PlanTable
  <1>2. TickInv(planTick, configs, schedules, now)
    <2>1. now = 0 /\ planTick = NoTick
      BY DEF PlansInit
    <2>2. /\ DOMAIN NoTick = TickFields /\ NoTick.listed = {} /\ NoTick.at = 0 /\ NoTick.due = {} /\ NoTick.pc = "idle"
      BY DEF NoTick, TickFields
    <2>3. QED
      BY <2>1, <2>2 DEF TickInv, KindInv, ScheduleSteps
  <1>3. QED
    BY <1>1, <1>2 DEF PlansInv

\* Steps that touch neither table nor the tick.
LEMMA PlansRest ==
    ASSUME PlansInv, UNCHANGED <<configs, schedules, planTick>>, now' \in Nat, now <= now'
    PROVE  PlansInv'
  <1>1. PlanTable(configs') /\ PlanTable(schedules')
    BY DEF PlansInv
  <1>2. PlansKept(configs, configs', now) /\ PlansKept(schedules, schedules', now)
    BY KeepsItself
  <1>3. QED
    BY <1>1, <1>2, TickStands

LEMMA ConfigsStep ==
    ASSUME PlansInv, UNCHANGED <<schedules, planTick, now>>, PlanTable(configs'), PlansKept(configs, configs', now)
    PROVE  PlansInv'
  <1>1. PlanTable(schedules') /\ now' \in Nat /\ now <= now'
    BY DEF PlansInv
  <1>2. PlansKept(schedules, schedules', now)
    BY KeepsItself
  <1>3. QED
    BY <1>1, <1>2, TickStands

LEMMA SchedulesStep ==
    ASSUME PlansInv, UNCHANGED <<configs, planTick, now>>, PlanTable(schedules'), PlansKept(schedules, schedules', now)
    PROVE  PlansInv'
  <1>1. PlanTable(configs') /\ now' \in Nat /\ now <= now'
    BY DEF PlansInv
  <1>2. PlansKept(configs, configs', now)
    BY KeepsItself
  <1>3. QED
    BY <1>1, <1>2, TickStands

LEMMA CreateConfigKeeps == ASSUME PlansInv, CreateConfig PROVE PlansInv'
  <1>1. PICK c \in PlanIds, scope \in PlanScopes, sites \in SUBSET SiteIds,
             p \in PlanProviders \cup {NoProvider}, cron \in CronExprs :
            /\ configs[c] = UnusedPlan
            /\ configs' = [configs EXCEPT ![c] =
                             Scheduled([UnusedPlan EXCEPT !.status = "live", !.scope = scope, !.sites = sites,
                                                      !.provider = p, !.cron = cron, !.enabled = TRUE])]
    BY Zenon DEF CreateConfig
  <1>2. PICK blank : /\ PlanRow(blank) /\ blank.status = "live"
                     /\ configs[c] = UnusedPlan /\ configs' = [configs EXCEPT ![c] = Scheduled(blank)]
    <2>1. PICK row : row = [UnusedPlan EXCEPT !.status = "live", !.scope = scope, !.sites = sites,
                                              !.provider = p, !.cron = cron, !.enabled = TRUE]
      OBVIOUS
    <2>2. PlanRow(row) /\ row.status = "live"
      BY <2>1 DEF PlanRow, UnusedPlan, PlanFields, Never
    <2>3. QED
      BY <1>1, <2>1, <2>2
  <1>3. PICK row : row = Scheduled(blank)
    OBVIOUS
  <1>4. PlanRow(row)
    <2>1. PICK n \in Nat : n = now
      BY DEF PlansInv
    <2>2. PICK key : key = blank.cron
      OBVIOUS
    <2>3. row = Timed(blank, key, n)
      BY <1>3, <2>1, <2>2 DEF Scheduled, Timed
    <2>4. QED
      BY <1>2, <2>3, RowTimed
  <1>5. configs[c].status = "none" /\ PlanTable(configs) /\ now \in Nat
    BY <1>2, UnusedIsRow DEF PlansInv
  <1>6. PlanTable(configs') /\ PlansKept(configs, configs', now)
    BY <1>2, <1>3, <1>4, <1>5, RowPut
  <1>7. QED
    BY <1>6, ConfigsStep DEF CreateConfig

LEMMA WriteConfigKeeps == ASSUME PlansInv, WriteConfig PROVE PlansInv'
  <1>1. PlanTable(configs) /\ now \in Nat
    BY DEF PlansInv
  <1>2. PICK c : c = request.id
    OBVIOUS
  <1>3. CASE c \in LiveRows(configs)
    <2>1. c \in PlanIds /\ configs[c].status = "live" /\ PlanRow(configs[c])
      BY <1>1, <1>3 DEF LiveRows, PlanTable
    <2>2. PICK patched : patched = [configs[c] EXCEPT !.cron = request.cron, !.enabled = request.flag]
      OBVIOUS
    <2>3. PlanRow(patched) /\ patched.status = "live"
      BY <2>1, <2>2 DEF PlanRow, PlanFields
    <2>4. PICK row : row = Scheduled(patched)
      OBVIOUS
    <2>5. PlanRow(row) /\ row.next > now /\ row.next \in Int /\ row.status = "live"
      <3>1. PICK n \in Nat : n = now
        BY <1>1
      <3>2. PICK cron : cron = patched.cron
        OBVIOUS
      <3>3. row = Timed(patched, cron, n)
        BY <2>4, <3>1, <3>2 DEF Scheduled, Timed
      <3>4. QED
        BY <2>3, <3>1, <3>3, RowTimed
    <2>6. configs' = [configs EXCEPT ![c] = row]
      BY <1>2, <1>3, <2>2, <2>4 DEF WriteConfig
    <2>7. \A at \in Nat : at <= now => row.next > at
      BY <1>1, <2>5
    <2>8. PlanTable(configs') /\ PlansKept(configs, configs', now)
      BY <1>1, <2>1, <2>5, <2>6, <2>7, RowPut
    <2>9. QED
      BY <2>8, ConfigsStep DEF WriteConfig
  <1>4. CASE c \notin LiveRows(configs)
    <2>1. configs' = configs
      BY <1>2, <1>4 DEF WriteConfig
    <2>2. QED
      BY <1>1, <2>1, KeepsItself, ConfigsStep DEF WriteConfig
  <1>5. QED
    BY <1>3, <1>4

\* A row that is deleted.
LEMMA RowGone ==
    ASSUME NEW table, PlanTable(table), NEW x \in LiveRows(table), NEW n \in Nat, NEW new,
           new = [table EXCEPT ![x].status = "gone"]
    PROVE  PlanTable(new) /\ PlansKept(table, new, n)
  <1>1. x \in PlanIds /\ PlanRow(table[x])
    BY DEF LiveRows, PlanTable
  <1>2. PICK row : row = [table[x] EXCEPT !.status = "gone"]
    OBVIOUS
  <1>3. PlanRow(row) /\ row.status = "gone"
    BY <1>1, <1>2 DEF PlanRow, PlanFields
  <1>4. new = [table EXCEPT ![x] = row]
    BY <1>2
  <1>5. QED
    BY <1>1, <1>3, <1>4, RowPut

LEMMA DeleteConfigKeeps == ASSUME PlansInv, DeleteConfig PROVE PlansInv'
  <1>1. PICK c \in LiveRows(configs) : configs' = [configs EXCEPT ![c].status = "gone"]
    BY DEF DeleteConfig
  <1>2. PlanTable(configs') /\ PlansKept(configs, configs', now)
    BY <1>1, RowGone DEF PlansInv
  <1>3. QED
    BY <1>2, ConfigsStep DEF DeleteConfig

LEMMA RunConfigWriteKeeps == ASSUME PlansInv, RunConfigWrite PROVE PlansInv'
  <1>1. PICK x, cron : x = request.id /\ cron = request.cron
    OBVIOUS
  <1>2. configs' = MarkedRun(configs, x, cron)
    BY <1>1 DEF RunConfigWrite
  <1>3. PlanTable(configs') /\ PlansKept(configs, configs', now)
    BY <1>2, MarkedKeeps DEF PlansInv
  <1>4. QED
    BY <1>3, ConfigsStep DEF RunConfigWrite

LEMMA CreateScheduleKeeps == ASSUME PlansInv, CreateSchedule PROVE PlansInv'
  <1>1. PICK c \in PlanIds, scope \in PlanScopes, s \in SiteIds, cron \in CronExprs :
            /\ schedules[c] = UnusedPlan /\ site[s].status # "gone"
            /\ schedules' = [schedules EXCEPT ![c] =
                               [UnusedPlan EXCEPT !.status = "live", !.scope = scope, !.sites = {s},
                                              !.cron = cron, !.enabled = TRUE]]
    BY Zenon DEF CreateSchedule
  <1>2. PICK row : row = [UnusedPlan EXCEPT !.status = "live", !.scope = scope, !.sites = {s},
                                            !.cron = cron, !.enabled = TRUE]
    OBVIOUS
  <1>3. PlanRow(row)
    BY <1>2 DEF PlanRow, UnusedPlan, PlanFields, Never
  <1>4. schedules[c].status = "none" /\ PlanTable(schedules) /\ now \in Nat
    BY <1>1, UnusedIsRow DEF PlansInv
  <1>5. PlanTable(schedules') /\ PlansKept(schedules, schedules', now)
    <2>1. schedules' = [schedules EXCEPT ![c] = row]
      BY <1>1, <1>2
    <2>2. QED
      BY <1>3, <1>4, <2>1, RowPut
  <1>6. QED
    BY <1>5, SchedulesStep DEF CreateSchedule

\* The times of a schedule stay when it is patched.
LEMMA WriteScheduleKeeps == ASSUME PlansInv, WriteSchedule PROVE PlansInv'
  <1>1. PlanTable(schedules) /\ now \in Nat
    BY DEF PlansInv
  <1>2. PICK c : c = request.id
    OBVIOUS
  <1>3. CASE c \in LiveRows(schedules)
    <2>1. c \in PlanIds /\ schedules[c].status = "live" /\ PlanRow(schedules[c])
      BY <1>1, <1>3 DEF LiveRows, PlanTable
    <2>2. PICK row : row = [schedules[c] EXCEPT !.cron = request.cron, !.enabled = request.flag]
      OBVIOUS
    <2>3. PlanRow(row) /\ row.status = "live" /\ row.next = schedules[c].next
      BY <2>1, <2>2 DEF PlanRow, PlanFields
    <2>4. schedules' = [schedules EXCEPT ![c] = row]
      BY <1>1, <1>2, <1>3, <2>1, <2>2 DEF WriteSchedule, PlanTable, PlanRow, PlanFields
    <2>5. PlanTable(schedules') /\ PlansKept(schedules, schedules', now)
      BY <1>1, <2>1, <2>3, <2>4, RowPut DEF Handled
    <2>6. QED
      BY <2>5, SchedulesStep DEF WriteSchedule
  <1>4. CASE c \notin LiveRows(schedules)
    <2>1. schedules' = schedules
      BY <1>2, <1>4 DEF WriteSchedule
    <2>2. QED
      BY <1>1, <2>1, KeepsItself, SchedulesStep DEF WriteSchedule
  <1>5. QED
    BY <1>3, <1>4

LEMMA DeleteScheduleKeeps == ASSUME PlansInv, DeleteSchedule PROVE PlansInv'
  <1>1. PICK c \in LiveRows(schedules) : schedules' = [schedules EXCEPT ![c].status = "gone"]
    BY DEF DeleteSchedule
  <1>2. PlanTable(schedules') /\ PlansKept(schedules, schedules', now)
    BY <1>1, RowGone DEF PlansInv
  <1>3. QED
    BY <1>2, SchedulesStep DEF DeleteSchedule

LEMMA DeleteSiteKeeps == ASSUME PlansInv, DeleteSite PROVE PlansInv'
  <1>1. PICK s : schedules' = [x \in PlanIds |-> IF x \in LiveRows(schedules) /\ schedules[x].sites = {s}
                                                 THEN [schedules[x] EXCEPT !.status = "gone"] ELSE schedules[x]]
    BY DEF DeleteSite
  <1>2. ASSUME NEW x \in PlanIds
        PROVE  PlanRow(schedules'[x]) /\ (schedules'[x] = schedules[x] \/ schedules'[x].status = "gone")
    <2>1. PlanRow(schedules[x])
      BY DEF PlansInv, PlanTable
    <2>2. PICK row : row = [schedules[x] EXCEPT !.status = "gone"]
      OBVIOUS
    <2>3. PlanRow(row) /\ row.status = "gone"
      BY <2>1, <2>2 DEF PlanRow, PlanFields
    <2>4. schedules'[x] = row \/ schedules'[x] = schedules[x]
      BY <1>1, <2>2
    <2>5. QED
      BY <2>1, <2>3, <2>4
  <1>3. PlanTable(schedules')
    BY <1>1, <1>2 DEF PlanTable
  <1>4. PlansKept(schedules, schedules', now)
    BY <1>2 DEF PlansKept, Handled
  <1>5. QED
    BY <1>3, <1>4, SchedulesStep DEF DeleteSite


-----------------------------------------------------------------------------
(* The steps of the tick *)

LEMMA TickMoves ==
    ASSUME PlansInv, UNCHANGED <<configs, schedules, now>>, NEW tick, planTick' = tick,
           TickInv(tick, configs, schedules, now)
    PROVE  PlansInv'
  BY DEF PlansInv

LEMMA DuePlans ==
    ASSUME PlansInv
    PROVE  /\ \A s \in DueSchedules : s \in PlanIds /\ schedules[s].status # "none"
           /\ \A c \in DueConfigs : c \in PlanIds /\ configs[c].status # "none"
  BY DEF PlansInv, PlanTable, DueSchedules, DueConfigs, LiveRows

LEMMA TickStartKeeps == ASSUME PlansInv, TickStart PROVE PlansInv'
  <1>1. PICK tick : tick = planTick'
    OBVIOUS
  <1>2. PICK due : due = DueSchedules
    OBVIOUS
  <1>3. /\ DOMAIN tick = TickFields /\ tick.pc = "schedules" /\ tick.due = due /\ tick.at = now
        /\ tick.listed = {<<"schedule", s>> : s \in due}
    BY <1>1, <1>2 DEF TickStart, NoTick, TickFields
  <1>4. \A s \in due : s \in PlanIds /\ schedules[s].status # "none"
    BY <1>2, DuePlans
  <1>5. \A x : <<"config", x>> \notin tick.listed
    BY <1>3
  <1>6. KindInv(tick, "config", configs, ConfigSteps, "configs")
    BY <1>5 DEF KindInv
  <1>7. \A x : <<"schedule", x>> \in tick.listed => x \in due
    BY <1>3
  <1>8. KindInv(tick, "schedule", schedules, ScheduleSteps, "schedules")
    BY <1>3, <1>4, <1>7 DEF KindInv, ScheduleSteps
  <1>9. \A d \in tick.listed : \E x : d = <<"schedule", x>> \/ d = <<"config", x>>
    BY <1>3
  <1>10. TickInv(tick, configs, schedules, now)
    <2>1. tick.at \in Nat /\ tick.at <= now
      BY <1>3 DEF PlansInv
    <2>2. tick.due \in SUBSET PlanIds
      BY <1>3, <1>4
    <2>3. QED
      BY <1>3, <1>5, <1>6, <1>8, <1>9, <2>1, <2>2 DEF TickInv, ScheduleSteps
  <1>11. QED
    BY <1>1, <1>10, TickMoves DEF TickStart

LEMMA ProcessScheduleKeeps == ASSUME PlansInv, ProcessSchedule PROVE PlansInv'
  <1>1. PICK old, tick : old = planTick /\ tick = planTick'
    OBVIOUS
  <1>2. TickInv(old, configs, schedules, now) /\ old.pc = "schedules"
    BY <1>1 DEF PlansInv, ProcessSchedule
  <1>3. PICK x \in old.due, fails \in BOOLEAN :
            tick = [old EXCEPT !.due = @ \ {x}, !.cur = x,
                               !.pc = IF fails THEN "schedules" ELSE "mark schedule",
                               !.failed = IF fails THEN @ \cup {<<"schedule", x>>} ELSE @]
    <2>1. PICK x \in planTick.due :
            LET row == schedules[x]
                s == CHOOSE y \in row.sites : TRUE
                fails == site[s].status = "gone" \/ Duplicate(s, row.scope)
            IN  planTick' = [planTick EXCEPT !.due = @ \ {x}, !.cur = x,
                                 !.pc = IF fails THEN "schedules" ELSE "mark schedule",
                                 !.failed = IF fails THEN @ \cup {<<"schedule", x>>} ELSE @]
      BY DEF ProcessSchedule
    <2>2. PICK s : s = CHOOSE y \in schedules[x].sites : TRUE
      OBVIOUS
    <2>3. PICK fails \in BOOLEAN : fails <=> site[s].status = "gone" \/ Duplicate(s, schedules[x].scope)
      OBVIOUS
    <2>4. planTick' = [planTick EXCEPT !.due = @ \ {x}, !.cur = x,
                                 !.pc = IF fails THEN "schedules" ELSE "mark schedule",
                                 !.failed = IF fails THEN @ \cup {<<"schedule", x>>} ELSE @]
      BY <2>1, <2>2, <2>3
    <2>5. QED
      BY <1>1, <2>4
  <1>4. /\ DOMAIN tick = TickFields /\ tick.due = old.due \ {x} /\ tick.cur = x
        /\ tick.pc = IF fails THEN "schedules" ELSE "mark schedule"
        /\ tick.failed = IF fails THEN old.failed \cup {<<"schedule", x>>} ELSE old.failed
        /\ tick.listed = old.listed /\ tick.at = old.at
    BY <1>2, <1>3 DEF TickInv, TickFields
  <1>5. \A y : <<"config", y>> \notin tick.listed
    BY <1>2, <1>4 DEF TickInv, ScheduleSteps
  <1>6. KindInv(tick, "config", configs, ConfigSteps, "configs")
    BY <1>5 DEF KindInv
  <1>7. KindInv(tick, "schedule", schedules, ScheduleSteps, "schedules")
    <2>1. SUFFICES ASSUME NEW y, <<"schedule", y>> \in tick.listed
                   PROVE  /\ y \in PlanIds /\ schedules[y].status # "none"
                          /\ \/ <<"schedule", y>> \in tick.failed \/ Handled(schedules, y, tick.at)
                             \/ tick.pc \in ScheduleSteps /\ (y \in tick.due \/ (tick.pc # "schedules" /\ y = tick.cur))
      BY DEF KindInv
    <2>2. /\ y \in PlanIds /\ schedules[y].status # "none"
          /\ <<"schedule", y>> \in old.failed \/ Handled(schedules, y, old.at) \/ y \in old.due
      BY <1>2, <1>4, <2>1 DEF TickInv, KindInv
    <2>3. QED
      BY <1>4, <2>2 DEF ScheduleSteps
  <1>8. TickInv(tick, configs, schedules, now)
    BY <1>2, <1>4, <1>5, <1>6, <1>7 DEF TickInv, ScheduleSteps
  <1>9. QED
    BY <1>1, <1>8, TickMoves DEF ProcessSchedule

\* A schedule that is gone when its run is to be noted needs no new time.
LEMMA MarkScheduleKeeps == ASSUME PlansInv, MarkSchedule PROVE PlansInv'
  <1>1. PICK old, tick : old = planTick /\ tick = planTick'
    OBVIOUS
  <1>2. TickInv(old, configs, schedules, now) /\ old.pc = "mark schedule"
    BY <1>1 DEF PlansInv, MarkSchedule
  <1>3. /\ DOMAIN tick = TickFields /\ tick.due = old.due /\ tick.cur = old.cur
        /\ tick.failed = old.failed /\ tick.listed = old.listed /\ tick.at = old.at
        /\ tick.pc = IF old.cur \in LiveRows(schedules) THEN "write schedule" ELSE "schedules"
    BY <1>1, <1>2 DEF TickInv, TickFields, MarkSchedule
  <1>4. \A y : <<"config", y>> \notin tick.listed
    BY <1>2, <1>3 DEF TickInv, ScheduleSteps
  <1>5. KindInv(tick, "config", configs, ConfigSteps, "configs")
    BY <1>4 DEF KindInv
  <1>6. KindInv(tick, "schedule", schedules, ScheduleSteps, "schedules")
    <2>1. SUFFICES ASSUME NEW y, <<"schedule", y>> \in tick.listed
                   PROVE  /\ y \in PlanIds /\ schedules[y].status # "none"
                          /\ \/ <<"schedule", y>> \in tick.failed \/ Handled(schedules, y, tick.at)
                             \/ tick.pc \in ScheduleSteps /\ (y \in tick.due \/ (tick.pc # "schedules" /\ y = tick.cur))
      BY DEF KindInv
    <2>2. /\ y \in PlanIds /\ schedules[y].status # "none"
          /\ <<"schedule", y>> \in old.failed \/ Handled(schedules, y, old.at) \/ y \in old.due \/ y = old.cur
      BY <1>2, <1>3, <2>1 DEF TickInv, KindInv
    <2>3. y = old.cur /\ old.cur \notin LiveRows(schedules) => Handled(schedules, y, old.at)
      BY <2>2 DEF Handled, LiveRows, PlansInv, PlanTable
    <2>4. QED
      BY <1>3, <2>2, <2>3 DEF ScheduleSteps
  <1>7. TickInv(tick, configs, schedules, now)
    BY <1>2, <1>3, <1>4, <1>5, <1>6 DEF TickInv, ScheduleSteps
  <1>8. QED
    BY <1>1, <1>7, TickMoves DEF MarkSchedule

LEMMA WriteScheduleRunKeeps == ASSUME PlansInv, WriteScheduleRun PROVE PlansInv'
  <1>1. PICK old, tick : old = planTick /\ tick = planTick'
    OBVIOUS
  <1>2. TickInv(old, configs, schedules, now) /\ old.pc = "write schedule" /\ now \in Nat /\ old.at \in Nat /\ old.at <= now
    BY <1>1 DEF PlansInv, WriteScheduleRun, TickInv
  <1>3. /\ DOMAIN tick = TickFields /\ tick.due = old.due /\ tick.cur = old.cur
        /\ tick.failed = old.failed /\ tick.listed = old.listed /\ tick.at = old.at
        /\ tick.pc = "schedules"
    BY <1>1, <1>2 DEF TickInv, TickFields, WriteScheduleRun
  <1>4. PICK new, x, cron : new = schedules' /\ x = old.cur /\ cron = old.cron
    OBVIOUS
  <1>5. new = MarkedRun(schedules, x, cron)
    BY <1>1, <1>4 DEF WriteScheduleRun
  <1>6. /\ PlanTable(new) /\ PlansKept(schedules, new, now)
        /\ x \in PlanIds => \A at \in Nat : at <= now => Handled(new, x, at)
    BY <1>5, MarkedKeeps DEF PlansInv
  <1>7. \A y : <<"config", y>> \notin tick.listed
    BY <1>2, <1>3 DEF TickInv, ScheduleSteps
  <1>8. KindInv(tick, "config", configs, ConfigSteps, "configs")
    BY <1>7 DEF KindInv
  <1>9. KindInv(tick, "schedule", new, ScheduleSteps, "schedules")
    <2>1. SUFFICES ASSUME NEW y, <<"schedule", y>> \in tick.listed
                   PROVE  /\ y \in PlanIds /\ new[y].status # "none"
                          /\ \/ <<"schedule", y>> \in tick.failed \/ Handled(new, y, tick.at)
                             \/ tick.pc \in ScheduleSteps /\ (y \in tick.due \/ (tick.pc # "schedules" /\ y = tick.cur))
      BY DEF KindInv
    <2>2. /\ y \in PlanIds /\ schedules[y].status # "none"
          /\ <<"schedule", y>> \in old.failed \/ Handled(schedules, y, old.at) \/ y \in old.due \/ y = old.cur
      BY <1>2, <1>3, <2>1 DEF TickInv, KindInv
    <2>3. new[y].status # "none" /\ (Handled(schedules, y, old.at) => Handled(new, y, old.at))
      BY <1>2, <1>6, <2>2 DEF PlansKept
    <2>4. y = old.cur => Handled(new, y, old.at)
      BY <1>2, <1>4, <1>6, <2>2
    <2>5. QED
      BY <1>3, <2>2, <2>3, <2>4 DEF ScheduleSteps
  <1>10. TickInv(tick, configs, new, now)
    BY <1>2, <1>3, <1>7, <1>8, <1>9 DEF TickInv, ScheduleSteps
  <1>11. QED
    BY <1>1, <1>4, <1>6, <1>10 DEF WriteScheduleRun, PlansInv

LEMMA SchedulesDoneKeeps == ASSUME PlansInv, SchedulesDone PROVE PlansInv'
  <1>1. PICK old, tick, due : old = planTick /\ tick = planTick' /\ due = DueConfigs
    OBVIOUS
  <1>2. TickInv(old, configs, schedules, now) /\ old.pc = "schedules" /\ old.due = {}
    BY <1>1 DEF PlansInv, SchedulesDone
  <1>3. /\ DOMAIN tick = TickFields /\ tick.due = due
        /\ tick.failed = old.failed /\ tick.listed = old.listed \cup {<<"config", c>> : c \in due}
        /\ tick.at = old.at /\ tick.pc = "configs"
    BY <1>1, <1>2 DEF TickInv, TickFields, SchedulesDone
  <1>4. \A c \in due : c \in PlanIds /\ configs[c].status # "none"
    BY <1>1, DuePlans
  <1>5. \A y : <<"config", y>> \notin old.listed
    BY <1>2 DEF TickInv, ScheduleSteps
  <1>6. KindInv(tick, "config", configs, ConfigSteps, "configs")
    <2>1. \A y : <<"config", y>> \in tick.listed => y \in due
      BY <1>3, <1>5
    <2>2. QED
      BY <1>3, <1>4, <2>1 DEF KindInv, ConfigSteps
  <1>7. KindInv(tick, "schedule", schedules, ScheduleSteps, "schedules")
    <2>1. \A y : <<"schedule", y>> \in tick.listed => <<"schedule", y>> \in old.listed
      BY <1>3
    <2>2. QED
      BY <1>2, <1>3, <2>1 DEF TickInv, KindInv
  <1>8. \A d \in tick.listed : \E y : d = <<"schedule", y>> \/ d = <<"config", y>>
    BY <1>2, <1>3 DEF TickInv
  <1>9. TickInv(tick, configs, schedules, now)
    BY <1>2, <1>3, <1>4, <1>6, <1>7, <1>8 DEF TickInv, ScheduleSteps, ConfigSteps
  <1>10. QED
    BY <1>1, <1>9, TickMoves DEF SchedulesDone

\* From a configuration step to another, the schedules are all handled.
LEMMA SchedulesOver ==
    ASSUME NEW old, NEW tick, NEW table, KindInv(old, "schedule", table, ScheduleSteps, "schedules"),
           old.pc \notin ScheduleSteps, tick.listed = old.listed, tick.at = old.at,
           \A y : <<"schedule", y>> \in old.failed => <<"schedule", y>> \in tick.failed
    PROVE  KindInv(tick, "schedule", table, ScheduleSteps, "schedules")
  BY DEF KindInv

LEMMA ProcessConfigKeeps == ASSUME PlansInv, ProcessConfig PROVE PlansInv'
  <1>1. PICK old, tick : old = planTick /\ tick = planTick'
    OBVIOUS
  <1>2. TickInv(old, configs, schedules, now) /\ old.pc = "configs"
    BY <1>1 DEF PlansInv, ProcessConfig
  <1>3. PICK c \in old.due :
          \/ tick = [old EXCEPT !.due = @ \ {c}, !.failed = @ \cup {<<"config", c>>}]
          \/ tick = [old EXCEPT !.due = @ \ {c}, !.cur = c, !.pc = "sites", !.scope = configs[c].scope,
                            !.storage = IF configs[c].provider # NoProvider
                                        THEN GetByID(configs[c].provider) ELSE GetDefault,
                            !.todo = ResolveSites(configs[c])]
    BY <1>1 DEF ProcessConfig
  <1>4. /\ DOMAIN tick = TickFields /\ tick.due = old.due \ {c}
        /\ tick.listed = old.listed /\ tick.at = old.at
        /\ \/ tick.pc = "configs" /\ tick.failed = old.failed \cup {<<"config", c>>}
           \/ tick.pc = "sites" /\ tick.cur = c /\ tick.failed = old.failed
    BY <1>2, <1>3 DEF TickInv, TickFields
  <1>5. KindInv(tick, "config", configs, ConfigSteps, "configs")
    <2>1. SUFFICES ASSUME NEW y, <<"config", y>> \in tick.listed
                   PROVE  /\ y \in PlanIds /\ configs[y].status # "none"
                          /\ \/ <<"config", y>> \in tick.failed \/ Handled(configs, y, tick.at)
                             \/ tick.pc \in ConfigSteps /\ (y \in tick.due \/ (tick.pc # "configs" /\ y = tick.cur))
      BY DEF KindInv
    <2>2. /\ y \in PlanIds /\ configs[y].status # "none"
          /\ <<"config", y>> \in old.failed \/ Handled(configs, y, old.at) \/ y \in old.due
      BY <1>2, <1>4, <2>1 DEF TickInv, KindInv
    <2>3. QED
      BY <1>4, <2>2 DEF ConfigSteps
  <1>6. KindInv(tick, "schedule", schedules, ScheduleSteps, "schedules")
    BY <1>2, <1>4, SchedulesOver DEF TickInv, ScheduleSteps
  <1>7. TickInv(tick, configs, schedules, now)
    BY <1>2, <1>4, <1>5, <1>6 DEF TickInv, ScheduleSteps, ConfigSteps
  <1>8. QED
    BY <1>1, <1>7, TickMoves DEF ProcessConfig

LEMMA ProcessConfigSiteKeeps == ASSUME PlansInv, ProcessConfigSite PROVE PlansInv'
  <1>1. PICK old, tick : old = planTick /\ tick = planTick'
    OBVIOUS
  <1>2. TickInv(old, configs, schedules, now) /\ old.pc = "sites"
    BY <1>1 DEF PlansInv, ProcessConfigSite
  <1>3. \/ tick = [old EXCEPT !.pc = "mark config", !.scope = "files", !.storage = NoProvider]
        \/ \E s \in old.todo : tick = [old EXCEPT !.todo = @ \ {s}]
    BY <1>1 DEF ProcessConfigSite
  <1>4. /\ DOMAIN tick = TickFields /\ tick.due = old.due /\ tick.cur = old.cur /\ tick.failed = old.failed
        /\ tick.listed = old.listed /\ tick.at = old.at /\ tick.pc \in {"sites", "mark config"}
    BY <1>2, <1>3 DEF TickInv, TickFields
  <1>5. KindInv(tick, "config", configs, ConfigSteps, "configs")
    BY <1>2, <1>4 DEF TickInv, KindInv, ConfigSteps
  <1>6. KindInv(tick, "schedule", schedules, ScheduleSteps, "schedules")
    BY <1>2, <1>4, SchedulesOver DEF TickInv, ScheduleSteps
  <1>7. TickInv(tick, configs, schedules, now)
    BY <1>2, <1>4, <1>5, <1>6 DEF TickInv, ScheduleSteps, ConfigSteps
  <1>8. QED
    BY <1>1, <1>7, TickMoves DEF ProcessConfigSite

LEMMA MarkConfigKeeps == ASSUME PlansInv, MarkConfig PROVE PlansInv'
  <1>1. PICK old, tick : old = planTick /\ tick = planTick'
    OBVIOUS
  <1>2. TickInv(old, configs, schedules, now) /\ old.pc = "mark config"
    BY <1>1 DEF PlansInv, MarkConfig
  <1>3. /\ DOMAIN tick = TickFields /\ tick.due = old.due /\ tick.cur = old.cur
        /\ tick.failed = old.failed /\ tick.listed = old.listed /\ tick.at = old.at
        /\ tick.pc = IF old.cur \in LiveRows(configs) THEN "write config" ELSE "configs"
    BY <1>1, <1>2 DEF TickInv, TickFields, MarkConfig
  <1>4. KindInv(tick, "schedule", schedules, ScheduleSteps, "schedules")
    BY <1>2, <1>3, SchedulesOver DEF TickInv, ScheduleSteps
  <1>5. KindInv(tick, "config", configs, ConfigSteps, "configs")
    <2>1. SUFFICES ASSUME NEW y, <<"config", y>> \in tick.listed
                   PROVE  /\ y \in PlanIds /\ configs[y].status # "none"
                          /\ \/ <<"config", y>> \in tick.failed \/ Handled(configs, y, tick.at)
                             \/ tick.pc \in ConfigSteps /\ (y \in tick.due \/ (tick.pc # "configs" /\ y = tick.cur))
      BY DEF KindInv
    <2>2. /\ y \in PlanIds /\ configs[y].status # "none"
          /\ <<"config", y>> \in old.failed \/ Handled(configs, y, old.at) \/ y \in old.due \/ y = old.cur
      BY <1>2, <1>3, <2>1 DEF TickInv, KindInv
    <2>3. y = old.cur /\ old.cur \notin LiveRows(configs) => Handled(configs, y, old.at)
      BY <2>2 DEF Handled, LiveRows, PlansInv, PlanTable
    <2>4. QED
      BY <1>3, <2>2, <2>3 DEF ConfigSteps
  <1>6. TickInv(tick, configs, schedules, now)
    BY <1>2, <1>3, <1>4, <1>5 DEF TickInv, ScheduleSteps, ConfigSteps
  <1>7. QED
    BY <1>1, <1>6, TickMoves DEF MarkConfig

LEMMA WriteConfigRunKeeps == ASSUME PlansInv, WriteConfigRun PROVE PlansInv'
  <1>1. PICK old, tick : old = planTick /\ tick = planTick'
    OBVIOUS
  <1>2. TickInv(old, configs, schedules, now) /\ old.pc = "write config" /\ now \in Nat /\ old.at \in Nat /\ old.at <= now
    BY <1>1 DEF PlansInv, WriteConfigRun, TickInv
  <1>3. /\ DOMAIN tick = TickFields /\ tick.due = old.due /\ tick.cur = old.cur
        /\ tick.failed = old.failed /\ tick.listed = old.listed /\ tick.at = old.at
        /\ tick.pc = "configs"
    BY <1>1, <1>2 DEF TickInv, TickFields, WriteConfigRun
  <1>4. PICK new, x, cron : new = configs' /\ x = old.cur /\ cron = old.cron
    OBVIOUS
  <1>5. new = MarkedRun(configs, x, cron)
    BY <1>1, <1>4 DEF WriteConfigRun
  <1>6. /\ PlanTable(new) /\ PlansKept(configs, new, now)
        /\ x \in PlanIds => \A at \in Nat : at <= now => Handled(new, x, at)
    BY <1>5, MarkedKeeps DEF PlansInv
  <1>7. KindInv(tick, "schedule", schedules, ScheduleSteps, "schedules")
    BY <1>2, <1>3, SchedulesOver DEF TickInv, ScheduleSteps
  <1>8. KindInv(tick, "config", new, ConfigSteps, "configs")
    <2>1. SUFFICES ASSUME NEW y, <<"config", y>> \in tick.listed
                   PROVE  /\ y \in PlanIds /\ new[y].status # "none"
                          /\ \/ <<"config", y>> \in tick.failed \/ Handled(new, y, tick.at)
                             \/ tick.pc \in ConfigSteps /\ (y \in tick.due \/ (tick.pc # "configs" /\ y = tick.cur))
      BY DEF KindInv
    <2>2. /\ y \in PlanIds /\ configs[y].status # "none"
          /\ <<"config", y>> \in old.failed \/ Handled(configs, y, old.at) \/ y \in old.due \/ y = old.cur
      BY <1>2, <1>3, <2>1 DEF TickInv, KindInv
    <2>3. new[y].status # "none" /\ (Handled(configs, y, old.at) => Handled(new, y, old.at))
      BY <1>2, <1>6, <2>2 DEF PlansKept
    <2>4. y = old.cur => Handled(new, y, old.at)
      BY <1>2, <1>4, <1>6, <2>2
    <2>5. QED
      BY <1>3, <2>2, <2>3, <2>4 DEF ConfigSteps
  <1>9. TickInv(tick, new, schedules, now)
    BY <1>2, <1>3, <1>7, <1>8 DEF TickInv, ScheduleSteps, ConfigSteps
  <1>10. QED
    BY <1>1, <1>4, <1>6, <1>9 DEF WriteConfigRun, PlansInv

LEMMA TickEndKeeps == ASSUME PlansInv, TickEnd PROVE PlansInv'
  <1>1. PICK tick : tick = planTick'
    OBVIOUS
  <1>2. DOMAIN tick = TickFields /\ tick.listed = {} /\ tick.at = 0 /\ tick.due = {} /\ tick.pc = "idle"
    BY <1>1 DEF TickEnd, NoTick, TickFields
  <1>3. TickInv(tick, configs, schedules, now)
    <2>1. tick.at \in Nat /\ tick.at <= now
      BY <1>2 DEF PlansInv
    <2>2. QED
      BY <1>2, <2>1 DEF TickInv, KindInv, ScheduleSteps
  <1>4. QED
    BY <1>1, <1>3, TickMoves DEF TickEnd

LEMMA PlansNextInv == PlansInv /\ [PlansNext]_planVars => PlansInv'
  <1> SUFFICES ASSUME PlansInv, [PlansNext]_planVars PROVE PlansInv'
    OBVIOUS
  <1>1. now \in Nat /\ now <= now
    BY DEF PlansInv
  <1>2. CASE UNCHANGED planVars \/ UpdateConfig \/ UpdateSchedule \/ RunConfig \/ RunConfigSite \/ RunConfigMark
             \/ CreateProvider \/ InsertProvider \/ UpdateProvider \/ WriteProvider \/ DeleteProvider
             \/ Settle \/ SetSiteProvider
    <2>1. UNCHANGED <<configs, schedules, planTick, now>>
      BY <1>2 DEF planVars, UpdateConfig, UpdateSchedule, RunConfig, RunConfigSite, RunConfigMark,
            CreateProvider, InsertProvider, UpdateProvider, WriteProvider, DeleteProvider, Settle, SetSiteProvider
    <2>2. QED
      BY <1>1, <2>1, PlansRest
  <1>3. CASE Clock
    BY <1>1, <1>3, PlansRest DEF Clock
  <1>4. QED
    BY <1>2, <1>3, CreateConfigKeeps, WriteConfigKeeps, DeleteConfigKeeps, RunConfigWriteKeeps,
       CreateScheduleKeeps, WriteScheduleKeeps, DeleteScheduleKeeps, DeleteSiteKeeps,
       TickStartKeeps, ProcessScheduleKeeps, MarkScheduleKeeps, WriteScheduleRunKeeps, SchedulesDoneKeeps,
       ProcessConfigKeeps, ProcessConfigSiteKeeps, MarkConfigKeeps, WriteConfigRunKeeps, TickEndKeeps
       DEF PlansNext

LEMMA PlansInvariant == PlansSpec => []PlansInv
  BY PlansInitInv, PlansNextInv, PTL DEF PlansSpec

\* A tick of runTick leaves nothing behind: every schedule and configuration that
\* it listed as due and did not give up has a next run after the tick's start or is
\* deleted, whatever requests patched, ran or deleted meanwhile, for every number
\* of plans and every calendar.
THEOREM TickHandlesDueHolds == PlansSpec => []TickHandlesDue
  <1>1. ASSUME PlansInv PROVE TickHandlesDue
    <2>1. PICK tick : tick = planTick
      OBVIOUS
    <2>2. TickInv(tick, configs, schedules, now)
      BY <1>1, <2>1 DEF PlansInv
    <2>3. SUFFICES ASSUME tick.pc = "configs", tick.due = {}, NEW d \in tick.listed \ tick.failed
                   PROVE  LET table == IF d[1] = "config" THEN configs ELSE schedules
                          IN  d[2] \in LiveRows(table) => table[d[2]].next > tick.at
      BY <2>1 DEF TickHandlesDue
    <2>4. PICK x : d = <<"schedule", x>> \/ d = <<"config", x>>
      BY <2>2, <2>3 DEF TickInv
    <2>5. CASE d = <<"schedule", x>>
      <3>1. Handled(schedules, x, tick.at)
        BY <2>2, <2>3, <2>5 DEF TickInv, KindInv, ScheduleSteps
      <3>2. QED
        BY <2>5, <3>1 DEF Handled, LiveRows
    <2>6. CASE d = <<"config", x>>
      <3>1. Handled(configs, x, tick.at)
        BY <2>2, <2>3, <2>6 DEF TickInv, KindInv, ConfigSteps
      <3>2. QED
        BY <2>6, <3>1 DEF Handled, LiveRows
    <2>7. QED
      BY <2>4, <2>5, <2>6
  <1>2. QED
    BY <1>1, PlansInvariant, PTL

\* next_run_at is the first minute after its computation that the expression
\* names: NextCronRun's jumps over months and days skip no match, its limit of
\* rounds cuts none off, and what Create, Update and MarkRun store stays the result
\* of one computation, for every expression, minute, calendar and number of plans.
THEOREM NextRunIsEarliestHolds == PlansSpec => []NextRunIsEarliest
  <1>1. ASSUME PlansInv PROVE NextRunIsEarliest
    <2>1. ASSUME NEW table, PlanTable(table), NEW x \in LiveRows(table), table[x].next # Never
          PROVE  table[x].next = EarliestMatch(table[x].usedCron, table[x].usedAt)
      BY <2>1 DEF PlanTable, PlanRow, LiveRows
    <2>2. ASSUME NEW cron, NEW t \in 0..(YearLength * Week)
          PROVE  NextCronRun(cron, t) = EarliestMatch(cron, t)
      <3>1. t \in Nat
        <4>1. PICK m \in Nat : m = YearLength * Week
          BY Calendar, PlansAssumption, ProductNat
        <4>2. QED
          BY <4>1
      <3>2. QED
        BY <3>1, SearchIsEarliest
    <2>3. QED
      BY <1>1, <2>1, <2>2 DEF NextRunIsEarliest, PlansInv
  <1>2. QED
    BY <1>1, PlansInvariant, PTL

=============================================================================
