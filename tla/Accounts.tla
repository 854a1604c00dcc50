------------------------------ MODULE Accounts ------------------------------
(***************************************************************************)
(* The panel's accounts: users and their roles, the sites they own or are  *)
(* assigned, service tokens, plans and orders.  The handlers are those of  *)
(* internal/apihttp (users, user_sites, service_tokens, plans, orders,     *)
(* impersonate and the quota check of sites), behind RequireAuth and       *)
(* RequireRole of middleware.go; each SQL statement of internal/store is   *)
(* one step, so the requests interleave between any two statements.        *)
(*                                                                         *)
(* SQLite enforces the foreign keys: a statement that would leave a        *)
(* reference to a missing row fails and the handler answers with an error. *)
(***************************************************************************)
EXTENDS Integers, FiniteSets

CONSTANTS
    MaxUsers,    \* bound: users ever inserted; 1, 2 and 3 exist from the start
    Sites,       \* site ids
    Tokens,      \* service tokens
    Plans,       \* plan ids
    Orders,      \* order ids
    Requests,    \* API requests under way at the same time
    Workloads    \* bound: the mixes of requests that arrive, how many of each operation

Ops == {"create", "delete", "update", "impersonate", "site", "order", "approve",
        "assignPlan", "newPlan", "plan", "deletePlan", "assign", "unassign", "permission",
        "token", "revoke"}

ASSUME AccountsAssumption ==
    /\ MaxUsers \in Nat /\ MaxUsers >= 3
    /\ Sites # {} /\ IsFiniteSet(Sites) /\ Requests # {} /\ IsFiniteSet(Requests)
    /\ \A w \in Workloads : DOMAIN w \subseteq Ops /\ \A op \in DOMAIN w : w[op] \in Nat

VARIABLES
    load,      \* the requests that are still to arrive
    users,     \* the users table
    owner,     \* sites.owner_id: 0 is NULL, Unused a site not created yet
    grants,    \* user_sites: the permission of a user on a site
    tokens,    \* service_tokens
    plans,     \* plans
    orders,    \* license_orders
    audited,   \* users that some row of audit_logs refers to
    imps,      \* sessions.impersonated_by: pairs impersonator, user
    reqs,      \* the requests under way
    peak       \* history: the highest quota a user ever had, Unlimited if none once

tables == <<users, owner, grants, tokens, plans, orders, audited, imps>>
vars == <<load, tables, reqs, peak>>

-----------------------------------------------------------------------------
(* Data. *)

UserIds == 1..MaxUsers
Token == 0                    \* session.UserID of a request made with a service token
Null == 0
Unused == -1                  \* an id that AUTOINCREMENT has not given yet
Unlimited == -1               \* max_sites NULL

RoleSuperAdmin == "super_admin"
RoleAdmin == "admin"
RoleUser == "user"
Roles == {RoleSuperAdmin, RoleAdmin, RoleUser}
Scopes == {"*", "admin", "user", "sites"}

HasRole(role, required) ==
    CASE required = RoleSuperAdmin -> role = RoleSuperAdmin
      [] required = RoleAdmin      -> role \in {RoleSuperAdmin, RoleAdmin}
      [] required = RoleUser       -> role \in Roles
      [] OTHER                     -> FALSE

\* "*" and "admin" stand for an administrator, never for a super administrator.
serviceTokenHasScope(scope, required) ==
    \/ scope \in {"*", RoleAdmin} /\ required \in {RoleAdmin, RoleUser}
    \/ scope = RoleUser /\ required = RoleUser

User(role, by, max) == [state |-> "live", role |-> role, by |-> by, max |-> max, plan |-> Null]
Absent == [User(RoleUser, Null, Unlimited) EXCEPT !.state = "absent"]
NoRow == "none"
NoToken == [state |-> NoRow, scope |-> "*", expires |-> FALSE]
NoPlan == [state |-> NoRow, price |-> 0, active |-> FALSE]
NoOrder == [user |-> Unused, plan |-> Null, status |-> "pending", amount |-> 0, by |-> Null]
Idle == [op |-> "", pc |-> "idle", caller |-> Null, role |-> "", target |-> Null,
         word |-> "", num |-> 0, plan |-> NoPlan]

Live == {u \in UserIds : users[u].state = "live"}
Owned(u) == {s \in Sites : owner[s] = u}
LivePlans == {p \in Plans : plans[p].state = "live"}
Placed == {o \in Orders : orders[o] # NoOrder}
Next_(ids, free(_)) == {i \in ids : free(i) /\ \A j \in ids : j < i => ~free(j)}
FreshUser == Next_(UserIds, LAMBDA u : users[u].state = "absent")
FreshSite == Next_(Sites, LAMBDA s : owner[s] = Unused)
FreshOrder == Next_(Orders, LAMBDA o : orders[o] = NoOrder)

\* The rows that keep a user from being deleted; sessions and user_sites cascade.
References(u) ==
    (IF \E v \in Live : users[v].by = u THEN {"created_by"} ELSE {})
    \cup (IF Owned(u) # {} THEN {"owner_id"} ELSE {})
    \cup (IF u \in audited THEN {"audit_logs"} ELSE {})
    \cup (IF \E o \in Placed : u \in {orders[o].user, orders[o].by} THEN {"license_orders"} ELSE {})
    \cup (IF \E i \in imps : i[1] = u THEN {"sessions"} ELSE {})
Init ==
    /\ load \in Workloads
    /\ users = [u \in UserIds |-> CASE u = 1 -> User(RoleSuperAdmin, Null, Unlimited)
                                    [] u = 2 -> User(RoleAdmin, Null, Unlimited)
                                    [] u = 3 -> User(RoleUser, 2, 1)
                                    [] OTHER -> Absent]
    /\ owner = [s \in Sites |-> IF s = 1 /\ "site" \notin DOMAIN load THEN 3 ELSE Unused]
    /\ grants = [x \in UserIds \X Sites |-> NoRow]
    /\ tokens = [t \in Tokens |-> IF t = 1 THEN [NoToken EXCEPT !.state = "live"] ELSE NoToken]
    /\ plans = [p \in Plans |-> IF p = 1 THEN [state |-> "live", price |-> 1, active |-> TRUE] ELSE NoPlan]
    /\ orders = [o \in Orders |-> NoOrder]
    /\ audited = {}
    /\ imps = {}
    /\ reqs = [r \in Requests |-> Idle]
    /\ peak = [u \in UserIds |-> users[u].max]

-----------------------------------------------------------------------------
(* A request: RequireAuth and RequireRole, then the handler's statements.  *)
(* The role is read once, here, and is stale when the statements run.      *)

Goto(r, pc) == reqs' = [reqs EXCEPT ![r].pc = pc]
Answer(r) == reqs' = [reqs EXCEPT ![r] = Idle]
\* audit.RecordAction: an entry by a user that is gone is dropped with a log line.
RecordAction(u) == audited' = audited \cup ({u} \cap Live)

\* Routes without RequireAdmin, and those that RequireUserSession closes to tokens.
Authenticated == {"site", "order"}
UserSession == {"impersonate", "token", "revoke"}
\* The bodies: a role, permission, status or scope, and a max_sites (Unlimited where
\* the field is missing) or a price.
Bodies(op) ==
    CASE op = "create"                    -> (Roles \X {Unlimited}) \cup {<<RoleUser, 0>>, <<RoleUser, 2>>}
      [] op = "update"                    -> (Roles \X {Unlimited}) \cup ({"", RoleUser} \X {0, 2})
      [] op \in {"assign", "permission"}  -> {"read", "write"} \X {0}
      [] op = "approve"                   -> {"approved", "expired"} \X {0}
      [] op = "token"                     -> Scopes \X {0}
      [] op \in {"newPlan", "plan"}       -> {<<"", 1>>, <<"", 2>>}
      [] OTHER                            -> {<<"", 0>>}
Targets(op) == CASE op = "approve"                                    -> Orders
                 [] op \in {"newPlan", "plan", "deletePlan", "order"} -> Plans
                 [] op \in {"token", "revoke"}                        -> Tokens
                 [] op \in {"create", "site"}                         -> {Null}
                 [] OTHER                                             -> {u \in UserIds : users[u] # Absent}

Arrive(r, op, caller, role) ==
    /\ reqs[r] = Idle /\ load[op] > 0
    /\ \E target \in Targets(op), body \in Bodies(op) :
          reqs' = [reqs EXCEPT ![r] = [op |-> op, pc |-> "check", caller |-> caller, role |-> role,
                                       target |-> target, word |-> body[1], num |-> body[2], plan |-> NoPlan]]
    /\ load' = [load EXCEPT ![op] = @ - 1]
    /\ UNCHANGED <<tables, peak>>

RequireRole(r, op, u) ==
    /\ u \in Live
    /\ op \in Authenticated \/ HasRole(users[u].role, RoleAdmin)
    /\ Arrive(r, op, u, IF op \in Authenticated THEN "" ELSE users[u].role)

RequireScope(r, op, t) ==
    /\ tokens[t].state = "live" /\ op \notin UserSession
    /\ op \in Authenticated \/ serviceTokenHasScope(tokens[t].scope, RoleAdmin)
    /\ Arrive(r, op, Token, IF op \in Authenticated THEN "" ELSE "service_token")

\* The request under way at r is at this statement of its handler.
At(r, op, pc) == reqs[r].op = op /\ reqs[r].pc = pc
\* An administrator manages the users it created.
Manages(q) == q.role = RoleAdmin => /\ q.target \in Live
                                    /\ users[q.target].by = q.caller

-----------------------------------------------------------------------------
(* Users. *)

MayCreate(q) ==
    /\ q.word = RoleSuperAdmin => q.role = RoleSuperAdmin
    /\ q.role = RoleAdmin => q.word = RoleUser

\* int64PtrToNullInt64 stores a 0 as 0.
CreateUser(r) ==
    LET q == reqs[r]
    IN  /\ At(r, "create", "check")
        /\ Answer(r)
        /\ \/ /\ MayCreate(q) /\ q.caller \in Live     \* the foreign key of created_by
              /\ \E u \in FreshUser :
                    /\ users' = [users EXCEPT ![u] = User(q.word, q.caller, q.num)]
                    /\ peak' = [peak EXCEPT ![u] = q.num]
              /\ RecordAction(q.caller)
           \/ /\ ~MayCreate(q) \/ q.caller \notin Live \/ FreshUser = {}
              /\ UNCHANGED <<users, peak, audited>>
        /\ UNCHANGED <<load, owner, grants, tokens, plans, orders, imps>>

CheckDelete(r) ==
    LET q == reqs[r]
    IN  /\ At(r, "delete", "check")
        /\ IF q.caller = q.target \/ ~Manages(q)
           THEN Answer(r) /\ UNCHANGED audited
           ELSE /\ Goto(r, "created_by") /\ RecordAction(q.caller)
        /\ UNCHANGED <<load, users, owner, grants, tokens, plans, orders, imps, peak>>

NullifyCreatedBy(r) ==
    /\ At(r, "delete", "created_by") /\ Goto(r, "owner_id")
    /\ users' = [u \in UserIds |-> IF users[u].by = reqs[r].target
                                   THEN [users[u] EXCEPT !.by = Null] ELSE users[u]]
    /\ UNCHANGED <<load, owner, grants, tokens, plans, orders, audited, imps, peak>>

NullifyOwner(r) ==
    /\ At(r, "delete", "owner_id") /\ Goto(r, "audit_logs")
    /\ owner' = [s \in Sites |-> IF owner[s] = reqs[r].target THEN Null ELSE owner[s]]
    /\ UNCHANGED <<load, users, grants, tokens, plans, orders, audited, imps, peak>>

NullifyUser(r) ==
    /\ At(r, "delete", "audit_logs") /\ Goto(r, "delete")
    /\ audited' = audited \ {reqs[r].target}
    /\ UNCHANGED <<load, users, owner, grants, tokens, plans, orders, imps, peak>>

DeleteUser(r) ==
    LET u == reqs[r].target
    IN  /\ At(r, "delete", "delete") /\ Answer(r)
        /\ \/ /\ References(u) = {} /\ u \in Live
              /\ users' = [users EXCEPT ![u].state = "gone"]
              /\ grants' = [x \in UserIds \X Sites |-> IF x[1] = u THEN NoRow ELSE grants[x]]
              /\ imps' = {i \in imps : i[2] # u}
           \/ (References(u) # {} \/ u \notin Live) /\ UNCHANGED <<users, grants, imps>>
        /\ UNCHANGED <<load, owner, tokens, plans, orders, audited, peak>>

MayAssign(q) == q.role # RoleSuperAdmin => q.word \notin {RoleAdmin, RoleSuperAdmin}

CheckUpdate(r) ==
    /\ At(r, "update", "check")
    /\ IF Manages(reqs[r]) /\ MayAssign(reqs[r]) THEN Goto(r, "role") ELSE Answer(r)
    /\ UNCHANGED <<load, tables, peak>>

UpdateRole(r) ==
    LET q == reqs[r]
    IN  /\ At(r, "update", "role") /\ Goto(r, "max_sites")
        /\ IF q.target \in Live /\ q.word # ""
           THEN users' = [users EXCEPT ![q.target].role = q.word] ELSE UNCHANGED users
        /\ UNCHANGED <<load, owner, grants, tokens, plans, orders, audited, imps, peak>>

\* A missing field leaves the quota alone, 0 stores NULL.
UpdateMaxSites(r) ==
    LET q == reqs[r]
        max == IF q.num > 0 THEN q.num ELSE Unlimited
    IN  /\ At(r, "update", "max_sites") /\ Answer(r)
        /\ IF q.target \in Live /\ q.num # Unlimited
           THEN /\ users' = [users EXCEPT ![q.target].max = max]
                /\ peak' = [peak EXCEPT ![q.target] =
                              IF Unlimited \in {@, max} THEN Unlimited ELSE IF max > @ THEN max ELSE @]
           ELSE UNCHANGED <<users, peak>>
        /\ UNCHANGED <<load, owner, grants, tokens, plans, orders, audited, imps>>

ReadTarget(r) ==
    LET q == reqs[r]
    IN  /\ At(r, "impersonate", "check")
        /\ IF /\ q.target \in Live
              /\ \/ q.role = RoleSuperAdmin
                 \/ q.role = RoleAdmin /\ Manages(q) /\ users[q.target].role = RoleUser
           THEN Goto(r, "insert") ELSE Answer(r)
        /\ UNCHANGED <<load, tables, peak>>

Impersonate(r) ==
    LET q == reqs[r]
    IN  /\ At(r, "impersonate", "insert") /\ Answer(r)
        /\ imps' = IF {q.caller, q.target} \subseteq Live THEN imps \cup {<<q.caller, q.target>>} ELSE imps
        /\ RecordAction(q.caller)
        /\ UNCHANGED <<load, users, owner, grants, tokens, plans, orders, peak>>

-----------------------------------------------------------------------------
(* Sites: the quota of the owner, and who is assigned to them. *)

\* Mutant: one site too many.
QuotaReachedLate(max, count) == max # Unlimited /\ count > max

QuotaReached(max, count) == max # Unlimited /\ count >= max

CountByOwner(r) ==
    LET q == reqs[r]
        checked == q.caller \in Live
        max == users[q.caller].max
    IN  /\ At(r, "site", "check")
        /\ IF checked /\ QuotaReached(max, Cardinality(Owned(q.caller)))
           THEN Answer(r) ELSE Goto(r, "insert")
        /\ UNCHANGED <<load, tables, peak>>

\* A site made with a service token has no owner.
InsertSite(r) ==
    LET u == reqs[r].caller
    IN  /\ At(r, "site", "insert") /\ Answer(r)
        /\ IF u \in Live \cup {Token} /\ FreshSite # {}
           THEN /\ \E s \in FreshSite : owner' = [owner EXCEPT ![s] = IF u = Token THEN Null ELSE u]
                /\ RecordAction(u)
           ELSE UNCHANGED <<owner, audited>>
        /\ UNCHANGED <<load, users, grants, tokens, plans, orders, imps, peak>>

\* INSERT ... ON CONFLICT DO UPDATE; the foreign keys want the user and the site.
Assign(r, s) ==
    LET q == reqs[r]
    IN  /\ At(r, "assign", "check") /\ Answer(r)
        /\ IF q.target \in Live /\ owner[s] # Unused
           THEN /\ grants' = [grants EXCEPT ![<<q.target, s>>] = q.word]
                /\ RecordAction(q.caller)
           ELSE UNCHANGED <<grants, audited>>
        /\ UNCHANGED <<load, users, owner, tokens, plans, orders, imps, peak>>

\* Without a row to change the answer is 404.
ChangeGrant(r, op, s, perm) ==
    LET q == reqs[r]
        x == <<q.target, s>>
    IN  /\ At(r, op, "check") /\ Answer(r)
        /\ IF grants[x] # NoRow
           THEN /\ grants' = [grants EXCEPT ![x] = perm]
                /\ RecordAction(q.caller)
           ELSE UNCHANGED <<grants, audited>>
        /\ UNCHANGED <<load, users, owner, tokens, plans, orders, imps, peak>>
Unassign(r, s) == ChangeGrant(r, "unassign", s, NoRow)
UpdatePermission(r, s) == ChangeGrant(r, "permission", s, reqs[r].word)

-----------------------------------------------------------------------------
(* Service tokens. *)

CreateToken(r) ==
    LET q == reqs[r]
    IN  /\ At(r, "token", "check") /\ Answer(r)
        /\ \E expires \in BOOLEAN :
              tokens' = IF tokens[q.target].state # NoRow THEN tokens
                        ELSE [tokens EXCEPT ![q.target] =
                                [state |-> "live", scope |-> q.word, expires |-> expires]]
        /\ UNCHANGED <<load, users, owner, grants, plans, orders, audited, imps, peak>>

RevokeToken(r) ==
    /\ At(r, "revoke", "check") /\ Answer(r)
    /\ tokens' = [tokens EXCEPT ![reqs[r].target].state = "gone"]
    /\ UNCHANGED <<load, users, owner, grants, plans, orders, audited, imps, peak>>

\* The expiry passes; RequireAuth refuses the token from then on.
ExpireToken(t) ==
    /\ tokens[t].state = "live" /\ tokens[t].expires
    /\ tokens' = [tokens EXCEPT ![t].state = "expired"]
    /\ UNCHANGED <<load, users, owner, grants, plans, orders, audited, imps, reqs, peak>>

-----------------------------------------------------------------------------
(* Plans and orders. *)

ReadPlan(r, op) ==
    LET q == reqs[r]
    IN  /\ At(r, op, "check")
        /\ IF q.target \in LivePlans /\ (op = "order" => plans[q.target].active)
           THEN reqs' = [reqs EXCEPT ![r].pc = "write", ![r].plan = plans[q.target]]
           ELSE Answer(r)
        /\ UNCHANGED <<load, tables, peak>>

CreatePlan(r) ==
    LET q == reqs[r]
    IN  /\ At(r, "newPlan", "check") /\ Answer(r)
        /\ \E active \in BOOLEAN :
              plans' = IF plans[q.target].state # NoRow THEN plans
                       ELSE [plans EXCEPT ![q.target] = [state |-> "live", price |-> q.num, active |-> active]]
        /\ UNCHANGED <<load, users, owner, grants, tokens, orders, audited, imps, peak>>

\* The whole row is written back, with the fields of the body changed.
UpdatePlan(r) ==
    LET q == reqs[r]
    IN  /\ At(r, "plan", "write") /\ Answer(r)
        /\ \E active \in {q.plan.active, FALSE} :
              plans' = IF q.target \in LivePlans
                       THEN [plans EXCEPT ![q.target].price = q.num, ![q.target].active = active]
                       ELSE plans
        /\ UNCHANGED <<load, users, owner, grants, tokens, orders, audited, imps, peak>>

DeletePlan(r) ==
    LET p == reqs[r].target
    IN  /\ At(r, "deletePlan", "check") /\ Answer(r)
        /\ plans' = IF (\E o \in Placed : orders[o].plan = p) \/ \E u \in Live : users[u].plan = p
                    THEN plans ELSE [plans EXCEPT ![p].state = "gone"]
        /\ UNCHANGED <<load, users, owner, grants, tokens, orders, audited, imps, peak>>

\* The amount is the price that was read; a service token has no user to order for.
CreateOrder(r) ==
    LET q == reqs[r]
    IN  /\ At(r, "order", "write") /\ Answer(r)
        /\ orders' = IF q.caller \notin Live \/ q.target \notin LivePlans \/ FreshOrder = {} THEN orders
                     ELSE [o \in Orders |-> IF o \notin FreshOrder THEN orders[o]
                             ELSE [user |-> q.caller, plan |-> q.target, status |-> "pending",
                                   amount |-> q.plan.price, by |-> Null]]
        /\ UNCHANGED <<load, users, owner, grants, tokens, plans, audited, imps, peak>>

ReadOrder(r) ==
    /\ At(r, "approve", "check")
    /\ IF reqs[r].target \in Placed THEN Goto(r, "write") ELSE Answer(r)
    /\ UNCHANGED <<load, tables, peak>>

\* Any status may follow any other; approved_by refers to the caller.
UpdateStatus(r) ==
    LET q == reqs[r]
    IN  /\ At(r, "approve", "write") /\ Answer(r)
        /\ orders' = IF q.caller \notin Live THEN orders
                     ELSE [orders EXCEPT ![q.target].status = q.word, ![q.target].by = q.caller]
        /\ UNCHANGED <<load, users, owner, grants, tokens, plans, audited, imps, peak>>

\* p = Null takes the plan away.
AssignPlan(r, p) ==
    LET u == reqs[r].target
    IN  /\ At(r, "assignPlan", "check") /\ Answer(r)
        /\ users' = IF u \in Live /\ p \in LivePlans \cup {Null} THEN [users EXCEPT ![u].plan = p] ELSE users
        /\ UNCHANGED <<load, owner, grants, tokens, plans, orders, audited, imps, peak>>

-----------------------------------------------------------------------------
(* The backend stops: what the requests have written stays. *)
Restart ==
    /\ \E r \in Requests : reqs[r] # Idle
    /\ reqs' = [r \in Requests |-> Idle]
    /\ UNCHANGED <<load, tables, peak>>

Step(r) ==
    \/ CreateUser(r) \/ CheckDelete(r) \/ NullifyCreatedBy(r) \/ NullifyOwner(r) \/ NullifyUser(r)
    \/ DeleteUser(r) \/ CheckUpdate(r) \/ UpdateRole(r) \/ UpdateMaxSites(r)
    \/ ReadTarget(r) \/ Impersonate(r) \/ CountByOwner(r) \/ InsertSite(r)
    \/ \E s \in Sites : Assign(r, s) \/ Unassign(r, s) \/ UpdatePermission(r, s)
    \/ CreateToken(r) \/ RevokeToken(r)
    \/ \E op \in {"plan", "order"} : ReadPlan(r, op)
    \/ CreatePlan(r) \/ UpdatePlan(r) \/ DeletePlan(r) \/ CreateOrder(r) \/ ReadOrder(r) \/ UpdateStatus(r)
    \/ \E p \in Plans \cup {Null} : AssignPlan(r, p)

Next ==
    \/ \E r \in Requests :
          \/ \E op \in DOMAIN load : (\E u \in UserIds : RequireRole(r, op, u)) \/ \E t \in Tokens : RequireScope(r, op, t)
          \/ Step(r)
    \/ \E t \in Tokens : ExpireToken(t)
    \/ Restart

Spec == Init /\ [][Next]_vars

-----------------------------------------------------------------------------
(* Properties. *)

(* Site creation counts the sites and inserts later.  Creations that       *)
(* overlap exceed the quota, but never by more than the number of them     *)
(* that can be under way besides the last.  (A transfer, in Transfers,     *)
(* does not look at the new owner's quota.)                                *)
QuotaBound ==
    \A u \in Live : peak[u] # Unlimited =>
        Cardinality(Owned(u)) <= peak[u] + Cardinality(Requests) - 1

=============================================================================
