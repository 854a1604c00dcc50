------------------------------ MODULE Logins --------------------------------
(***************************************************************************)
(* Logging in to one account: the login handler (internal/apihttp/auth.go) *)
(* with the counter of failed logins and the memory of accepted TOTP codes *)
(* that it keeps in the process, the sessions table                        *)
(* (internal/store/sessions.go), the two-factor settings and the recovery  *)
(* codes (internal/apihttp/twofa.go, internal/store/twofa.go) and          *)
(* impersonation (internal/apihttp/impersonate.go).                        *)
(*                                                                         *)
(* All of that state is kept per account, so one account is modelled.  A   *)
(* login reads the account once and works on what it read; each of its     *)
(* statements is a step, and so is each statement of a two-factor request. *)
(* The limiters in front of the handler count per address: here a request  *)
(* simply does not start.  A tick is one TOTP period (30 s).               *)
(***************************************************************************)
EXTENDS Integers, Sequences, FiniteSets

CONSTANTS
    Reqs,          \* login requests that may overlap
    Settings,      \* two-factor requests that may overlap
    FailLimit,     \* failed logins that block the account (20 in the code)
    FailWindow,    \* for how long a failure counts (15 min)
    Memory,        \* for how long an accepted TOTP code is kept (2 min)
    MaxSessions,   \* maxSessionsPerUser (10)
    TTLs,          \* lifetimes of a session (7 or 90 days; impersonation 1)
    NCodes,        \* recovery codes per batch (10)
    MaxTime,       \* bound: ticks
    MaxRows,       \* bound: sessions ever inserted
    MaxSecret,     \* bound: TOTP secrets ever generated
    MaxBatch       \* bound: batches of recovery codes ever generated

ASSUME LoginsAssumption ==
    /\ Reqs # {} /\ IsFiniteSet(Reqs) /\ Settings # {}
    /\ {FailLimit, MaxSessions} \subseteq Nat \ {0}
    /\ TTLs \subseteq Nat \ {0}
    /\ Memory >= 2   \* the memory outlives a code's three periods
    /\ {FailWindow, Memory, NCodes, MaxTime, MaxRows, MaxSecret, MaxBatch} \subseteq Nat

VARIABLES
    now,
    user,        \* the users row: exists, its TOTP secret, TOTP enabled
    secrets,     \* TOTP secrets generated so far
    codes,       \* recovery codes: the stored batch and those still unused
    sessions,    \* the sessions table, by id: active, revoked by its holder, or trimmed
    reqs,        \* where each login stands and the row it has read
    settings,    \* where each two-factor request stands
    fails,       \* failureTracker: the failed logins, by time and number at that time
    seen,        \* usedTOTP: accepted codes with the time of acceptance
    uses,        \* history: how often a second factor let a login pass
    untrimmed    \* history: sessions inserted since the last RevokeOldest

vars == <<now, user, secrets, codes, sessions, reqs, settings, fails, seen, uses, untrimmed>>
memory == <<fails, seen>>
history == <<uses, untrimmed>>

NoSecret == 0
Steps == 0..MaxTime
Totp == {"totp"} \X (1..MaxSecret) \X Steps
Recovery == {"recovery"} \X (1..MaxBatch) \X (1..NCodes)
Users == [exists : BOOLEAN, secret : 0..MaxSecret, enabled : BOOLEAN]
PCs == {"idle", "admitted", "read", "passed", "created"}
Idle == [pc |-> "idle", row |-> [exists |-> FALSE, secret |-> NoSecret, enabled |-> FALSE]]

Init ==
    /\ now = 0
    /\ user = [exists |-> TRUE, secret |-> NoSecret, enabled |-> FALSE]
    /\ secrets = 0
    /\ codes = [batch |-> 0, unused |-> {}]
    /\ sessions = <<>>
    /\ reqs = [r \in Reqs |-> Idle]
    /\ settings = [q \in Settings |-> "none"]
    /\ fails = {}
    /\ seen = {}
    /\ uses = [f \in Totp \cup Recovery |-> 0]
    /\ untrimmed = 0

(***************************************************************************)
(* The counter of failed logins and the memory of accepted TOTP codes      *)
(***************************************************************************)

(* Several logins may fail at one time: their number there tells them apart. *)
Prune(entries) == {e \in entries : e[1] > now - FailWindow}
Recent == Cardinality(Prune(fails))

BlockedOffByOne == Recent > FailLimit
Blocked == Recent >= FailLimit

Fail ==
    LET kept == Prune(fails)
        number == Cardinality({e \in kept : e[1] = now})
    IN  fails' = kept \cup {<<now, number>>}

ForgottenEarly(t) == now - t > 1
Forgotten(t) == now - t > Memory

MarkUsed(code) ==
    LET kept == {e \in seen : ~Forgotten(e[2])}
    IN  /\ \A e \in kept : e[1] # code
        /\ seen' = kept \cup {<<code, now>>}

(* The library's check, with one period of skew to either side. *)
Validate(secret, step) == secret # NoSecret /\ step \in (now - 1)..(now + 1)

(***************************************************************************)
(* The sessions table                                                      *)
(***************************************************************************)

Active(i) == sessions[i].state = "active" /\ sessions[i].exp > now
ActiveIds == {i \in DOMAIN sessions : Active(i)}

(* Expiries past the last tick are all one. *)
Expiry(ttl) == IF now + ttl > MaxTime THEN MaxTime + 1 ELSE now + ttl

(* A foreign key refuses a session of a user who is gone. *)
CreateSession(imp) ==
    /\ user.exists
    /\ Len(sessions) < MaxRows
    /\ \E ttl \in TTLs :
          sessions' = Append(sessions, [exp |-> Expiry(ttl),
                                        state |-> "active", imp |-> imp])
    /\ untrimmed' = untrimmed + 1

SurplusFromOldest == {i \in ActiveIds : Cardinality({j \in ActiveIds : j < i}) >= MaxSessions}
SurplusOffByOne == {i \in ActiveIds : Cardinality({j \in ActiveIds : j > i}) > MaxSessions}
Surplus == {i \in ActiveIds : Cardinality({j \in ActiveIds : j > i}) >= MaxSessions}

RevokeOldest ==
    /\ sessions' = [i \in DOMAIN sessions |->
                      IF i \in Surplus THEN [sessions[i] EXCEPT !.state = "trimmed"]
                      ELSE sessions[i]]
    /\ untrimmed' = 0

Revoke(i) == sessions' = [sessions EXCEPT ![i].state = "revoked"]

(***************************************************************************)
(* Logging in                                                              *)
(***************************************************************************)

Goto(r, pc) == reqs' = [reqs EXCEPT ![r].pc = pc]
Answer(r) == reqs' = [reqs EXCEPT ![r] = Idle]
Count(f) == uses' = [uses EXCEPT ![f] = IF @ < 2 THEN @ + 1 ELSE 2]

(* A blocked account is refused before anything is read; the failures that *)
(* no longer count are dropped either way.                                 *)
Admit(r) ==
    /\ reqs[r].pc = "idle"
    /\ fails' = Prune(fails)
    /\ IF Blocked THEN UNCHANGED reqs ELSE Goto(r, "admitted")
    /\ UNCHANGED <<now, user, secrets, codes, sessions, settings, seen, history>>

GetByUsername(r) ==
    /\ reqs[r].pc = "admitted"
    /\ reqs' = [reqs EXCEPT ![r] = [pc |-> "read", row |-> user]]
    /\ UNCHANGED <<now, user, secrets, codes, sessions, settings, memory, history>>

(* An unknown user, a wrong password, or a wrong second factor. *)
Reject(r) ==
    /\ reqs[r].pc = "read"
    /\ Fail
    /\ Answer(r)
    /\ UNCHANGED <<now, user, secrets, codes, sessions, settings, seen, history>>

(* "2fa_required": the client is asked for its second factor. *)
AskFactor(r) ==
    /\ reqs[r].pc = "read" /\ reqs[r].row.exists /\ reqs[r].row.enabled
    /\ Answer(r)
    /\ UNCHANGED <<now, user, secrets, codes, sessions, settings, memory, history>>

(* The failures are forgotten once the login has passed.  Of the row only  *)
(* the id is needed from here on.                                          *)
Pass(r) ==
    /\ reqs' = [reqs EXCEPT ![r] = [Idle EXCEPT !.pc = "passed"]]
    /\ fails' = {}

PasswordOnly(r) ==
    /\ reqs[r].pc = "read" /\ reqs[r].row.exists /\ ~reqs[r].row.enabled
    /\ Pass(r)
    /\ UNCHANGED <<now, user, secrets, codes, sessions, settings, seen, history>>

VerifyUnmarked(c) == c \in codes.unused /\ UNCHANGED codes
VerifyRecoveryCode(c) ==
    /\ c \in codes.unused
    /\ codes' = [codes EXCEPT !.unused = @ \ {c}]

UseRecoveryCode(r) ==
    /\ reqs[r].pc = "read" /\ reqs[r].row.exists /\ reqs[r].row.enabled
    /\ \E c \in 1..NCodes :
          VerifyRecoveryCode(c) /\ Count(<<"recovery", codes.batch, c>>)
    /\ Pass(r)
    /\ UNCHANGED <<now, user, secrets, sessions, settings, seen, untrimmed>>

(* The code is checked against the secret that was read at the start. *)
UseTotp(r) ==
    /\ reqs[r].pc = "read" /\ reqs[r].row.exists /\ reqs[r].row.enabled
    /\ \E step \in Steps :
          LET secret == reqs[r].row.secret
              code == <<"totp", secret, step>>
          IN  Validate(secret, step) /\ MarkUsed(code) /\ Count(code)
    /\ Pass(r)
    /\ UNCHANGED <<now, user, secrets, codes, sessions, settings, untrimmed>>

OpenSession(r) ==
    /\ reqs[r].pc = "passed"
    /\ CreateSession(FALSE)
    /\ Goto(r, "created")
    /\ UNCHANGED <<now, user, secrets, codes, settings, memory, uses>>

(* The insert fails: the account is gone, or the database is in trouble. *)
OpenFails(r) ==
    /\ reqs[r].pc = "passed"
    /\ Answer(r)
    /\ UNCHANGED <<now, user, secrets, codes, sessions, settings, memory, history>>

(* The limit is enforced after the insert; an error is only logged. *)
EnforceLimit(r) ==
    /\ reqs[r].pc = "created"
    /\ Answer(r)
    /\ RevokeOldest \/ UNCHANGED <<sessions, untrimmed>>
    /\ UNCHANGED <<now, user, secrets, codes, settings, memory, uses>>

(***************************************************************************)
(* What the holder of a session, or an administrator, may do               *)
(***************************************************************************)

(* RequireAuth: the token's session exists, is not revoked, not expired. *)
Authenticated == ActiveIds # {}

Logout ==
    /\ \E i \in ActiveIds : Revoke(i)
    /\ UNCHANGED <<now, user, secrets, codes, reqs, settings, memory, history>>

StopImpersonation ==
    /\ \E i \in ActiveIds : sessions[i].imp /\ Revoke(i)
    /\ UNCHANGED <<now, user, secrets, codes, reqs, settings, memory, history>>

(* An administrator's session for this account; no limit is enforced. *)
Impersonate ==
    /\ CreateSession(TRUE)
    /\ UNCHANGED <<now, user, secrets, codes, reqs, settings, memory, uses>>

(* The stored secret is replaced, whether or not TOTP is enabled. *)
Setup2FA ==
    /\ Authenticated
    /\ secrets < MaxSecret
    /\ secrets' = secrets + 1
    /\ user' = [user EXCEPT !.secret = secrets']
    /\ UNCHANGED <<now, codes, sessions, reqs, settings, memory, history>>

(* A two-factor request checks first, then updates the row.  The codes it  *)
(* is shown here are not entered in the login's memory.                    *)
Begin2FA(q, op) ==
    /\ settings[q] = "none"
    /\ Authenticated
    /\ settings' = [settings EXCEPT ![q] = op]
    /\ UNCHANGED <<now, user, secrets, codes, sessions, reqs, memory, history>>

CodeShown == \E step \in Steps : Validate(user.secret, step)
CheckEnable(q) == CodeShown /\ Begin2FA(q, "enable")
CheckDisable(q) == CodeShown /\ Begin2FA(q, "disable")
CheckEnabled(q) == user.enabled /\ Begin2FA(q, "codes")

Enable2FA(q) ==
    /\ settings[q] = "enable"
    /\ settings' = [settings EXCEPT ![q] = "none"]
    /\ user' = [user EXCEPT !.enabled = user.exists]
    /\ UNCHANGED <<now, secrets, codes, sessions, reqs, memory, history>>

DisableTOTP == [user EXCEPT !.enabled = FALSE, !.secret = NoSecret]

Disable2FA(q) ==
    /\ settings[q] = "disable"
    /\ settings' = [settings EXCEPT ![q] = "none"]
    /\ user' = DisableTOTP
    /\ UNCHANGED <<now, secrets, codes, sessions, reqs, memory, history>>

(* A new batch replaces the old one; the insert fails once the user is gone. *)
GenerateRecoveryCodes(q) ==
    /\ settings[q] = "codes"
    /\ codes.batch < MaxBatch
    /\ settings' = [settings EXCEPT ![q] = "none"]
    /\ codes' = IF user.exists
                THEN [batch |-> codes.batch + 1, unused |-> 1..NCodes]
                ELSE codes
    /\ UNCHANGED <<now, user, secrets, sessions, reqs, memory, history>>

(* Deleting the user takes its sessions and recovery codes along. *)
DeleteUser ==
    /\ user.exists
    /\ user' = [exists |-> FALSE, secret |-> NoSecret, enabled |-> FALSE]
    /\ sessions' = <<>>
    /\ codes' = [codes EXCEPT !.unused = {}]
    /\ untrimmed' = 0
    /\ UNCHANGED <<now, secrets, reqs, settings, memory, uses>>

Tick ==
    /\ now < MaxTime
    /\ now' = now + 1
    /\ UNCHANGED <<user, secrets, codes, sessions, reqs, settings, memory, history>>

(* The requests in flight and all that is kept in memory are lost. *)
Restart ==
    /\ reqs' = [r \in Reqs |-> Idle]
    /\ settings' = [q \in Settings |-> "none"]
    /\ fails' = {}
    /\ seen' = {}
    /\ uses' = [f \in Totp \cup Recovery |-> IF f \in Totp THEN 0 ELSE uses[f]]
    /\ UNCHANGED <<now, user, secrets, codes, sessions, untrimmed>>

Next ==
    \/ \E r \in Reqs :
          \/ Admit(r) \/ GetByUsername(r) \/ Reject(r) \/ AskFactor(r)
          \/ PasswordOnly(r) \/ UseRecoveryCode(r) \/ UseTotp(r)
          \/ OpenSession(r) \/ OpenFails(r) \/ EnforceLimit(r)
    \/ Logout \/ StopImpersonation \/ Impersonate \/ Setup2FA
    \/ \E q \in Settings :
          \/ CheckEnable(q) \/ CheckDisable(q) \/ CheckEnabled(q)
          \/ Enable2FA(q) \/ Disable2FA(q) \/ GenerateRecoveryCodes(q)
    \/ DeleteUser \/ Tick \/ Restart

Spec == Init /\ [][Next]_vars

(***************************************************************************)
(* Properties                                                              *)
(***************************************************************************)

(* A recovery code lets at most one login pass, however many logins        *)
(* present it at once and across restarts and new batches.                 *)
RecoveryCodeOnce == \A f \in Recovery : uses[f] <= 1

(* A TOTP code lets at most one login pass while the process runs: the     *)
(* memory of usedTOTP outlives the periods in which the code is valid.     *)
TotpCodeOnce == \A f \in Totp : uses[f] <= 1

(* maxSessionsPerUser: the active sessions exceed the limit by no more     *)
(* than were inserted since RevokeOldest last ran.                         *)
SessionLimit == Cardinality(ActiveIds) <= MaxSessions + untrimmed

(* RevokeOldest takes the oldest: a session neither revoked by its holder  *)
(* nor followed by maxSessionsPerUser younger ones is still good, also     *)
(* when several logins insert before any of them enforces the limit.       *)
NewestSurvive ==
    \A i \in DOMAIN sessions :
        sessions[i].state = "trimmed" => Len(sessions) - i >= MaxSessions

(* Logins that overlap can overrun the limit on failed logins, since it is *)
(* tested at the start and counted at the end, but only by their number.   *)
FailureBound == Recent <= FailLimit + Cardinality(Reqs) - 1
==============================================================================
