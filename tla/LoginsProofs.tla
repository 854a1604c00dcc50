--------------------------- MODULE LoginsProofs ------------------------------
(***************************************************************************)
(* Proofs about Logins for any number of overlapping logins and any value  *)
(* of the constants: a second factor lets at most one login pass, and the  *)
(* limits on sessions and on failed logins hold.                           *)
(***************************************************************************)
EXTENDS Logins, FiniteSetTheorems, WellFoundedInduction, TLAPS

(* What the proofs need of the types. *)
FactorTypes ==
    /\ now \in 0..MaxTime
    /\ user \in Users
    /\ secrets \in 0..MaxSecret
    /\ codes \in [batch : 0..MaxBatch, unused : SUBSET (1..NCodes)]
    /\ reqs \in [Reqs -> [pc : PCs, row : Users]]
    /\ seen \subseteq Totp \X (0..MaxTime)
    /\ uses \in [Totp \cup Recovery -> 0..2]

(* A code not yet generated, or stored and unused, has let no login pass. *)
Fresh(f) == f[2] > codes.batch \/ (f[2] = codes.batch /\ f[3] \in codes.unused)
RecoveryInv == \A f \in Recovery : uses[f] <= 1 /\ (Fresh(f) => uses[f] = 0)

(* A TOTP code that was accepted is remembered, or no longer valid: it was *)
(* accepted no earlier than a period before its own.                       *)
Remembered(f) == \E t \in 0..MaxTime : <<f, t>> \in seen /\ t >= f[3] - 1
TotpInv == \A f \in Totp : uses[f] <= 1 /\ (uses[f] # 0 => now > f[3] + 1 \/ Remembered(f))

FactorInv == FactorTypes /\ RecoveryInv /\ TotpInv

(* Totp and recovery codes are different things. *)
LEMMA FactorsDisjoint ==
    ASSUME NEW f \in Totp, NEW g \in Recovery
    PROVE  f # g
  BY DEF Totp, Recovery

(* What the parts of a factor are. *)
LEMMA FactorParts ==
    /\ \A f \in Totp : f = <<"totp", f[2], f[3]>> /\ f[2] \in 1..MaxSecret /\ f[3] \in Steps
    /\ \A f \in Recovery : /\ f = <<"recovery", f[2], f[3]>>
                           /\ f[2] \in 1..MaxBatch /\ f[3] \in 1..NCodes
  BY DEF Totp, Recovery

(* The initial state satisfies the invariant. *)
LEMMA FactorInit == Init => FactorInv
  <1> SUFFICES ASSUME Init PROVE FactorInv
    OBVIOUS
  <1>1. FactorTypes
    BY LoginsAssumption DEF Init, FactorTypes, Users, PCs, Idle, NoSecret
  <1>2. RecoveryInv
    BY DEF Init, RecoveryInv
  <1>3. TotpInv
    BY DEF Init, TotpInv
  <1> QED
    BY <1>1, <1>2, <1>3 DEF FactorInv

(* A step that changes neither the codes, nor the memory, nor the counts   *)
(* keeps both invariants; time may pass meanwhile.                         *)
LEMMA FactorFrame ==
    ASSUME FactorInv, UNCHANGED <<codes, seen, uses>>,
           now' \in 0..MaxTime, now' >= now
    PROVE  RecoveryInv' /\ TotpInv'
  <1>1. RecoveryInv'
    BY DEF FactorInv, RecoveryInv, Fresh
  <1>2. ASSUME NEW f \in Totp
        PROVE  uses'[f] <= 1 /\ (uses'[f] # 0 => now' > f[3] + 1 \/ Remembered(f)')
    <2>1. f[3] \in Int
      BY FactorParts, LoginsAssumption DEF Steps
    <2>2. MaxTime \in Nat
      BY LoginsAssumption
    <2>3. now \in Int /\ now' \in Int
      BY <2>2 DEF FactorInv, FactorTypes
    <2>4. Remembered(f) => Remembered(f)'
      BY DEF Remembered
    <2>5. uses[f] <= 1 /\ (uses[f] # 0 => now > f[3] + 1 \/ Remembered(f))
      BY DEF FactorInv, TotpInv
    <2> QED
      BY <2>1, <2>3, <2>4, <2>5
  <1> QED
    BY <1>1, <1>2 DEF TotpInv

(* Every step keeps the types. *)
LEMMA FactorTypesStep == FactorInv /\ [Next]_vars => FactorTypes'
  <1> SUFFICES ASSUME FactorInv, [Next]_vars PROVE FactorTypes'
    OBVIOUS
  <1> USE LoginsAssumption
  <1>0. FactorTypes
    BY DEF FactorInv
  <1>a. Idle \in [pc : PCs, row : Users]
    BY DEF Idle, PCs, Users, NoSecret
  <1>1. ASSUME NEW r \in Reqs, Admit(r) PROVE FactorTypes'
    BY <1>0, <1>1 DEF Admit, Goto, FactorTypes, PCs, history
  <1>2. ASSUME NEW r \in Reqs, GetByUsername(r) PROVE FactorTypes'
    BY <1>0, <1>2 DEF GetByUsername, FactorTypes, PCs, history, memory
  <1>3. ASSUME NEW r \in Reqs, Reject(r) PROVE FactorTypes'
    BY <1>0, <1>a, <1>3 DEF Reject, Answer, FactorTypes, history
  <1>4. ASSUME NEW r \in Reqs, AskFactor(r) PROVE FactorTypes'
    BY <1>0, <1>a, <1>4 DEF AskFactor, Answer, FactorTypes, history, memory
  <1>5. ASSUME NEW r \in Reqs, Pass(r)
        PROVE  reqs' \in [Reqs -> [pc : PCs, row : Users]]
    <2>1. [Idle EXCEPT !.pc = "passed"] \in [pc : PCs, row : Users]
      BY <1>a DEF PCs
    <2> QED
      BY <1>0, <1>5, <2>1 DEF Pass, FactorTypes
  <1>6. ASSUME NEW r \in Reqs, PasswordOnly(r) PROVE FactorTypes'
    BY <1>0, <1>5, <1>6 DEF PasswordOnly, FactorTypes, history
  <1>7. ASSUME NEW f, Count(f) PROVE uses' \in [Totp \cup Recovery -> 0..2]
    <2> DEFINE D == Totp \cup Recovery
    <2>1. uses \in [D -> 0..2]
      BY <1>0 DEF FactorTypes
    <2>2. uses' = [g \in D |-> IF g = f THEN IF uses[f] < 2 THEN uses[f] + 1 ELSE 2
                               ELSE uses[g]]
      BY <1>7, <2>1 DEF Count
    <2> HIDE DEF D
    <2>3. ASSUME NEW g \in D PROVE uses'[g] \in 0..2
      BY <2>1, <2>2
    <2>4. uses' \in [D -> 0..2]
      BY <2>2, <2>3
    <2> QED
      BY <2>4 DEF D
  <1>8. ASSUME NEW r \in Reqs, UseRecoveryCode(r) PROVE FactorTypes'
    <2>1. PICK c \in 1..NCodes :
              VerifyRecoveryCode(c) /\ Count(<<"recovery", codes.batch, c>>)
      BY <1>8 DEF UseRecoveryCode
    <2>2. codes' \in [batch : 0..MaxBatch, unused : SUBSET (1..NCodes)]
      BY <1>0, <2>1 DEF VerifyRecoveryCode, FactorTypes
    <2>3. uses' \in [Totp \cup Recovery -> 0..2]
      BY <1>7, <2>1
    <2>4. reqs' \in [Reqs -> [pc : PCs, row : Users]]
      BY <1>5, <1>8 DEF UseRecoveryCode
    <2> QED
      BY <1>0, <1>8, <2>2, <2>3, <2>4 DEF UseRecoveryCode, FactorTypes
  <1>9. ASSUME NEW r \in Reqs, UseTotp(r) PROVE FactorTypes'
    <2> DEFINE secret == reqs[r].row.secret
    <2>1. PICK step \in Steps : /\ Validate(secret, step)
                                /\ MarkUsed(<<"totp", secret, step>>)
                                /\ Count(<<"totp", secret, step>>)
      BY <1>9 DEF UseTotp
    <2>2. <<"totp", secret, step>> \in Totp
      BY <1>0, <2>1 DEF Validate, NoSecret, FactorTypes, Users, Totp
    <2>3. seen' \subseteq Totp \X (0..MaxTime)
      BY <1>0, <2>1, <2>2 DEF MarkUsed, FactorTypes
    <2>4. uses' \in [Totp \cup Recovery -> 0..2]
      BY <1>7, <2>1
    <2>5. reqs' \in [Reqs -> [pc : PCs, row : Users]]
      BY <1>5, <1>9 DEF UseTotp
    <2> QED
      BY <1>0, <1>9, <2>3, <2>4, <2>5 DEF UseTotp, FactorTypes
  <1>10. ASSUME NEW r \in Reqs, OpenSession(r) PROVE FactorTypes'
    BY <1>0, <1>10 DEF OpenSession, Goto, PCs, FactorTypes, memory
  <1>11. ASSUME NEW r \in Reqs, OpenFails(r) PROVE FactorTypes'
    BY <1>0, <1>a, <1>11 DEF OpenFails, Answer, FactorTypes, memory, history
  <1>12. ASSUME NEW r \in Reqs, EnforceLimit(r) PROVE FactorTypes'
    BY <1>0, <1>a, <1>12 DEF EnforceLimit, Answer, FactorTypes, memory
  <1>13. CASE Logout \/ StopImpersonation
    BY <1>0, <1>13 DEF Logout, StopImpersonation, FactorTypes, memory, history
  <1>14. CASE Impersonate
    BY <1>0, <1>14 DEF Impersonate, FactorTypes, memory
  <1>15. CASE Setup2FA
    BY <1>0, <1>15 DEF Setup2FA, FactorTypes, Users, memory, history
  <1>16. ASSUME NEW q \in Settings,
                CheckEnable(q) \/ CheckDisable(q) \/ CheckEnabled(q)
                \/ Enable2FA(q) \/ Disable2FA(q) \/ GenerateRecoveryCodes(q)
         PROVE  FactorTypes'
    <2>1. CASE CheckEnable(q) \/ CheckDisable(q) \/ CheckEnabled(q)
      BY <1>0, <2>1 DEF CheckEnable, CheckDisable, CheckEnabled, Begin2FA, FactorTypes,
                        memory, history
    <2>2. CASE Enable2FA(q)
      BY <1>0, <2>2 DEF Enable2FA, FactorTypes, Users, memory, history
    <2>3. CASE Disable2FA(q)
      <3>1. DisableTOTP \in Users
        <4> DEFINE u == [user EXCEPT !.enabled = FALSE]
        <4>1. u \in Users
          BY <1>0 DEF FactorTypes, Users
        <4>2. DisableTOTP = [u EXCEPT !.secret = 0]
          BY DEF DisableTOTP, NoSecret
        <4> HIDE DEF u
        <4>3. MaxSecret \in Nat
          OBVIOUS
        <4>4. 0 \in 0..MaxSecret
          BY <4>3
        <4>5. [u EXCEPT !.secret = 0] \in Users
          BY <4>1, <4>4 DEF Users
        <4> QED
          BY <4>2, <4>5
      <3> QED
        BY <1>0, <2>3, <3>1 DEF Disable2FA, FactorTypes, memory, history
    <2>4. CASE GenerateRecoveryCodes(q)
      <3>1. codes' \in [batch : 0..MaxBatch, unused : SUBSET (1..NCodes)]
        <4>1. codes.batch \in 0..MaxBatch /\ codes.batch < MaxBatch
          BY <1>0, <2>4 DEF GenerateRecoveryCodes, FactorTypes
        <4> QED
          BY <1>0, <2>4, <4>1 DEF GenerateRecoveryCodes, FactorTypes
      <3> QED
        BY <1>0, <2>4, <3>1 DEF GenerateRecoveryCodes, FactorTypes, memory, history
    <2> QED
      BY <1>16, <2>1, <2>2, <2>3, <2>4
  <1>17. CASE DeleteUser
    BY <1>0, <1>17 DEF DeleteUser, FactorTypes, Users, NoSecret, memory
  <1>18. CASE Tick
    BY <1>0, <1>18 DEF Tick, FactorTypes, memory, history
  <1>19. CASE Restart
    BY <1>0, <1>a, <1>19 DEF Restart, FactorTypes
  <1>20. CASE UNCHANGED vars
    BY <1>0, <1>20 DEF vars, FactorTypes
  <1> QED
    BY <1>1, <1>2, <1>3, <1>4, <1>6, <1>8, <1>9, <1>10, <1>11, <1>12, <1>13,
       <1>14, <1>15, <1>16, <1>17, <1>18, <1>19, <1>20 DEF Next

(* A recovery code is spent by the step that accepts it. *)
LEMMA RecoverySpent ==
    ASSUME FactorInv, FactorTypes', NEW r \in Reqs, UseRecoveryCode(r)
    PROVE  RecoveryInv' /\ TotpInv'
  <1>1. PICK c \in 1..NCodes :
            VerifyRecoveryCode(c) /\ Count(<<"recovery", codes.batch, c>>)
    BY DEF UseRecoveryCode
  <1> DEFINE spent == <<"recovery", codes.batch, c>>
  <1>2. /\ codes'.batch = codes.batch /\ codes'.unused = codes.unused \ {c}
        /\ c \in codes.unused
    BY <1>1 DEF VerifyRecoveryCode, FactorInv, FactorTypes
  <1>3. \A f \in Totp \cup Recovery :
            uses'[f] = IF f = spent THEN IF uses[f] < 2 THEN uses[f] + 1 ELSE 2 ELSE uses[f]
    BY <1>1 DEF Count, FactorInv, FactorTypes
  <1>4. ASSUME NEW f \in Recovery PROVE uses'[f] <= 1 /\ (Fresh(f)' => uses'[f] = 0)
    <2>1. f = <<"recovery", f[2], f[3]>>
      BY FactorParts
    <2>2. CASE f = spent
      <3>1. f[2] = codes.batch /\ f[3] = c
        BY <2>2
      <3>2. uses[f] = 0
        BY <1>2, <3>1 DEF FactorInv, RecoveryInv, Fresh
      <3>3. uses'[f] = 1
        BY <1>3, <2>2, <3>2
      <3>4. ~ Fresh(f)'
        <4>1. codes.batch \in Int
          BY LoginsAssumption DEF FactorInv, FactorTypes
        <4> QED
          BY <1>2, <3>1, <4>1 DEF Fresh
      <3> QED
        BY <3>3, <3>4
    <2>3. CASE f # spent
      <3>1. uses'[f] = uses[f]
        BY <1>3, <2>3
      <3>2. Fresh(f)' => Fresh(f)
        BY <1>2 DEF Fresh
      <3> QED
        BY <3>1, <3>2 DEF FactorInv, RecoveryInv
    <2> QED
      BY <2>2, <2>3
  <1>5. ASSUME NEW f \in Totp PROVE uses'[f] = uses[f]
    <2>1. f # spent
      BY FactorParts
    <2> QED
      BY <1>3, <2>1
  <1>6. UNCHANGED <<now, seen>>
    BY DEF UseRecoveryCode
  <1>7. TotpInv'
    BY <1>5, <1>6 DEF FactorInv, TotpInv, Remembered
  <1> QED
    BY <1>4, <1>7 DEF RecoveryInv

(* A TOTP code that is accepted was not accepted before: had it been, it   *)
(* would be remembered or no longer valid.  What the memory drops is no    *)
(* longer valid either.                                                    *)
LEMMA TotpSpent ==
    ASSUME FactorInv, FactorTypes', NEW r \in Reqs, UseTotp(r)
    PROVE  RecoveryInv' /\ TotpInv'
  <1> DEFINE secret == reqs[r].row.secret
  <1>1. PICK step \in Steps : /\ Validate(secret, step)
                              /\ MarkUsed(<<"totp", secret, step>>)
                              /\ Count(<<"totp", secret, step>>)
    BY DEF UseTotp
  <1> DEFINE spent == <<"totp", secret, step>>
  <1>a. MaxTime \in Nat /\ Memory \in Nat /\ Memory >= 2
    BY LoginsAssumption
  <1>b. now \in 0..MaxTime /\ now' = now /\ codes' = codes
    BY DEF FactorInv, FactorTypes, UseTotp
  <1>c. \A f \in Totp : f[3] \in Int
    BY FactorParts, <1>a DEF Steps
  <1>d. step >= now - 1 /\ step <= now + 1 /\ step \in Int
    BY <1>1, <1>a, <1>b DEF Validate, Steps
  <1>2. \A f \in Totp \cup Recovery :
            uses'[f] = IF f = spent THEN IF uses[f] < 2 THEN uses[f] + 1 ELSE 2 ELSE uses[f]
    BY <1>1 DEF Count, FactorInv, FactorTypes
  <1>3. ASSUME NEW f \in Recovery PROVE uses'[f] = uses[f]
    <2>1. f # spent
      BY FactorParts
    <2> QED
      BY <1>2, <2>1
  <1>4. RecoveryInv'
    BY <1>3, <1>b DEF FactorInv, RecoveryInv, Fresh
  <1>5. ASSUME NEW f \in Totp, NEW t \in 0..MaxTime,
               <<f, t>> \in seen, t >= f[3] - 1
        PROVE  <<f, t>> \in seen' \/ now > f[3] + 1
    <2>1. CASE Forgotten(t)
      BY <1>5, <2>1, <1>a, <1>b, <1>c DEF Forgotten
    <2>2. CASE ~Forgotten(t)
      <3> DEFINE e == <<f, t>>
      <3>1. e \in seen /\ e[2] = t
        BY <1>5
      <3>2. ~Forgotten(e[2])
        BY <2>2, <3>1
      <3> HIDE DEF e
      <3>3. e \in seen'
        BY <1>1, <3>1, <3>2 DEF MarkUsed
      <3> QED
        BY <3>3 DEF e
    <2> QED
      BY <2>1, <2>2
  <1>6. <<spent, now>> \in seen' /\ \A t : <<spent, t>> \in seen => Forgotten(t)
    BY <1>1 DEF MarkUsed
  <1>7. ASSUME NEW f \in Totp
        PROVE  uses'[f] <= 1 /\ (uses'[f] # 0 => now' > f[3] + 1 \/ Remembered(f)')
    <2>1. CASE f = spent
      <3>1. f[3] = step
        BY <2>1
      <3>2. ~ Remembered(f)
        <4> SUFFICES ASSUME NEW t \in 0..MaxTime, <<f, t>> \in seen, t >= f[3] - 1
                     PROVE  FALSE
          BY DEF Remembered
        <4>1. Forgotten(t)
          BY <1>6, <2>1
        <4> QED
          BY <4>1, <1>a, <1>b, <1>d, <3>1 DEF Forgotten
      <3>3. uses[f] = 0
        BY <3>1, <3>2, <1>a, <1>b, <1>d DEF FactorInv, TotpInv
      <3>4. uses'[f] = 1
        BY <1>2, <2>1, <3>3
      <3>5. Remembered(f)'
        BY <1>6, <1>a, <1>b, <1>d, <2>1, <3>1 DEF Remembered
      <3> QED
        BY <3>4, <3>5
    <2>2. CASE f # spent
      <3>1. uses'[f] = uses[f]
        BY <1>2, <2>2
      <3>2. Remembered(f) => Remembered(f)' \/ now > f[3] + 1
        BY <1>5 DEF Remembered
      <3> QED
        BY <3>1, <3>2, <1>b DEF FactorInv, TotpInv
    <2> QED
      BY <2>1, <2>2
  <1> QED
    BY <1>4, <1>7 DEF TotpInv

(* Every step keeps the invariant: one step per action that touches codes, *)
(* memory, counts or the clock, the frame lemma for all the others.        *)
LEMMA FactorStep == FactorInv /\ [Next]_vars => FactorInv'
  <1> SUFFICES ASSUME FactorInv, [Next]_vars, FactorTypes'
               PROVE  RecoveryInv' /\ TotpInv'
    BY FactorTypesStep DEF FactorInv
  <1>n. now \in 0..MaxTime /\ MaxTime \in Nat /\ MaxBatch \in Nat /\ NCodes \in Nat
    BY LoginsAssumption DEF FactorInv, FactorTypes
  <1>f. ASSUME UNCHANGED <<now, codes, seen, uses>> PROVE RecoveryInv' /\ TotpInv'
    BY <1>f, <1>n, FactorFrame
  <1>1. ASSUME NEW r \in Reqs,
               Admit(r) \/ GetByUsername(r) \/ Reject(r) \/ AskFactor(r) \/ PasswordOnly(r)
               \/ OpenSession(r) \/ OpenFails(r) \/ EnforceLimit(r)
        PROVE  RecoveryInv' /\ TotpInv'
    <2>1. UNCHANGED <<now, codes, seen, uses>>
      BY <1>1 DEF Admit, GetByUsername, Reject, AskFactor, PasswordOnly, OpenSession,
                  OpenFails, EnforceLimit, memory, history
    <2> QED
      BY <1>f, <2>1
  <1>2. ASSUME NEW r \in Reqs, UseRecoveryCode(r) PROVE RecoveryInv' /\ TotpInv'
    BY <1>2, RecoverySpent
  <1>3. ASSUME NEW r \in Reqs, UseTotp(r) PROVE RecoveryInv' /\ TotpInv'
    BY <1>3, TotpSpent
  <1>4. CASE Logout \/ StopImpersonation \/ Impersonate \/ Setup2FA
    <2>1. UNCHANGED <<now, codes, seen, uses>>
      BY <1>4 DEF Logout, StopImpersonation, Impersonate, Setup2FA, memory, history
    <2> QED
      BY <1>f, <2>1
  <1>5. ASSUME NEW q \in Settings,
               CheckEnable(q) \/ CheckDisable(q) \/ CheckEnabled(q)
               \/ Enable2FA(q) \/ Disable2FA(q)
        PROVE  RecoveryInv' /\ TotpInv'
    <2>1. UNCHANGED <<now, codes, seen, uses>>
      BY <1>5 DEF CheckEnable, CheckDisable, CheckEnabled, Begin2FA, Enable2FA, Disable2FA,
                  memory, history
    <2> QED
      BY <1>f, <2>1
  <1>6. ASSUME NEW q \in Settings, GenerateRecoveryCodes(q) PROVE RecoveryInv' /\ TotpInv'
    <2>1. UNCHANGED <<now, seen, uses>>
      BY <1>6 DEF GenerateRecoveryCodes, memory, history
    <2>2. codes.batch \in Int /\ (codes' = codes \/ codes'.batch = codes.batch + 1)
      BY <1>6, <1>n DEF GenerateRecoveryCodes, FactorInv, FactorTypes
    <2>3. ASSUME NEW f \in Recovery PROVE Fresh(f)' => Fresh(f)
      <3>1. f[2] \in Int
        BY FactorParts, <1>n
      <3> QED
        BY <2>2, <3>1 DEF Fresh
    <2>4. RecoveryInv'
      BY <2>1, <2>3 DEF FactorInv, RecoveryInv
    <2>5. TotpInv'
      BY <2>1 DEF FactorInv, TotpInv, Remembered
    <2> QED
      BY <2>4, <2>5
  <1>7. CASE DeleteUser
    <2>1. UNCHANGED <<now, seen, uses>>
      BY <1>7 DEF DeleteUser, memory
    <2>2. codes'.batch = codes.batch /\ codes'.unused = {}
      BY <1>7 DEF DeleteUser, FactorInv, FactorTypes
    <2>3. RecoveryInv'
      BY <2>1, <2>2 DEF FactorInv, RecoveryInv, Fresh
    <2>4. TotpInv'
      BY <2>1 DEF FactorInv, TotpInv, Remembered
    <2> QED
      BY <2>3, <2>4
  <1>8. CASE Tick
    <2>1. UNCHANGED <<codes, seen, uses>> /\ now' \in 0..MaxTime /\ now' >= now
      BY <1>8, <1>n DEF Tick, memory, history
    <2> QED
      BY <2>1, FactorFrame
  <1>9. CASE Restart
    <2>1. UNCHANGED <<now, codes>>
      BY <1>9 DEF Restart
    <2>2. /\ \A f \in Totp : uses'[f] = 0
          /\ \A f \in Recovery : uses'[f] = uses[f]
      BY <1>9, FactorsDisjoint DEF Restart
    <2>3. RecoveryInv'
      BY <2>1, <2>2 DEF FactorInv, RecoveryInv, Fresh
    <2>4. TotpInv'
      BY <2>2 DEF TotpInv
    <2> QED
      BY <2>3, <2>4
  <1>10. CASE UNCHANGED vars
    BY <1>f, <1>10 DEF vars
  <1> QED
    BY <1>1, <1>2, <1>3, <1>4, <1>5, <1>6, <1>7, <1>8, <1>9, <1>10 DEF Next

(* The invariant holds throughout. *)
LEMMA FactorAlways == Spec => []FactorInv
  BY FactorInit, FactorStep, PTL DEF Spec

(* VerifyRecoveryCode: however many logins present it at once, a recovery  *)
(* code lets at most one of them pass.                                     *)
THEOREM RecoveryCodeOnceHolds == Spec => []RecoveryCodeOnce
  <1>1. FactorInv => RecoveryCodeOnce
    BY DEF FactorInv, RecoveryInv, RecoveryCodeOnce
  <1> QED
    BY <1>1, FactorAlways, PTL

(* usedTOTP: as long as the process runs, a TOTP code lets at most one     *)
(* login pass, for every memory of at least two periods.                   *)
THEOREM TotpCodeOnceHolds == Spec => []TotpCodeOnce
  <1>1. FactorInv => TotpCodeOnce
    BY DEF FactorInv, TotpInv, TotpCodeOnce
  <1> QED
    BY <1>1, FactorAlways, PTL

(***************************************************************************)
(* The sessions of the account                                             *)
(***************************************************************************)

Flags == BOOLEAN
SessionRow == [exp : Nat, state : {"active", "revoked", "trimmed"}, imp : Flags]

(* The table, and the two properties of it, which are inductive with it. *)
SessionTypes == sessions \in Seq(SessionRow) /\ untrimmed \in Nat
SessionInv == SessionTypes /\ SessionLimit /\ NewestSurvive

(* A set of naturals that is not empty has a least element. *)
LEMMA LeastOf ==
    ASSUME NEW S \in SUBSET Nat, S # {}
    PROVE  \E x \in S : \A y \in S : x <= y
  <1>1. IsWellFoundedOn({ss \in Nat \X Nat : ss[1] < ss[2]}, Nat)
    BY NatLessThanWellFounded DEF OpToRel
  <1>2. PICK R : R = {ss \in Nat \X Nat : ss[1] < ss[2]}
    OBVIOUS
  <1>3. PICK x \in S : \A y \in S : ~(<<y, x>> \in R)
    BY <1>1, <1>2, WFMin
  <1>4. \A y \in S : ~(y < x)
    BY <1>2, <1>3
  <1> QED
    BY <1>4

(* Of the members of a finite set of naturals, at most m have fewer than m *)
(* larger ones.                                                            *)
LEMMA LargestFew ==
    ASSUME NEW n \in Nat, NEW A \in SUBSET (1..n), NEW m \in Nat \ {0},
           NEW K, K = {i \in A : ~(Cardinality({j \in A : j > i}) >= m)}
    PROVE  IsFiniteSet(K) /\ Cardinality(K) \in Nat /\ Cardinality(K) <= m
  <1>1. IsFiniteSet(1..n)
    BY FS_Interval
  <1>2. IsFiniteSet(A)
    BY <1>1, FS_Subset
  <1>3. K \in SUBSET A
    OBVIOUS
  <1>4. IsFiniteSet(K) /\ Cardinality(K) \in Nat
    BY <1>2, <1>3, FS_Subset, FS_CardinalityType
  <1>5. CASE K = {}
    <2>1. Cardinality(K) = 0
      BY <1>4, <1>5, FS_EmptySet, Zenon
    <2>2. m >= 0
      OBVIOUS
    <2> QED
      BY <1>4, <2>1, <2>2
  <1>6. CASE K # {}
    <2>0. \A y \in 1..n : y \in Nat
      OBVIOUS
    <2>1. K \in SUBSET Nat
      BY <1>3, <2>0, Zenon
    <2>2. PICK x \in K : \A y \in K : x <= y
      BY <1>6, <2>1, LeastOf
    <2>3. PICK L : L = {j \in A : j > x}
      OBVIOUS
    <2>4. x \in A /\ ~(Cardinality(L) >= m)
      BY <2>2, <2>3
    <2>5. L \in SUBSET A
      BY <2>3
    <2>6. IsFiniteSet(L) /\ Cardinality(L) \in Nat
      BY <1>2, <2>5, FS_Subset, FS_CardinalityType
    <2>7. K \ {x} \in SUBSET L
      BY <1>3, <2>1, <2>2, <2>3
    <2>8. Cardinality(K \ {x}) <= Cardinality(L)
      BY <2>6, <2>7, FS_Subset
    <2>9. Cardinality(K \ {x}) = Cardinality(K) - 1
      BY <1>4, <2>2, FS_RemoveElement
    <2> QED
      BY <1>4, <2>4, <2>6, <2>8, <2>9
  <1> QED
    BY <1>4, <1>5, <1>6

(* What has m members above it in 1..n lies m or more below n. *)
LEMMA RoomAbove ==
    ASSUME NEW n \in Nat, NEW A \in SUBSET (1..n), NEW m \in Nat, NEW i \in A,
           Cardinality({j \in A : j > i}) >= m
    PROVE  n - i >= m
  <1>1. PICK L : L = {j \in A : j > i}
    OBVIOUS
  <1>2. i \in 1..n /\ Cardinality(L) >= m
    BY <1>1
  <1>a. \A j \in L : j \in 1..n /\ j > i
    BY <1>1, Zenon
  <1>b. \A j \in 1..n : j > i => j \in (i + 1)..n
    BY <1>2
  <1>3. L \in SUBSET ((i + 1)..n)
    BY <1>a, <1>b, Zenon
  <1>4. IsFiniteSet((i + 1)..n) /\ Cardinality((i + 1)..n) = n - i
    BY <1>2, FS_Interval
  <1>5. Cardinality(L) <= Cardinality((i + 1)..n) /\ Cardinality(L) \in Nat
    BY <1>3, <1>4, FS_Subset, FS_CardinalityType
  <1> QED
    BY <1>2, <1>4, <1>5

(* The active sessions are among the rows, so there are finitely many. *)
LEMMA ActiveFinite ==
    ASSUME SessionTypes
    PROVE  /\ Len(sessions) \in Nat /\ DOMAIN sessions = 1..Len(sessions)
           /\ ActiveIds \in SUBSET (1..Len(sessions))
           /\ IsFiniteSet(ActiveIds) /\ Cardinality(ActiveIds) \in Nat
  <1>1. Len(sessions) \in Nat /\ DOMAIN sessions = 1..Len(sessions)
    BY DEF SessionTypes
  <1>2. ActiveIds \in SUBSET (1..Len(sessions))
    BY <1>1 DEF ActiveIds
  <1>3. IsFiniteSet(1..Len(sessions))
    BY <1>1, FS_Interval
  <1>4. IsFiniteSet(ActiveIds)
    BY <1>2, <1>3, FS_Subset
  <1> QED
    BY <1>1, <1>2, <1>4, FS_CardinalityType

(* There is no session at first. *)
LEMMA SessionInit == Init => SessionInv
  <1> SUFFICES ASSUME Init PROVE SessionInv
    OBVIOUS
  <1>1. sessions = <<>> /\ untrimmed = 0
    BY DEF Init
  <1>2. <<>> \in Seq(SessionRow)
    OBVIOUS
  <1>3. SessionTypes
    BY <1>1, <1>2 DEF SessionTypes
  <1>4. ActiveIds = {}
    BY <1>1 DEF ActiveIds
  <1>5. SessionLimit
    BY <1>1, <1>4, FS_EmptySet, LoginsAssumption DEF SessionLimit
  <1>6. NewestSurvive
    BY <1>1 DEF NewestSurvive
  <1> QED
    BY <1>3, <1>5, <1>6 DEF SessionInv

(* A step that makes no session active and trims none keeps the invariant. *)
LEMMA SessionFrame ==
    ASSUME SessionInv, SessionTypes', untrimmed' = untrimmed,
           Len(sessions') = Len(sessions), ActiveIds' \subseteq ActiveIds,
           \A i \in DOMAIN sessions : sessions'[i].state = "trimmed"
                                          => sessions[i].state = "trimmed"
    PROVE  SessionInv'
  <1>1. /\ Len(sessions) \in Nat /\ DOMAIN sessions = 1..Len(sessions)
        /\ IsFiniteSet(ActiveIds) /\ Cardinality(ActiveIds) \in Nat
    BY ActiveFinite DEF SessionInv
  <1>2. DOMAIN sessions' = DOMAIN sessions
    BY <1>1 DEF SessionTypes
  <1>3. PICK B \in SUBSET ActiveIds : B = ActiveIds'
    OBVIOUS
  <1>4. Cardinality(B) <= Cardinality(ActiveIds) /\ Cardinality(B) \in Nat
    BY <1>1, FS_Subset, FS_CardinalityType
  <1>5. SessionLimit'
    BY <1>1, <1>3, <1>4, LoginsAssumption DEF SessionInv, SessionTypes, SessionLimit
  <1>6. NewestSurvive'
    BY <1>2 DEF SessionInv, NewestSurvive
  <1> QED
    BY <1>5, <1>6 DEF SessionInv

(* RevokeOldest leaves at most the youngest maxSessionsPerUser active, and *)
(* each session that it takes has that many younger ones.                  *)
LEMMA SessionTrim ==
    ASSUME SessionInv, RevokeOldest, now' = now
    PROVE  SessionInv'
  <1>0. /\ Len(sessions) \in Nat /\ DOMAIN sessions = 1..Len(sessions)
        /\ ActiveIds \in SUBSET (1..Len(sessions))
    BY ActiveFinite DEF SessionInv
  <1>m. MaxSessions \in Nat \ {0}
    BY LoginsAssumption
  <1>1. /\ untrimmed' = 0
        /\ sessions' = [i \in 1..Len(sessions) |->
                          IF i \in Surplus THEN [sessions[i] EXCEPT !.state = "trimmed"]
                          ELSE sessions[i]]
    BY <1>0 DEF RevokeOldest
  <1>2. \A i \in 1..Len(sessions) : sessions[i] \in SessionRow
    BY <1>0 DEF SessionInv, SessionTypes
  <1>3. ASSUME NEW i \in 1..Len(sessions)
        PROVE  /\ sessions'[i] \in SessionRow
               /\ i \in Surplus => sessions'[i].state = "trimmed"
               /\ i \notin Surplus => sessions'[i] = sessions[i]
    <2>1. sessions[i] \in SessionRow
      BY <1>2
    <2>2. PICK row : row = [sessions[i] EXCEPT !.state = "trimmed"]
      OBVIOUS
    <2>3. row \in SessionRow /\ row.state = "trimmed"
      BY <2>1, <2>2 DEF SessionRow
    <2>4. sessions'[i] = IF i \in Surplus THEN row ELSE sessions[i]
      BY <1>1, <2>2
    <2> QED
      BY <2>1, <2>3, <2>4
  <1>4. sessions' \in Seq(SessionRow) /\ Len(sessions') = Len(sessions)
    <2>1. PICK n \in Nat : n = Len(sessions)
      BY <1>0
    <2>2. sessions' \in [1..n -> SessionRow]
      BY <1>1, <1>3, <2>1
    <2> QED
      BY <2>1, <2>2
  <1>5. SessionTypes'
    BY <1>1, <1>4 DEF SessionTypes
  <1>6. DOMAIN sessions' = 1..Len(sessions)
    BY <1>1
  <1>7. PICK n \in Nat : n = Len(sessions)
    BY <1>0
  <1>8. PICK A \in SUBSET (1..n) : A = ActiveIds
    BY <1>0, <1>7
  <1>9. \A i \in A : i \in Surplus <=> Cardinality({j \in A : j > i}) >= MaxSessions
    BY <1>8 DEF Surplus
  <1>10. \A i \in Surplus : i \in A
    BY <1>8 DEF Surplus
  <1>11. PICK K : K = {i \in A : ~(Cardinality({j \in A : j > i}) >= MaxSessions)}
    OBVIOUS
  <1>12. ActiveIds' \in SUBSET K
    <2> SUFFICES ASSUME NEW i \in ActiveIds' PROVE i \in K
      OBVIOUS
    <2>1. i \in 1..Len(sessions) /\ sessions'[i].state = "active" /\ sessions'[i].exp > now
      BY <1>6 DEF ActiveIds, Active
    <2>2. i \notin Surplus
      BY <1>3, <2>1
    <2>3. i \in A
      BY <1>0, <1>3, <1>8, <2>1, <2>2 DEF ActiveIds, Active
    <2> QED
      BY <1>9, <1>11, <2>2, <2>3
  <1>13. IsFiniteSet(K) /\ Cardinality(K) \in Nat /\ Cardinality(K) <= MaxSessions
    BY <1>m, <1>11, LargestFew
  <1>14. PICK B \in SUBSET K : B = ActiveIds'
    BY <1>12
  <1>15. Cardinality(B) <= Cardinality(K) /\ Cardinality(B) \in Nat
    BY <1>13, FS_Subset, FS_CardinalityType
  <1>16. SessionLimit'
    BY <1>m, <1>1, <1>13, <1>14, <1>15 DEF SessionLimit
  <1>17. ASSUME NEW i \in 1..Len(sessions), sessions'[i].state = "trimmed"
         PROVE  Len(sessions) - i >= MaxSessions
    <2>1. CASE i \in Surplus
      <3>1. i \in A /\ Cardinality({j \in A : j > i}) >= MaxSessions
        BY <1>9, <1>10, <2>1
      <3>2. n - i >= MaxSessions
        BY <1>m, <3>1, RoomAbove
      <3> QED
        BY <1>7, <3>2
    <2>2. CASE i \notin Surplus
      BY <1>0, <1>3, <1>17, <2>2 DEF SessionInv, NewestSurvive
    <2> QED
      BY <2>1, <2>2
  <1>18. NewestSurvive'
    BY <1>4, <1>6, <1>17 DEF NewestSurvive
  <1> QED
    BY <1>5, <1>16, <1>18 DEF SessionInv

(* A new session is one more active session, and one more untrimmed. *)
LEMMA SessionInsert ==
    ASSUME SessionInv, now \in Nat, now' = now, NEW imp \in Flags, CreateSession(imp)
    PROVE  SessionInv'
  <1>0. /\ Len(sessions) \in Nat /\ DOMAIN sessions = 1..Len(sessions)
        /\ IsFiniteSet(ActiveIds) /\ Cardinality(ActiveIds) \in Nat
        /\ sessions \in Seq(SessionRow) /\ untrimmed \in Nat
    BY ActiveFinite DEF SessionInv, SessionTypes
  <1>m. MaxSessions \in Nat \ {0} /\ MaxTime \in Nat
    BY LoginsAssumption
  <1>1. PICK ttl \in TTLs : sessions' = Append(sessions, [exp |-> Expiry(ttl), state |-> "active",
                                                         imp |-> imp])
    BY DEF CreateSession
  <1>2. Expiry(ttl) \in Nat
    <2>1. ttl \in Nat
      BY LoginsAssumption
    <2> QED
      BY <2>1, <1>m DEF Expiry
  <1>3. PICK row : row = [exp |-> Expiry(ttl), state |-> "active", imp |-> imp]
    OBVIOUS
  <1>4. row \in SessionRow /\ row.state = "active"
    BY <1>2, <1>3 DEF SessionRow
  <1>5. sessions' = Append(sessions, row) /\ untrimmed' = untrimmed + 1
    BY <1>1, <1>3 DEF CreateSession
  <1>6. PICK n \in Nat : n = Len(sessions)
    BY <1>0
  <1>7. /\ sessions' \in Seq(SessionRow) /\ Len(sessions') = n + 1
        /\ DOMAIN sessions' = 1..(n + 1)
        /\ sessions'[n + 1] = row
        /\ \A i \in 1..n : sessions'[i] = sessions[i]
    BY <1>0, <1>4, <1>5, <1>6
  <1>8. \A i \in 1..(n + 1) : i \in 1..n \/ i = n + 1
    OBVIOUS
  <1>9. SessionTypes'
    BY <1>0, <1>5, <1>7 DEF SessionTypes
  <1>10. PICK A : A = ActiveIds
    OBVIOUS
  <1>11. ActiveIds' \in SUBSET (A \cup {n + 1})
    BY <1>0, <1>6, <1>7, <1>8, <1>10 DEF ActiveIds, Active
  <1>12. PICK B \in SUBSET (A \cup {n + 1}) : B = ActiveIds'
    BY <1>11
  <1>13. IsFiniteSet(A) /\ Cardinality(A) \in Nat /\ Cardinality(A) <= MaxSessions + untrimmed
    BY <1>0, <1>10 DEF SessionInv, SessionLimit
  <1>14. /\ IsFiniteSet(A \cup {n + 1})
         /\ (\/ Cardinality(A \cup {n + 1}) = Cardinality(A)
             \/ Cardinality(A \cup {n + 1}) = Cardinality(A) + 1)
    BY <1>13, FS_AddElement
  <1>15. Cardinality(B) <= Cardinality(A \cup {n + 1}) /\ Cardinality(B) \in Nat
    BY <1>12, <1>14, FS_Subset, FS_CardinalityType
  <1>16. Cardinality(B) <= MaxSessions + (untrimmed + 1)
    BY <1>0, <1>m, <1>13, <1>14, <1>15
  <1>17. SessionLimit'
    BY <1>5, <1>12, <1>16 DEF SessionLimit
  <1>18. ASSUME NEW i \in 1..(n + 1), sessions'[i].state = "trimmed"
         PROVE  (n + 1) - i >= MaxSessions
    <2>1. i \in 1..n
      BY <1>4, <1>7, <1>8, <1>18
    <2>2. sessions[i].state = "trimmed"
      BY <1>7, <1>18, <2>1
    <2>3. n - i >= MaxSessions
      BY <1>0, <1>6, <2>1, <2>2 DEF SessionInv, NewestSurvive
    <2> QED
      BY <1>m, <2>1, <2>3
  <1>19. NewestSurvive'
    BY <1>7, <1>18 DEF NewestSurvive
  <1> QED
    BY <1>9, <1>17, <1>19 DEF SessionInv

(* Revoking a session makes none active. *)
LEMMA SessionRevoked ==
    ASSUME SessionInv, now' = now, untrimmed' = untrimmed, NEW k \in ActiveIds, Revoke(k)
    PROVE  SessionInv'
  <1>0. /\ Len(sessions) \in Nat /\ DOMAIN sessions = 1..Len(sessions)
        /\ sessions \in Seq(SessionRow) /\ untrimmed \in Nat /\ k \in 1..Len(sessions)
    BY ActiveFinite DEF SessionInv, SessionTypes
  <1>1. PICK row : row = [sessions[k] EXCEPT !.state = "revoked"]
    OBVIOUS
  <1>2. sessions[k] \in SessionRow
    BY <1>0
  <1>3. row \in SessionRow /\ row.state = "revoked"
    BY <1>1, <1>2 DEF SessionRow
  <1>4. sessions' = [sessions EXCEPT ![k] = row]
    BY <1>0, <1>1 DEF Revoke
  <1>5. sessions' \in Seq(SessionRow) /\ Len(sessions') = Len(sessions)
    BY <1>0, <1>3, <1>4
  <1>6. /\ DOMAIN sessions' = 1..Len(sessions)
        /\ \A i \in 1..Len(sessions) : sessions'[i] = IF i = k THEN row ELSE sessions[i]
    BY <1>0, <1>4
  <1>7. ActiveIds' \subseteq ActiveIds
    BY <1>0, <1>3, <1>6 DEF ActiveIds, Active
  <1>8. \A i \in DOMAIN sessions : sessions'[i].state = "trimmed" => sessions[i].state = "trimmed"
    BY <1>0, <1>3, <1>6
  <1>9. SessionTypes'
    BY <1>0, <1>5 DEF SessionTypes
  <1> QED
    BY <1>5, <1>7, <1>8, <1>9, SessionFrame

(* Sessions that nobody touches may only expire. *)
LEMMA SessionAged ==
    ASSUME SessionInv, now \in Nat, now' \in Nat, now' >= now, UNCHANGED <<sessions, untrimmed>>
    PROVE  SessionInv'
  <1>0. DOMAIN sessions = 1..Len(sessions) /\ SessionTypes
    BY ActiveFinite DEF SessionInv
  <1>1. \A i \in DOMAIN sessions : sessions[i].exp \in Nat
    <2>1. \A i \in DOMAIN sessions : sessions[i] \in SessionRow
      BY <1>0 DEF SessionTypes
    <2> QED
      BY <2>1 DEF SessionRow
  <1>2. SessionTypes'
    BY <1>0 DEF SessionTypes
  <1>3. ActiveIds' \subseteq ActiveIds
    BY <1>1 DEF ActiveIds, Active
  <1> QED
    BY <1>2, <1>3, SessionFrame

(* Every step keeps the invariant: one lemma for each way in which the     *)
(* table changes.                                                          *)
LEMMA SessionStep == SessionInv /\ FactorInv /\ [Next]_vars => SessionInv'
  <1> SUFFICES ASSUME SessionInv, FactorInv, [Next]_vars PROVE SessionInv'
    OBVIOUS
  <1>n. now \in Nat
    BY LoginsAssumption DEF FactorInv, FactorTypes
  <1>f. ASSUME UNCHANGED <<now, sessions, untrimmed>> PROVE SessionInv'
    BY <1>f, <1>n, SessionAged
  <1>g. TRUE \in Flags /\ FALSE \in Flags
    BY DEF Flags
  <1>1. ASSUME NEW r \in Reqs,
               Admit(r) \/ GetByUsername(r) \/ Reject(r) \/ AskFactor(r) \/ PasswordOnly(r)
               \/ UseRecoveryCode(r) \/ UseTotp(r) \/ OpenFails(r)
        PROVE  SessionInv'
    <2>1. UNCHANGED <<now, sessions, untrimmed>>
      BY <1>1 DEF Admit, GetByUsername, Reject, AskFactor, PasswordOnly, UseRecoveryCode,
                  UseTotp, OpenFails, history
    <2> QED
      BY <1>f, <2>1
  <1>2. ASSUME NEW r \in Reqs, OpenSession(r) PROVE SessionInv'
    <2>1. CreateSession(FALSE) /\ now' = now
      BY <1>2 DEF OpenSession
    <2> QED
      BY <1>n, <1>g, <2>1, SessionInsert, Zenon
  <1>3. ASSUME NEW r \in Reqs, EnforceLimit(r) PROVE SessionInv'
    <2>1. now' = now /\ (RevokeOldest \/ UNCHANGED <<sessions, untrimmed>>)
      BY <1>3 DEF EnforceLimit
    <2> QED
      BY <1>f, <2>1, SessionTrim
  <1>4. CASE Logout \/ StopImpersonation
    <2>1. now' = now /\ untrimmed' = untrimmed /\ \E i \in ActiveIds : Revoke(i)
      BY <1>4 DEF Logout, StopImpersonation, history
    <2> QED
      BY <2>1, SessionRevoked
  <1>5. CASE Impersonate
    <2>1. CreateSession(TRUE) /\ now' = now
      BY <1>5 DEF Impersonate
    <2> QED
      BY <1>n, <1>g, <2>1, SessionInsert, Zenon
  <1>6. CASE Setup2FA \/ Restart
    <2>1. UNCHANGED <<now, sessions, untrimmed>>
      BY <1>6 DEF Setup2FA, Restart, history
    <2> QED
      BY <1>f, <2>1
  <1>7. ASSUME NEW q \in Settings,
               CheckEnable(q) \/ CheckDisable(q) \/ CheckEnabled(q)
               \/ Enable2FA(q) \/ Disable2FA(q) \/ GenerateRecoveryCodes(q)
        PROVE  SessionInv'
    <2>1. UNCHANGED <<now, sessions, untrimmed>>
      BY <1>7 DEF CheckEnable, CheckDisable, CheckEnabled, Begin2FA, Enable2FA, Disable2FA,
                  GenerateRecoveryCodes, history
    <2> QED
      BY <1>f, <2>1
  <1>8. CASE DeleteUser
    <2>1. sessions' = <<>> /\ untrimmed' = 0
      BY <1>8 DEF DeleteUser
    <2>2. <<>> \in Seq(SessionRow)
      OBVIOUS
    <2>3. SessionTypes'
      BY <2>1, <2>2 DEF SessionTypes
    <2>4. ActiveIds' = {}
      BY <2>1 DEF ActiveIds
    <2>5. SessionLimit'
      BY <2>1, <2>4, FS_EmptySet, LoginsAssumption DEF SessionLimit
    <2>6. NewestSurvive'
      BY <2>1 DEF NewestSurvive
    <2> QED
      BY <2>3, <2>5, <2>6 DEF SessionInv
  <1>9. CASE Tick
    <2>1. UNCHANGED <<sessions, untrimmed>> /\ now' \in Nat /\ now' >= now
      BY <1>9, <1>n DEF Tick, history
    <2> QED
      BY <1>n, <2>1, SessionAged
  <1>10. CASE UNCHANGED vars
    BY <1>f, <1>10 DEF vars
  <1> QED
    BY <1>1, <1>2, <1>3, <1>4, <1>5, <1>6, <1>7, <1>8, <1>9, <1>10 DEF Next

(* The table's invariant holds throughout. *)
LEMMA SessionAlways == Spec => []SessionInv
  BY SessionInit, SessionStep, FactorAlways, PTL DEF Spec

(* maxSessionsPerUser: whatever logins, impersonations and failures of     *)
(* RevokeOldest there are, the active sessions exceed the limit by no more *)
(* than were inserted since it last ran.                                   *)
THEOREM SessionLimitHolds == Spec => []SessionLimit
  BY SessionAlways, PTL DEF SessionInv

(* RevokeOldest never takes a session that is not followed by              *)
(* maxSessionsPerUser younger ones, however logins overlap.                *)
THEOREM NewestSurviveHolds == Spec => []NewestSurvive
  BY SessionAlways, PTL DEF SessionInv

(***************************************************************************)
(* The counter of failed logins                                            *)
(***************************************************************************)

(* The logins that were let in and have not been answered: each may fail.  *)
InFlight == {r \in Reqs : reqs[r].pc \in {"admitted", "read"}}

(* The failures that count and the logins that may still add to them stay  *)
(* within the bound together.                                              *)
FailTypes == fails \in SUBSET (Int \X Nat) /\ IsFiniteSet(fails)
RoomLeft == Recent + Cardinality(InFlight) <= FailLimit + Cardinality(Reqs) - 1
FailureInv == FailTypes /\ RoomLeft

(* The sets involved are finite, so their cardinalities are numbers. *)
LEMMA FailFinite ==
    ASSUME FailTypes
    PROVE  /\ IsFiniteSet(Prune(fails)) /\ Recent \in Nat
           /\ IsFiniteSet(InFlight) /\ Cardinality(InFlight) \in Nat
           /\ Cardinality(Reqs) \in Nat /\ Cardinality(InFlight) <= Cardinality(Reqs)
           /\ FailLimit \in Nat \ {0} /\ FailWindow \in Nat
  <1>1. Prune(fails) \in SUBSET fails /\ InFlight \in SUBSET Reqs
    BY DEF Prune, InFlight
  <1>2. IsFiniteSet(Prune(fails)) /\ Recent \in Nat
    BY <1>1, FS_Subset, FS_CardinalityType DEF FailTypes, Recent
  <1>3. IsFiniteSet(Reqs)
    BY LoginsAssumption
  <1>4. /\ IsFiniteSet(InFlight) /\ Cardinality(InFlight) \in Nat
        /\ Cardinality(InFlight) <= Cardinality(Reqs) /\ Cardinality(Reqs) \in Nat
    BY <1>1, <1>3, FS_Subset, FS_CardinalityType
  <1>5. FailLimit \in Nat \ {0} /\ FailWindow \in Nat
    BY LoginsAssumption
  <1> QED
    BY <1>2, <1>4, <1>5

(* There is at least one login, so no failure and all in flight is fine. *)
LEMMA SomeRequest == Cardinality(Reqs) >= 1 /\ Cardinality(Reqs) \in Nat
  <1>1. IsFiniteSet(Reqs) /\ Reqs # {}
    BY LoginsAssumption
  <1>2. Cardinality(Reqs) \in Nat /\ Cardinality(Reqs) # 0
    BY <1>1, FS_CardinalityType, FS_EmptySet
  <1> QED
    BY <1>2

(* With no failure counted there is room, whoever is in flight. *)
LEMMA NoFailures == fails = {} => FailureInv
  <1> SUFFICES ASSUME fails = {} PROVE FailureInv
    OBVIOUS
  <1>1. FailTypes
    BY FS_EmptySet DEF FailTypes
  <1>2. Prune(fails) = {}
    BY DEF Prune
  <1>3. Recent = 0
    BY <1>2, FS_EmptySet DEF Recent
  <1>4. RoomLeft
    BY <1>1, <1>3, FailFinite DEF RoomLeft
  <1> QED
    BY <1>1, <1>4 DEF FailureInv

(* The same of the next state. *)
LEMMA NoFailuresNext == fails' = {} => FailureInv'
  <1>1. (fails = {})' => FailureInv'
    BY NoFailures, PTL
  <1> QED
    BY <1>1

(* Forgetting failures, by time or by pruning, and answering logins keep   *)
(* the invariant.                                                          *)
LEMMA FailureFrame ==
    ASSUME FailureInv, now \in Nat, now' \in Nat, now' >= now,
           fails' \subseteq fails, InFlight' \subseteq InFlight
    PROVE  FailureInv'
  <1>0. /\ IsFiniteSet(Prune(fails)) /\ Recent \in Nat
        /\ IsFiniteSet(InFlight) /\ Cardinality(InFlight) \in Nat
        /\ Cardinality(Reqs) \in Nat /\ FailLimit \in Nat \ {0} /\ FailWindow \in Nat
    BY FailFinite DEF FailureInv
  <1>1. PICK F \in SUBSET fails : F = fails'
    OBVIOUS
  <1>2. IsFiniteSet(F) /\ F \in SUBSET (Int \X Nat)
    BY FS_Subset DEF FailureInv, FailTypes
  <1>3. FailTypes'
    BY <1>1, <1>2 DEF FailTypes
  <1>4. \A e \in F : e \in fails /\ e[1] \in Int
    BY <1>2
  <1>5. Prune(fails)' \in SUBSET Prune(fails)
    BY <1>0, <1>1, <1>4 DEF Prune
  <1>6. PICK P \in SUBSET Prune(fails) : P = Prune(fails)'
    BY <1>5
  <1>7. Cardinality(P) <= Recent /\ Cardinality(P) \in Nat
    BY <1>0, FS_Subset, FS_CardinalityType DEF Recent
  <1>8. PICK G \in SUBSET InFlight : G = InFlight'
    OBVIOUS
  <1>9. Cardinality(G) <= Cardinality(InFlight) /\ Cardinality(G) \in Nat
    BY <1>0, FS_Subset, FS_CardinalityType
  <1>10. Cardinality(P) + Cardinality(G) <= FailLimit + Cardinality(Reqs) - 1
    BY <1>0, <1>7, <1>9 DEF FailureInv, RoomLeft
  <1>11. RoomLeft'
    BY <1>6, <1>8, <1>10 DEF RoomLeft, Recent
  <1> QED
    BY <1>3, <1>11 DEF FailureInv

(* A login is let in only while fewer failures than the limit count. *)
LEMMA Admission ==
    ASSUME FailureInv, now \in Nat, now' = now, ~Blocked, fails' = Prune(fails)
    PROVE  FailureInv'
  <1>0. /\ IsFiniteSet(Prune(fails)) /\ Recent \in Nat /\ FailLimit \in Nat \ {0}
    BY FailFinite DEF FailureInv
  <1>1. FailTypes'
    BY <1>0 DEF FailureInv, FailTypes, Prune
  <1>2. Prune(fails)' = Prune(fails)
    BY DEF Prune
  <1>3. Recent' = Recent /\ Recent < FailLimit
    BY <1>0, <1>2 DEF Recent, Blocked
  <1>4. InFlight' \in SUBSET Reqs
    BY DEF InFlight
  <1>5. PICK G \in SUBSET Reqs : G = InFlight'
    BY <1>4
  <1>6. Cardinality(G) \in Nat /\ Cardinality(G) <= Cardinality(Reqs) /\ Cardinality(Reqs) \in Nat
    BY LoginsAssumption, FS_Subset, FS_CardinalityType
  <1>7. Recent + Cardinality(G) <= FailLimit + Cardinality(Reqs) - 1
    BY <1>0, <1>3, <1>6
  <1>8. RoomLeft'
    BY <1>3, <1>5, <1>7 DEF RoomLeft
  <1> QED
    BY <1>1, <1>8 DEF FailureInv

(* A login that fails adds one failure and is no longer in flight. *)
LEMMA OneMoreFailure ==
    ASSUME FailureInv, now \in Nat, now' = now, Fail,
           NEW r \in InFlight, InFlight' = InFlight \ {r}
    PROVE  FailureInv'
  <1>0. /\ IsFiniteSet(Prune(fails)) /\ Recent \in Nat
        /\ IsFiniteSet(InFlight) /\ Cardinality(InFlight) \in Nat
        /\ Cardinality(Reqs) \in Nat /\ FailLimit \in Nat \ {0} /\ FailWindow \in Nat
    BY FailFinite DEF FailureInv
  <1>1. PICK K : K = Prune(fails)
    OBVIOUS
  <1>2. IsFiniteSet(K) /\ Cardinality(K) = Recent /\ K \in SUBSET (Int \X Nat)
    BY <1>0, <1>1 DEF Recent, FailureInv, FailTypes, Prune
  <1>3. PICK number : /\ number = Cardinality({e \in K : e[1] = now})
                      /\ fails' = K \cup {<<now, number>>}
    BY <1>1 DEF Fail
  <1>4. number \in Nat
    <2>1. PICK N : N = {e \in K : e[1] = now}
      OBVIOUS
    <2>2. N \in SUBSET K
      BY <2>1
    <2>3. Cardinality(N) \in Nat
      BY <1>2, <2>2, FS_Subset, FS_CardinalityType
    <2> QED
      BY <1>3, <2>1, <2>3
  <1>5. PICK f : f = <<now, number>>
    OBVIOUS
  <1>6. f \in Int \X Nat /\ f[1] = now
    BY <1>4, <1>5
  <1>7. PICK F : F = K \cup {f}
    OBVIOUS
  <1>8. /\ IsFiniteSet(F) /\ Cardinality(F) \in Nat /\ Cardinality(F) <= Recent + 1
        /\ F \in SUBSET (Int \X Nat)
    <2>1. /\ IsFiniteSet(F)
          /\ Cardinality(F) = IF f \in K THEN Cardinality(K) ELSE Cardinality(K) + 1
      BY <1>2, <1>7, FS_AddElement
    <2>2. F \in SUBSET (Int \X Nat)
      BY <1>2, <1>6, <1>7
    <2> QED
      BY <1>0, <1>2, <2>1, <2>2
  <1>9. fails' = F
    BY <1>3, <1>5, <1>7
  <1>10. FailTypes'
    BY <1>8, <1>9 DEF FailTypes
  <1>11. Prune(fails)' \in SUBSET F
    BY <1>9 DEF Prune
  <1>12. PICK P \in SUBSET F : P = Prune(fails)'
    BY <1>11
  <1>13. Cardinality(P) <= Cardinality(F) /\ Cardinality(P) \in Nat
    BY <1>8, FS_Subset, FS_CardinalityType
  <1>14. PICK G : G = InFlight \ {r}
    OBVIOUS
  <1>15. Cardinality(G) = Cardinality(InFlight) - 1
    BY <1>0, <1>14, FS_RemoveElement
  <1>16. Cardinality(P) + Cardinality(G) <= FailLimit + Cardinality(Reqs) - 1
    BY <1>0, <1>8, <1>13, <1>15 DEF FailureInv, RoomLeft
  <1>17. RoomLeft'
    BY <1>12, <1>14, <1>16 DEF RoomLeft, Recent
  <1> QED
    BY <1>10, <1>17 DEF FailureInv

(* Every step keeps the invariant. *)
LEMMA FailureStep == FailureInv /\ FactorInv /\ [Next]_vars => FailureInv'
  <1> SUFFICES ASSUME FailureInv, FactorInv, [Next]_vars PROVE FailureInv'
    OBVIOUS
  <1>n. now \in Nat
    BY LoginsAssumption DEF FactorInv, FactorTypes
  <1>r. reqs \in [Reqs -> [pc : PCs, row : Users]]
    BY DEF FactorInv, FactorTypes
  <1>i. Idle.pc = "idle"
    BY DEF Idle
  <1>f. ASSUME UNCHANGED <<now, fails, reqs>> PROVE FailureInv'
    <2>1. InFlight' = InFlight
      BY <1>f DEF InFlight
    <2> QED
      BY <1>f, <1>n, <2>1, FailureFrame
  <1>a. ASSUME NEW r \in Reqs, Answer(r) PROVE InFlight' = InFlight \ {r}
    <2>1. \A q \in Reqs : reqs'[q] = IF q = r THEN Idle ELSE reqs[q]
      BY <1>a, <1>r DEF Answer
    <2> QED
      BY <1>i, <2>1 DEF InFlight
  <1>b. ASSUME NEW r \in Reqs, UNCHANGED <<now, fails>>, InFlight' \subseteq InFlight
        PROVE  FailureInv'
    BY <1>b, <1>n, FailureFrame
  <1>1. ASSUME NEW r \in Reqs, Admit(r) PROVE FailureInv'
    <2>1. now' = now /\ fails' = Prune(fails)
      BY <1>1 DEF Admit
    <2>2. CASE Blocked
      <3>1. InFlight' = InFlight
        BY <1>1, <2>2 DEF Admit, InFlight
      <3>2. fails' \subseteq fails
        BY <2>1 DEF Prune
      <3> QED
        BY <1>n, <2>1, <3>1, <3>2, FailureFrame
    <2>3. CASE ~Blocked
      BY <1>n, <2>1, <2>3, Admission
    <2> QED
      BY <2>2, <2>3
  <1>2. ASSUME NEW r \in Reqs, GetByUsername(r) PROVE FailureInv'
    <2>1. UNCHANGED <<now, fails>> /\ reqs[r].pc = "admitted"
      BY <1>2 DEF GetByUsername, memory
    <2>2. \A q \in Reqs : q # r => reqs'[q] = reqs[q]
      BY <1>2, <1>r DEF GetByUsername
    <2>3. InFlight' \subseteq InFlight
      BY <2>1, <2>2 DEF InFlight
    <2> QED
      BY <1>b, <2>1, <2>3
  <1>3. ASSUME NEW r \in Reqs, Reject(r) PROVE FailureInv'
    <2>1. now' = now /\ Fail /\ Answer(r) /\ r \in InFlight
      BY <1>3 DEF Reject, InFlight
    <2> QED
      BY <1>a, <1>n, <2>1, OneMoreFailure
  <1>4. ASSUME NEW r \in Reqs, AskFactor(r) \/ OpenFails(r) \/ EnforceLimit(r) PROVE FailureInv'
    <2>1. UNCHANGED <<now, fails>> /\ Answer(r)
      BY <1>4 DEF AskFactor, OpenFails, EnforceLimit, memory
    <2> QED
      BY <1>a, <1>b, <2>1
  <1>5. ASSUME NEW r \in Reqs, PasswordOnly(r) \/ UseRecoveryCode(r) \/ UseTotp(r)
        PROVE  FailureInv'
    <2>1. fails' = {}
      BY <1>5 DEF PasswordOnly, UseRecoveryCode, UseTotp, Pass
    <2> QED
      BY <2>1, NoFailuresNext
  <1>6. ASSUME NEW r \in Reqs, OpenSession(r) PROVE FailureInv'
    <2>1. UNCHANGED <<now, fails>> /\ Goto(r, "created")
      BY <1>6 DEF OpenSession, memory
    <2>2. \A q \in Reqs : reqs'[q].pc = IF q = r THEN "created" ELSE reqs[q].pc
      BY <1>r, <2>1 DEF Goto
    <2>3. InFlight' \subseteq InFlight
      BY <2>2 DEF InFlight
    <2> QED
      BY <1>b, <2>1, <2>3
  <1>7. CASE Logout \/ StopImpersonation \/ Impersonate \/ Setup2FA \/ DeleteUser
    <2>1. UNCHANGED <<now, fails, reqs>>
      BY <1>7 DEF Logout, StopImpersonation, Impersonate, Setup2FA, DeleteUser, memory
    <2> QED
      BY <1>f, <2>1
  <1>8. ASSUME NEW q \in Settings,
               CheckEnable(q) \/ CheckDisable(q) \/ CheckEnabled(q)
               \/ Enable2FA(q) \/ Disable2FA(q) \/ GenerateRecoveryCodes(q)
        PROVE  FailureInv'
    <2>1. UNCHANGED <<now, fails, reqs>>
      BY <1>8 DEF CheckEnable, CheckDisable, CheckEnabled, Begin2FA, Enable2FA, Disable2FA,
                  GenerateRecoveryCodes, memory
    <2> QED
      BY <1>f, <2>1
  <1>9. CASE Tick
    <2>1. UNCHANGED <<fails, reqs>> /\ now' \in Nat /\ now' >= now
      BY <1>9, <1>n DEF Tick, memory
    <2>2. InFlight' = InFlight
      BY <2>1 DEF InFlight
    <2> QED
      BY <1>n, <2>1, <2>2, FailureFrame
  <1>10. CASE Restart
    <2>1. fails' = {}
      BY <1>10 DEF Restart
    <2> QED
      BY <2>1, NoFailuresNext
  <1>11. CASE UNCHANGED vars
    BY <1>f, <1>11 DEF vars
  <1> QED
    BY <1>1, <1>2, <1>3, <1>4, <1>5, <1>6, <1>7, <1>8, <1>9, <1>10, <1>11 DEF Next

(* failureTracker: the limit is tested when a login starts and counted     *)
(* when it fails, so overlapping logins overrun it, but never by more than *)
(* their number less one, for any limit, window and number of logins.      *)
THEOREM FailureBoundHolds == Spec => []FailureBound
  <1>1. Init => FailureInv
    BY NoFailures DEF Init
  <1>2. FailureInv => FailureBound
    BY FailFinite DEF FailureInv, RoomLeft, FailureBound
  <1> QED
    BY <1>1, <1>2, FailureStep, FactorAlways, PTL DEF Spec
==============================================================================
