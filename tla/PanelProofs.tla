---------------------------- MODULE PanelProofs -----------------------------
(***************************************************************************)
(* Proofs about components of the panel that share no state: the license   *)
(* table, the rate limiter, the web terminals and the quotas of accounts.  *)
(* They hold for every number of requests, addresses, users, sites,        *)
(* connections and shells, for every rate and with every bound.            *)
(***************************************************************************)
EXTENDS Licenses, RateLimiter, Terminals, Accounts, FiniteSetTheorems, TLAPS

-----------------------------------------------------------------------------
(* Licenses *)

LicensePc == {"idle", "activate", "deactivate", "update", "others", "existing", "insert"}

\* The variables have their types; a request under way has a statement to
\* execute, and an activation a key.
LicenseTypeOK ==
    /\ licenses \in [Keys -> {"none", "inactive", "active"}]
    /\ calls \in [LicenseRequests -> [pc : LicensePc, key : Keys \cup {NoKey}, met : BOOLEAN]]
    /\ \A r \in LicenseRequests :
          /\ calls[r].pc = "idle" => calls[r] = NoCall
          /\ calls[r].pc \notin {"idle", "deactivate"} => calls[r].key \in Keys

\* What a request that met no other one has done so far.
Progress(r) ==
    /\ calls[r].pc \in {"update", "existing", "insert"} => Active = {}
    /\ calls[r].pc = "others" => licenses[calls[r].key] = "active"
    /\ calls[r].pc \in {"existing", "insert"} => licenses[calls[r].key] = "none"

\* A request that met no other one is alone and finds the table as it left it;
\* the key of the last one that ended stays the only active one until the next
\* request arrives.
LoneInv ==
    /\ \A r \in Busy : calls[r].met \/ (Busy = {r} /\ Progress(r))
    /\ lone # NoKey => Busy = {} /\ Active = {lone}

LicenseInv == LicenseTypeOK /\ LoneInv

(* The initial state satisfies the invariant, whatever keys are in the table. *)
LEMMA LicenseInitial == LicenseInit => LicenseInv
<1> SUFFICES ASSUME LicenseInit PROVE LicenseInv
  OBVIOUS
<1>1. LicenseTypeOK
  BY DEF LicenseInit, LicenseTypeOK, LicensePc, NoCall
<1>2. Busy = {}
  BY DEF LicenseInit, Busy
<1> QED
  BY <1>1, <1>2 DEF LicenseInit, LicenseInv, LoneInv

(* UPDATE licenses SET activated_at = NULL keeps the table well typed. *)
LEMMA DeactivatedRow ==
    ASSUME LicenseTypeOK, NEW keep
    PROVE  /\ Deactivated(keep) \in [Keys -> {"none", "inactive", "active"}]
           /\ \A k \in Keys : Deactivated(keep)[k] = "active" <=> licenses[k] = "active" /\ k \in keep
BY DEF LicenseTypeOK, Deactivated, Active

\* A step of request r: the table afterwards and where the request goes on.
RequestStep(r) ==
    Deactivate(r) \/ UpdateKey(r) \/ DeactivateOthers(r) \/ DeactivateExisting(r) \/ InsertKey(r)

(* A step of a request changes the statement it stands at, or ends it. *)
LEMMA RequestMoves ==
    ASSUME LicenseTypeOK, NEW r \in LicenseRequests, RequestStep(r)
    PROVE  /\ r \in Busy /\ \A q \in LicenseRequests : q # r => calls'[q] = calls[q]
           /\ calls[r].pc \notin {"idle", "deactivate"} => calls[r].key \in Keys
           /\ calls[r].pc # "idle"
           /\ \/ /\ calls'[r] = NoCall /\ lone' \in {NoKey, calls[r].key}
                 /\ calls[r].met => lone' = NoKey
              \/ /\ calls'[r] = [calls[r] EXCEPT !.pc = calls'[r].pc] /\ lone' = lone
                 /\ calls'[r].pc \in {"update", "others", "existing", "insert"}
                 /\ calls[r].pc \notin {"idle", "deactivate"}
<1>1. calls[r] \in [pc : LicensePc, key : Keys \cup {NoKey}, met : BOOLEAN]
  BY DEF LicenseTypeOK
<1>2. calls[r].pc # "idle"
  BY DEF RequestStep, Deactivate, UpdateKey, DeactivateOthers, DeactivateExisting, InsertKey
<1>3. r \in Busy
  BY <1>2 DEF Busy, NoCall
<1>4. ASSUME NEW p, Continue(r, p)
      PROVE  /\ calls'[r] = [calls[r] EXCEPT !.pc = p] /\ calls'[r].pc = p /\ lone' = lone
             /\ \A q \in LicenseRequests : q # r => calls'[q] = calls[q]
  BY <1>1, <1>4 DEF Continue, LicenseTypeOK
<1>5. ASSUME NEW k \in {NoKey, calls[r].key}, Finish(r, k)
      PROVE  /\ calls'[r] = NoCall /\ lone' \in {NoKey, calls[r].key}
             /\ calls[r].met => lone' = NoKey
             /\ \A q \in LicenseRequests : q # r => calls'[q] = calls[q]
  BY <1>5 DEF Finish, LicenseTypeOK
<1>6. CASE Deactivate(r)
  BY <1>2, <1>3, <1>4, <1>5, <1>6 DEF Deactivate, LicenseTypeOK
<1>7. CASE UpdateKey(r)
  BY <1>2, <1>3, <1>4, <1>7 DEF UpdateKey, LicenseTypeOK
<1>8. CASE DeactivateOthers(r)
  BY <1>2, <1>3, <1>5, <1>8 DEF DeactivateOthers, LicenseTypeOK
<1>9. CASE DeactivateExisting(r)
  BY <1>2, <1>3, <1>4, <1>9 DEF DeactivateExisting, LicenseTypeOK
<1>10. CASE InsertKey(r)
  BY <1>2, <1>3, <1>5, <1>10 DEF InsertKey, LicenseTypeOK
<1> QED
  BY <1>6, <1>7, <1>8, <1>9, <1>10 DEF RequestStep

(* Every step keeps the types. *)
LEMMA LicenseTypeStep ==
    ASSUME LicenseTypeOK, [LicenseNext]_licenseVars
    PROVE  LicenseTypeOK'
<1> DEFINE CallRow == [pc : LicensePc, key : Keys \cup {NoKey}, met : BOOLEAN]
<1>n. NoCall \in CallRow /\ NoCall.pc = "idle"
  BY DEF NoCall, LicensePc
<1>1. ASSUME NEW r \in LicenseRequests, NEW p \in {"activate", "deactivate"}, NEW k \in Keys \cup {NoKey},
             p = "activate" => k \in Keys, ReceiveLicenseCall(r, p, k)
      PROVE  LicenseTypeOK'
  <2>1. ASSUME NEW q \in LicenseRequests
        PROVE  /\ calls'[q] \in CallRow
               /\ calls'[q].pc = "idle" => calls'[q] = NoCall
               /\ calls'[q].pc \notin {"idle", "deactivate"} => calls'[q].key \in Keys
    <3>t. calls[q] \in CallRow
      BY DEF LicenseTypeOK
    <3>1. calls'[q] = IF q = r THEN [pc |-> p, key |-> k, met |-> Busy # {}]
                      ELSE IF q \in Busy THEN [calls[q] EXCEPT !.met = TRUE] ELSE calls[q]
      BY <1>1 DEF ReceiveLicenseCall
    <3>2. CASE q = r
      BY <1>1, <3>1, <3>2 DEF LicensePc
    <3>3. CASE q # r /\ q \in Busy
      <4>1. calls[q].pc # "idle"
        BY <3>3 DEF Busy, LicenseTypeOK
      <4> QED BY <3>t, <3>1, <3>3, <4>1 DEF LicenseTypeOK
    <3>4. CASE q # r /\ q \notin Busy
      BY <3>t, <3>1, <3>4 DEF LicenseTypeOK
    <3> QED BY <3>2, <3>3, <3>4
  <2>2. calls' = [q \in LicenseRequests |-> calls'[q]]
    BY <1>1 DEF ReceiveLicenseCall
  <2>3. licenses' = licenses
    BY <1>1 DEF ReceiveLicenseCall
  <2> QED BY <2>1, <2>2, <2>3 DEF LicenseTypeOK
<1>2. ASSUME NEW r \in LicenseRequests, RequestStep(r)
      PROVE  LicenseTypeOK'
  <2>1. licenses' \in [Keys -> {"none", "inactive", "active"}]
    BY <1>2, DeactivatedRow DEF RequestStep, Deactivate, UpdateKey, DeactivateOthers,
       DeactivateExisting, InsertKey, LicenseTypeOK
  <2>2. /\ calls'[r] \in CallRow /\ (calls'[r].pc = "idle" => calls'[r] = NoCall)
        /\ calls'[r].pc \notin {"idle", "deactivate"} => calls'[r].key \in Keys
        /\ \A q \in LicenseRequests : q # r => calls'[q] = calls[q]
    <3>1. calls[r] \in CallRow
      BY DEF LicenseTypeOK
    <3>2. CASE calls'[r] = NoCall
      BY <1>2, <1>n, <3>2, RequestMoves
    <3>3. CASE calls'[r] # NoCall
      <4>1. /\ calls'[r] = [calls[r] EXCEPT !.pc = calls'[r].pc]
            /\ calls'[r].pc \in {"update", "others", "existing", "insert"}
            /\ calls[r].key \in Keys
            /\ \A q \in LicenseRequests : q # r => calls'[q] = calls[q]
        BY <1>2, <3>3, RequestMoves
      <4>2. calls'[r].pc \in LicensePc /\ calls'[r].pc # "idle"
        BY <4>1 DEF LicensePc
      <4> QED BY <3>1, <4>1, <4>2
    <3> QED BY <3>2, <3>3
  <2>3. \E f \in [LicenseRequests -> CallRow] : calls' = f
    <3>1. calls' = [q \in LicenseRequests |-> calls'[q]]
      BY <1>2 DEF RequestStep, Deactivate, UpdateKey, DeactivateOthers,
         DeactivateExisting, InsertKey, Continue, Finish, LicenseTypeOK
    <3> QED BY <2>2, <3>1 DEF LicenseTypeOK
  <2> QED BY <2>1, <2>2, <2>3 DEF LicenseTypeOK
<1>3. CASE LicenseCrash
  BY <1>3, <1>n DEF LicenseCrash, LicenseTypeOK
<1>4. CASE UNCHANGED licenseVars
  BY <1>4 DEF licenseVars, LicenseTypeOK
<1> QED
  BY <1>1, <1>2, <1>3, <1>4 DEF LicenseNext, RequestStep

(* A request that met no other one makes its key the only active one, statement
   by statement. *)
LEMMA LoneStep ==
    ASSUME LicenseInv, NEW r \in LicenseRequests, RequestStep(r)
    PROVE  LoneInv'
<1>t. LicenseTypeOK /\ LoneInv
  BY DEF LicenseInv
<1>1. /\ r \in Busy /\ \A q \in LicenseRequests : q # r => calls'[q] = calls[q]
      /\ calls[r].pc \notin {"idle", "deactivate"} => calls[r].key \in Keys
      /\ calls[r].pc # "idle"
      /\ \/ /\ calls'[r] = NoCall /\ lone' \in {NoKey, calls[r].key}
            /\ calls[r].met => lone' = NoKey
         \/ /\ calls'[r] = [calls[r] EXCEPT !.pc = calls'[r].pc] /\ lone' = lone
            /\ calls'[r].pc \in {"update", "others", "existing", "insert"}
            /\ calls[r].pc \notin {"idle", "deactivate"}
  BY <1>t, RequestMoves
<1>2. lone = NoKey
  BY <1>t, <1>1 DEF LoneInv
<1>r. calls[r] \in [pc : LicensePc, key : Keys \cup {NoKey}, met : BOOLEAN]
  BY <1>t DEF LicenseTypeOK
<1>3. CASE calls[r].met
  <2>1. lone' = NoKey
    BY <1>1, <1>2, <1>3
  <2>2. \A q \in Busy : calls[q].met
    <3> SUFFICES ASSUME NEW q \in Busy, ~calls[q].met PROVE FALSE
      OBVIOUS
    <3>1. q = r
      BY <1>t, <1>1 DEF LoneInv
    <3> QED BY <1>3, <3>1
  <2>3. \A q \in LicenseRequests : calls'[q] = NoCall \/ (q \in Busy /\ calls'[q].met)
    <3> TAKE q \in LicenseRequests
    <3>1. CASE q # r
      BY <1>1, <2>2, <3>1 DEF Busy
    <3>2. CASE q = r
      BY <1>1, <1>3, <1>r, <3>2
    <3> QED BY <3>1, <3>2
  <2> QED BY <2>1, <2>3 DEF LoneInv, Busy
<1>4. CASE ~calls[r].met
  <2>1. Busy = {r} /\ Progress(r)
    BY <1>t, <1>1, <1>4 DEF LoneInv
  <2>2. \A q \in LicenseRequests : q # r => calls'[q] = NoCall
    BY <1>1, <2>1 DEF Busy
  <2>d. \A keep, k : k \in Keys => (Deactivated(keep)[k] = "active" <=> licenses[k] = "active" /\ k \in keep)
    BY <1>t, DeactivatedRow
  <2>3. CASE calls'[r] = NoCall
    <3>1. Busy' = {}
      BY <2>2, <2>3 DEF Busy
    <3>2. lone' # NoKey => Active' = {lone'}
      <4>1. CASE Deactivate(r)
        BY <1>2, <4>1 DEF Deactivate, Finish, Continue
      <4>2. CASE UpdateKey(r)
        BY <1>2, <4>2 DEF UpdateKey, Continue
      <4>3. CASE DeactivateOthers(r)
        <5>1. licenses' = Deactivated({calls[r].key}) /\ lone' = calls[r].key
          BY <1>4, <4>3 DEF DeactivateOthers, Finish
        <5>2. licenses[calls[r].key] = "active" /\ calls[r].key \in Keys
          BY <1>1, <2>1, <4>3 DEF Progress, DeactivateOthers
        <5> QED BY <2>d, <5>1, <5>2 DEF Active
      <4>4. CASE DeactivateExisting(r)
        BY <1>2, <4>4 DEF DeactivateExisting, Continue
      <4>5. CASE InsertKey(r)
        <5>1. Active = {} /\ licenses[calls[r].key] = "none" /\ calls[r].key \in Keys
          BY <1>1, <2>1, <4>5 DEF Progress, InsertKey
        <5>2. licenses' = [licenses EXCEPT ![calls[r].key] = "active"] /\ lone' = calls[r].key
          BY <1>4, <4>5, <5>1 DEF InsertKey, Finish
        <5> QED BY <1>t, <5>1, <5>2 DEF Active, LicenseTypeOK
      <4> QED BY <4>1, <4>2, <4>3, <4>4, <4>5 DEF RequestStep
    <3> QED BY <3>1, <3>2 DEF LoneInv
  <2>4. CASE calls'[r] # NoCall
    <3>1. calls'[r].key = calls[r].key /\ calls[r].key \in Keys /\ lone' = NoKey
      BY <1>1, <1>2, <1>r, <2>4
    <3>2. Busy' = {r}
      BY <2>2, <2>4 DEF Busy
    <3>3. Progress(r)'
      <4>0. ASSUME NEW p, Continue(r, p) PROVE calls'[r].pc = p
        BY <4>0, <1>r, <1>t DEF Continue, LicenseTypeOK
      <4>f. ASSUME NEW k, Finish(r, k) PROVE FALSE
        BY <4>f, <1>t, <2>4 DEF Finish, LicenseTypeOK
      <4>1. CASE Deactivate(r)
        <5>1. calls'[r].pc = "update" /\ licenses' = Deactivated({})
          BY <4>0, <4>f, <4>1 DEF Deactivate
        <5> QED BY <2>d, <5>1 DEF Progress, Active
      <4>2. CASE UpdateKey(r)
        <5>1. Active = {}
          BY <2>1, <4>2 DEF Progress, UpdateKey
        <5>2. CASE licenses[calls[r].key] # "none"
          <6>1. calls'[r].pc = "others" /\ licenses' = [licenses EXCEPT ![calls[r].key] = "active"]
            BY <4>0, <4>2, <5>2 DEF UpdateKey
          <6>2. licenses'[calls[r].key] = "active"
            BY <1>t, <3>1, <6>1 DEF LicenseTypeOK
          <6> QED BY <3>1, <6>1, <6>2 DEF Progress
        <5>3. CASE licenses[calls[r].key] = "none"
          <6>1. calls'[r].pc = "existing" /\ licenses' = licenses
            BY <4>0, <4>2, <5>3 DEF UpdateKey
          <6> QED BY <3>1, <5>1, <5>3, <6>1 DEF Progress, Active
        <5> QED BY <5>2, <5>3
      <4>3. CASE DeactivateExisting(r)
        <5>1. calls'[r].pc = "insert" /\ licenses' = Deactivated({})
          BY <4>0, <4>3 DEF DeactivateExisting
        <5>2. licenses[calls[r].key] = "none" /\ Active = {}
          BY <2>1, <4>3 DEF Progress, DeactivateExisting
        <5>3. licenses'[calls[r].key] = "none"
          BY <3>1, <5>1, <5>2 DEF Deactivated
        <5>4. Active' = {}
          BY <2>d, <5>1 DEF Active
        <5> QED BY <3>1, <5>1, <5>3, <5>4 DEF Progress
      <4>4. CASE DeactivateOthers(r) \/ InsertKey(r)
        BY <4>f, <4>4 DEF DeactivateOthers, InsertKey
      <4> QED BY <4>1, <4>2, <4>3, <4>4 DEF RequestStep
    <3> QED BY <3>1, <3>2, <3>3 DEF LoneInv
  <2> QED BY <2>3, <2>4
<1> QED
  BY <1>3, <1>4

(* Whatever overlapping activations and crashes have left in the table, an
   activation that met no other request leaves its key the only active one. *)
THEOREM LoneActivationHolds == LicenseSpec => []LoneActivationWins
<1>1. LicenseInit => LicenseInv
  BY LicenseInitial
<1>2. LicenseInv /\ [LicenseNext]_licenseVars => LicenseInv'
  <2> SUFFICES ASSUME LicenseInv, [LicenseNext]_licenseVars PROVE LoneInv'
    BY LicenseTypeStep DEF LicenseInv
  <2>t. LicenseTypeOK /\ LoneInv
    BY DEF LicenseInv
  <2>1. ASSUME NEW r \in LicenseRequests, NEW p \in {"activate", "deactivate"}, NEW k, ReceiveLicenseCall(r, p, k)
        PROVE  LoneInv'
    <3>1. /\ lone' = NoKey /\ licenses' = licenses /\ calls[r] = NoCall
          /\ calls' = [q \in LicenseRequests |->
                        IF q = r THEN [pc |-> p, key |-> k, met |-> Busy # {}]
                        ELSE IF q \in Busy THEN [calls[q] EXCEPT !.met = TRUE] ELSE calls[q]]
      BY <2>1 DEF ReceiveLicenseCall
    <3>2. \A q \in LicenseRequests : q # r /\ q \in Busy => calls'[q].met = TRUE
      BY <2>t, <3>1 DEF LicenseTypeOK
    <3>3. \A q \in LicenseRequests : q # r /\ q \notin Busy => calls'[q] = NoCall
      BY <3>1 DEF Busy
    <3>4. calls'[r].met = (Busy # {}) /\ calls'[r].pc = p /\ calls'[r] # NoCall
      BY <3>1 DEF NoCall
    <3>5. Busy = {} => Busy' = {r}
      BY <3>3, <3>4 DEF Busy
    <3>6. Progress(r)'
      BY <3>4 DEF Progress
    <3> QED BY <3>1, <3>2, <3>3, <3>4, <3>5, <3>6 DEF LoneInv, Busy
  <2>2. CASE \E r \in LicenseRequests : RequestStep(r)
    BY <2>2, LoneStep
  <2>3. CASE LicenseCrash
    <3>1. Busy' = {} /\ lone' = NoKey
      BY <2>3, <2>t DEF LicenseCrash, LoneInv, Busy
    <3> QED BY <3>1 DEF LoneInv
  <2>4. CASE UNCHANGED licenseVars
    BY <2>4, <2>t DEF licenseVars, LoneInv, Busy, Progress, Active
  <2> QED BY <2>1, <2>2, <2>3, <2>4 DEF LicenseNext, RequestStep
<1>3. LicenseInv => LoneActivationWins
  BY DEF LicenseInv, LoneInv, LoneActivationWins
<1> QED
  BY <1>1, <1>2, <1>3, PTL DEF LicenseSpec

-----------------------------------------------------------------------------
(* The rate limiter *)

\* Tokens gained in d ticks.
Gain(d) == (d * Rate) \div Interval

(* What the integer division of the refill computes. *)
LEMMA DivFacts ==
    ASSUME NEW x \in Nat
    PROVE  /\ x \div Interval \in Nat
           /\ (x \div Interval) * Interval <= x
           /\ x < ((x \div Interval) + 1) * Interval
BY LimiterAssumption

(* Rounding down never makes two refills worth more than one refill over both
   spans. *)
LEMMA GainAdds ==
    ASSUME NEW a \in Nat, NEW b \in Nat
    PROVE  Gain(a) + Gain(b) <= Gain(a + b)
<1> DEFINE x == a * Rate
           y == b * Rate
           p == x \div Interval
           q == y \div Interval
           r == (x + y) \div Interval
<1>1. x \in Nat /\ y \in Nat /\ (a + b) * Rate = x + y
  BY LimiterAssumption
<1> HIDE DEF x, y
<1>2. /\ p \in Nat /\ q \in Nat /\ r \in Nat
      /\ p * Interval <= x /\ q * Interval <= y /\ x + y < (r + 1) * Interval
  BY <1>1, DivFacts
<1> HIDE DEF p, q, r
<1>3. (p + q) * Interval < (r + 1) * Interval
  BY <1>1, <1>2, LimiterAssumption
<1>4. p + q < r + 1
  BY <1>2, <1>3, LimiterAssumption
<1>5. p + q <= r
  BY <1>2, <1>4
<1> QED BY <1>1, <1>5 DEF Gain, x, y, p, q, r

(* An address that was away for longer than an interval would have a full
   bucket anyway, so forgetting it gives nothing away. *)
LEMMA GainWhole == \A d \in Nat : d > Interval => Gain(d) >= Rate
<1> TAKE d \in Nat
<1> HAVE d > Interval
<1> DEFINE x == d * Rate
           p == x \div Interval
<1>1. x \in Nat /\ Rate * Interval <= x
  BY LimiterAssumption
<1> HIDE DEF x
<1>2. p \in Nat /\ x < (p + 1) * Interval
  BY <1>1, DivFacts
<1> HIDE DEF p
<1>3. Rate * Interval < (p + 1) * Interval
  BY <1>1, <1>2, LimiterAssumption
<1>4. Rate < p + 1
  BY <1>2, <1>3, LimiterAssumption
<1> QED BY <1>2, <1>4, LimiterAssumption DEF Gain, x, p

(* A gain is a number of tokens, and nothing is gained in no time. *)
LEMMA GainType == Gain(0) = 0 /\ \A d \in Nat : Gain(d) \in Nat
BY LimiterAssumption DEF Gain

\* The variables have their types; the clock is never behind what was noted.
LimiterTypeOK ==
    /\ tick \in Nat
    /\ visitors \in [Addresses -> [tokens : -1..Rate, lastSeen : Nat]]
    /\ allowed \in [Addresses -> Seq(Nat)]
    /\ \A ip \in Addresses :
          /\ visitors[ip].tokens = -1 => visitors[ip] = NoVisitor
          /\ visitors[ip].lastSeen <= tick
          /\ visitors[ip] # NoVisitor =>
                \A i \in DOMAIN allowed[ip] : allowed[ip][i] <= visitors[ip].lastSeen
          /\ \A i \in DOMAIN allowed[ip] : allowed[ip][i] <= tick

\* The tokens an address may still spend at time t, when it is seen with n tokens.
Within(ip, n, t) ==
    \A i \in DOMAIN allowed[ip] :
        Len(allowed[ip]) - i + 1 + n <= Rate + Gain(t - allowed[ip][i])

\* What was let through since any request, and what is in the bucket, is within
\* the bound; an address without a bucket has room for a full one.
BucketInv ==
    \A ip \in Addresses :
        IF visitors[ip] = NoVisitor THEN Within(ip, Rate, tick)
        ELSE Within(ip, visitors[ip].tokens, visitors[ip].lastSeen)

LimiterInv == LimiterTypeOK /\ BucketInv /\ WindowBound

(* Refilling a bucket when its address is seen stays within the bound. *)
LEMMA RefilledWithin ==
    ASSUME LimiterInv, NEW ip \in Addresses, visitors[ip] # NoVisitor
    PROVE  Refilled(ip) \in 0..Rate /\ Within(ip, Refilled(ip), tick)
<1> DEFINE n == visitors[ip].tokens
           last == visitors[ip].lastSeen
<1>t. /\ tick \in Nat /\ n \in 0..Rate /\ last \in Nat /\ last <= tick
      /\ allowed[ip] \in Seq(Nat)
      /\ \A i \in DOMAIN allowed[ip] : allowed[ip][i] \in Nat /\ allowed[ip][i] <= last
  BY LimiterAssumption DEF LimiterInv, LimiterTypeOK
<1>1. Within(ip, n, last)
  BY DEF LimiterInv, BucketInv
<1>2. Refilled(ip) = IF n + Gain(tick - last) > Rate THEN Rate ELSE n + Gain(tick - last)
  BY DEF Refilled, Gain, Since
<1>3. tick - last \in Nat /\ Gain(tick - last) \in Nat
  <2>1. tick - last \in Nat
    BY <1>t
  <2> QED BY <2>1, GainType
<1>4. Refilled(ip) \in 0..Rate /\ Refilled(ip) <= n + Gain(tick - last)
  BY <1>t, <1>2, <1>3, LimiterAssumption
<1>5. ASSUME NEW i \in DOMAIN allowed[ip]
      PROVE  Len(allowed[ip]) - i + 1 + Refilled(ip) <= Rate + Gain(tick - allowed[ip][i])
  <2> DEFINE a == allowed[ip][i]
             m == Len(allowed[ip]) - i + 1
  <2>0. allowed[ip] \in Seq(Nat) /\ tick \in Nat /\ last \in Nat /\ last <= tick
    BY <1>t
  <2>a. i \in Nat /\ Len(allowed[ip]) \in Nat
    BY <2>0
  <2>1. a \in Nat /\ a <= last
    BY <1>t
  <2>2. last - a \in Nat /\ (last - a) + (tick - last) = tick - a /\ tick - a \in Nat
    <3> HIDE DEF a, last
    <3> QED BY <2>0, <2>1
  <2>3. Gain(last - a) + Gain(tick - last) <= Gain(tick - a)
    BY <1>3, <2>2, GainAdds
  <2>4. m + n <= Rate + Gain(last - a)
    BY <1>1 DEF Within
  <2>5. Gain(last - a) \in Nat /\ Gain(tick - a) \in Nat
    BY <2>2, GainType
  <2>6. m \in Int /\ n \in Int /\ Rate \in Int /\ Refilled(ip) \in Int
    BY <1>t, <1>4, <2>a, LimiterAssumption
  <2>7. m + Refilled(ip) <= Rate + Gain(tick - a)
    <3> HIDE DEF m, n, a, last
    <3> QED BY <1>3, <1>4, <2>3, <2>4, <2>5, <2>6
  <2> QED BY <2>7
<1> QED
  BY <1>4, <1>5 DEF Within

(* A request that is let through for one of the n tokens of its bucket keeps the
   invariant. *)
LEMMA LetThrough ==
    ASSUME LimiterInv, NEW ip \in Addresses, NEW n \in 1..Rate, Within(ip, n, tick),
           visitors' = [visitors EXCEPT ![ip] = Seen(n - 1)],
           allowed' = [allowed EXCEPT ![ip] = Append(@, tick)], tick' = tick
    PROVE  LimiterInv'
<1>t. /\ tick \in Nat /\ allowed[ip] \in Seq(Nat)
      /\ visitors \in [Addresses -> [tokens : -1..Rate, lastSeen : Nat]]
      /\ allowed \in [Addresses -> Seq(Nat)] /\ Rate \in Nat
      /\ \A i \in DOMAIN allowed[ip] : allowed[ip][i] \in Nat /\ allowed[ip][i] <= tick
  BY LimiterAssumption DEF LimiterInv, LimiterTypeOK
<1> DEFINE s == allowed[ip]
           z == Append(s, tick)
<1>1. /\ z \in Seq(Nat) /\ Len(z) = Len(s) + 1 /\ Len(s) \in Nat
      /\ DOMAIN z = 1..(Len(s) + 1) /\ DOMAIN s = 1..Len(s)
      /\ z[Len(s) + 1] = tick /\ \A i \in DOMAIN s : z[i] = s[i]
  BY <1>t
<1>2. /\ visitors'[ip] = Seen(n - 1) /\ allowed'[ip] = z
      /\ \A q \in Addresses : q # ip => visitors'[q] = visitors[q] /\ allowed'[q] = allowed[q]
  BY <1>t
<1>3. Seen(n - 1) \in [tokens : -1..Rate, lastSeen : Nat] /\ Seen(n - 1).tokens = n - 1
      /\ Seen(n - 1).lastSeen = tick /\ Seen(n - 1) # NoVisitor
  <2>1. n - 1 \in -1..Rate /\ n - 1 # -1
    BY <1>t
  <2> QED BY <1>t, <2>1 DEF Seen, NoVisitor
<1>4. \A i \in DOMAIN z : z[i] \in Nat /\ z[i] <= tick
  BY <1>t, <1>1
<1>5. LimiterTypeOK'
  <2>1. /\ tick' \in Nat /\ visitors' \in [Addresses -> [tokens : -1..Rate, lastSeen : Nat]]
        /\ allowed' \in [Addresses -> Seq(Nat)]
    BY <1>t, <1>1, <1>3
  <2>2. ASSUME NEW q \in Addresses
        PROVE  /\ visitors'[q].tokens = -1 => visitors'[q] = NoVisitor
               /\ visitors'[q].lastSeen <= tick'
               /\ visitors'[q] # NoVisitor =>
                     \A i \in DOMAIN allowed'[q] : allowed'[q][i] <= visitors'[q].lastSeen
               /\ \A i \in DOMAIN allowed'[q] : allowed'[q][i] <= tick'
    <3>1. CASE q = ip
      <4>1. n - 1 # -1
        BY <1>t
      <4> QED BY <1>t, <1>2, <1>3, <1>4, <3>1, <4>1
    <3>2. CASE q # ip
      BY <1>2, <3>2 DEF LimiterInv, LimiterTypeOK
    <3> QED BY <3>1, <3>2
  <2> QED BY <2>1, <2>2 DEF LimiterTypeOK
<1>6. ASSUME NEW i \in DOMAIN z
      PROVE  Len(z) - i + 1 + (n - 1) <= Rate + Gain(tick - z[i])
  <2>1. CASE i = Len(s) + 1
    <3>1. z[i] = tick /\ tick - tick = 0
      BY <1>1, <1>t, <2>1
    <3>2. Gain(tick - z[i]) = 0
      BY <3>1, GainType
    <3> QED BY <1>1, <1>t, <2>1, <3>2
  <2>2. CASE i # Len(s) + 1
    <3>1. i \in DOMAIN s /\ z[i] = s[i] /\ i \in Nat
      BY <1>1, <2>2
    <3>2. Len(s) - i + 1 + n <= Rate + Gain(tick - s[i])
      BY <3>1 DEF Within
    <3>3. tick - s[i] \in Nat
      BY <1>t, <3>1
    <3>4. Gain(tick - s[i]) \in Nat
      BY <3>3, GainType
    <3> QED BY <1>1, <1>t, <3>1, <3>2, <3>4
  <2> QED BY <2>1, <2>2
<1>7. BucketInv'
  <2> SUFFICES ASSUME NEW q \in Addresses
               PROVE  (IF visitors[q] = NoVisitor THEN Within(q, Rate, tick)
                       ELSE Within(q, visitors[q].tokens, visitors[q].lastSeen))'
    BY DEF BucketInv
  <2>1. CASE q = ip
    BY <1>2, <1>3, <1>6, <2>1 DEF Within
  <2>2. CASE q # ip
    BY <1>2, <2>2 DEF LimiterInv, BucketInv, Within
  <2> QED BY <2>1, <2>2
<1>8. WindowBound'
  <2> SUFFICES ASSUME NEW q \in Addresses, NEW i \in DOMAIN allowed'[q], NEW j \in DOMAIN allowed'[q], i <= j
               PROVE  j - i + 1 <= Rate + Gain(allowed'[q][j] - allowed'[q][i])
    BY DEF WindowBound, Gain
  <2>1. CASE q # ip
    BY <1>2, <2>1 DEF LimiterInv, WindowBound, Gain
  <2>2. CASE q = ip /\ j = Len(s) + 1
    <3>1. Len(z) - i + 1 + (n - 1) <= Rate + Gain(tick - z[i])
      BY <1>2, <1>6, <2>2
    <3>2. i \in Nat /\ z[i] \in Nat /\ tick - z[i] \in Nat
      BY <1>1, <1>2, <1>4, <1>t, <2>2
    <3>4. Gain(tick - z[i]) \in Nat
      BY <3>2, GainType
    <3>3. allowed'[q][j] = tick /\ allowed'[q][i] = z[i] /\ Len(z) = j /\ j \in Nat
      BY <1>1, <1>2, <2>2
    <3>5. j - i + 1 <= Rate + Gain(tick - z[i])
      <4>1. Len(z) = j /\ j \in Int /\ i \in Int /\ n \in Int /\ n >= 1 /\ Rate \in Int
        BY <1>t, <3>2, <3>3
      <4> DEFINE g == Gain(tick - z[i])
      <4>2. j - i + 1 + (n - 1) <= Rate + g /\ g \in Int
        <5> HIDE DEF z
        <5> QED BY <3>1, <3>4, <4>1
      <4> HIDE DEF g
      <4>3. j - i + 1 <= Rate + g
        BY <4>1, <4>2
      <4> QED BY <4>3 DEF g
    <3> QED BY <3>3, <3>5
  <2>3. CASE q = ip /\ j # Len(s) + 1
    <3>1. i \in DOMAIN s /\ j \in DOMAIN s
      BY <1>1, <1>2, <2>3
    <3>2. allowed'[q][i] = s[i] /\ allowed'[q][j] = s[j]
      BY <1>1, <1>2, <2>3, <3>1
    <3> QED BY <2>3, <3>1, <3>2 DEF LimiterInv, WindowBound, Gain
  <2> QED BY <2>1, <2>2, <2>3
<1> QED
  BY <1>5, <1>7, <1>8 DEF LimiterInv

LEMMA LaterBy ==
    ASSUME NEW a \in Nat, NEW t \in Nat, NEW d \in Nat, a <= t
    PROVE  t - a \in Nat /\ (t - a) + d = (t + d) - a /\ (t + d) - a \in Nat
  OBVIOUS

(* Time passes: what an address without a bucket may spend does not shrink. *)
LEMMA WithinLater ==
    ASSUME LimiterTypeOK, NEW ip \in Addresses, NEW n \in Int, NEW t \in Nat, NEW d \in Nat,
           \A i \in DOMAIN allowed[ip] : allowed[ip][i] <= t, Within(ip, n, t)
    PROVE  Within(ip, n, t + d)
<1>1. ASSUME NEW i \in DOMAIN allowed[ip]
      PROVE  Len(allowed[ip]) - i + 1 + n <= Rate + Gain((t + d) - allowed[ip][i])
  <2> DEFINE a == allowed[ip][i]
             m == Len(allowed[ip]) - i + 1
  <2>1. allowed[ip] \in Seq(Nat) /\ a \in Nat /\ m \in Int /\ a <= t
    <3>1. allowed[ip] \in Seq(Nat)
      BY DEF LimiterTypeOK
    <3>2. Len(allowed[ip]) \in Nat /\ i \in 1..Len(allowed[ip])
      BY <3>1
    <3>3. a \in Nat /\ a <= t
      BY <3>1, <3>2
    <3>4. m \in Int
      BY <3>2
    <3> QED BY <3>1, <3>3, <3>4
  <2>2. t - a \in Nat /\ (t - a) + d = (t + d) - a /\ (t + d) - a \in Nat
    <3>1. a \in Nat /\ a <= t
      BY <2>1
    <3> HIDE DEF a
    <3> QED BY <3>1, LaterBy
  <2>3. Gain(t - a) + Gain(d) <= Gain((t + d) - a)
    BY <2>2, GainAdds
  <2>4. Gain(t - a) \in Nat /\ Gain(d) \in Nat /\ Gain((t + d) - a) \in Nat
    BY <2>2, GainType
  <2>5. m + n <= Rate + Gain(t - a)
    BY DEF Within
  <2>6. m + n <= Rate + Gain((t + d) - a)
    <3> HIDE DEF m, a
    <3> QED BY <2>1, <2>3, <2>4, <2>5, LimiterAssumption
  <2> QED BY <2>6
<1> QED
  BY <1>1 DEF Within

(* A bucket that nobody touched for two intervals may be forgotten. *)
LEMMA WithinForgotten ==
    ASSUME LimiterInv, NEW ip \in Addresses, visitors[ip] # NoVisitor, Since(ip) > 2 * Interval
    PROVE  Within(ip, Rate, tick)
<1> DEFINE n == visitors[ip].tokens
           last == visitors[ip].lastSeen
<1>t. /\ tick \in Nat /\ n \in 0..Rate /\ last \in Nat /\ last <= tick
      /\ allowed[ip] \in Seq(Nat) /\ Rate \in Nat
      /\ \A i \in DOMAIN allowed[ip] : allowed[ip][i] \in Nat /\ allowed[ip][i] <= last
  BY LimiterAssumption DEF LimiterInv, LimiterTypeOK
<1>1. Within(ip, n, last)
  BY DEF LimiterInv, BucketInv
<1>2. tick - last \in Nat /\ tick - last > Interval
  <2>1. tick - last > 2 * Interval
    BY DEF Since
  <2> HIDE DEF last
  <2> QED BY <1>t, <2>1, LimiterAssumption
<1>3. Gain(tick - last) >= Rate /\ Gain(tick - last) \in Nat
  BY <1>2, GainWhole, GainType
<1>4. ASSUME NEW i \in DOMAIN allowed[ip]
      PROVE  Len(allowed[ip]) - i + 1 + Rate <= Rate + Gain(tick - allowed[ip][i])
  <2> DEFINE a == allowed[ip][i]
             m == Len(allowed[ip]) - i + 1
  <2>1. a \in Nat /\ a <= last /\ m \in Int
    BY <1>t
  <2>2. last - a \in Nat /\ (last - a) + (tick - last) = tick - a /\ tick - a \in Nat
    <3> HIDE DEF a, last
    <3> QED BY <1>t, <2>1
  <2>3. Gain(last - a) + Gain(tick - last) <= Gain(tick - a)
    BY <1>2, <2>2, GainAdds
  <2>4. m + n <= Rate + Gain(last - a)
    BY <1>1 DEF Within
  <2>5. Gain(last - a) \in Nat /\ Gain(tick - a) \in Nat
    BY <2>2, GainType
  <2>6. m + Rate <= Rate + Gain(tick - a)
    <3> HIDE DEF m, n, a, last
    <3> QED BY <1>t, <1>3, <2>1, <2>3, <2>4, <2>5
  <2> QED BY <2>6
<1> QED
  BY <1>4 DEF Within

(* Requests, refusals, the clean-up and time keep the invariant. *)
LEMMA LimiterStep == LimiterInv /\ [LimiterNext]_limiterVars => LimiterInv'
<1> SUFFICES ASSUME LimiterInv, [LimiterNext]_limiterVars PROVE LimiterInv'
  OBVIOUS
<1>t. LimiterTypeOK /\ BucketInv /\ WindowBound
  BY DEF LimiterInv
<1>1. ASSUME NEW ip \in Addresses, AllowNew(ip)
      PROVE  LimiterInv'
  <2> PICK n \in 1..Rate : n = Rate
    BY LimiterAssumption
  <2>1. Within(ip, n, tick)
    BY <1>t, <1>1 DEF AllowNew, BucketInv
  <2> QED BY <1>1, <2>1, LetThrough DEF AllowNew
<1>2. ASSUME NEW ip \in Addresses, Allow(ip)
      PROVE  LimiterInv'
  <2>1. Refilled(ip) \in 0..Rate /\ Within(ip, Refilled(ip), tick)
    BY <1>2, RefilledWithin DEF Allow
  <2> PICK n \in 1..Rate : n = Refilled(ip)
    BY <1>2, <2>1, LimiterAssumption DEF Allow
  <2>2. Within(ip, n, tick)
    BY <2>1 DEF Within
  <2> QED BY <1>2, <2>2, LetThrough DEF Allow
<1>3. ASSUME NEW ip \in Addresses, Refuse(ip)
      PROVE  LimiterInv'
  <2> PICK n \in 0..Rate : n = Refilled(ip) /\ Within(ip, n, tick)
    <3>1. Refilled(ip) \in 0..Rate /\ Within(ip, Refilled(ip), tick)
      BY <1>3, RefilledWithin DEF Refuse
    <3> QED BY <3>1 DEF Within
  <2>1. /\ visitors' = [visitors EXCEPT ![ip] = Seen(n)] /\ UNCHANGED <<tick, allowed>>
    BY <1>3 DEF Refuse, Seen
  <2>2. /\ Seen(n) \in [tokens : -1..Rate, lastSeen : Nat] /\ Seen(n).tokens = n
        /\ Seen(n).lastSeen = tick /\ Seen(n) # NoVisitor /\ n # -1
    <3>1. n \in -1..Rate /\ n # -1
      BY LimiterAssumption
    <3> QED BY <1>t, <3>1 DEF Seen, NoVisitor, LimiterTypeOK
  <2>3. visitors'[ip] = Seen(n) /\ \A q \in Addresses : q # ip => visitors'[q] = visitors[q]
    BY <1>t, <2>1 DEF LimiterTypeOK
  <2>4. LimiterTypeOK'
    BY <1>t, <2>1, <2>2, <2>3 DEF LimiterTypeOK
  <2>5. BucketInv'
    BY <1>t, <2>1, <2>2, <2>3 DEF BucketInv, Within
  <2>6. WindowBound'
    BY <1>t, <2>1 DEF WindowBound
  <2> QED BY <2>4, <2>5, <2>6 DEF LimiterInv
<1>4. CASE Cleanup
  <2>1. UNCHANGED <<tick, allowed>> /\
        visitors' = [ip \in Addresses |-> IF Since(ip) > 2 * Interval THEN NoVisitor ELSE visitors[ip]]
    BY <1>4 DEF Cleanup
  <2>2. NoVisitor \in [tokens : -1..Rate, lastSeen : Nat] /\ NoVisitor.lastSeen = 0
    BY LimiterAssumption DEF NoVisitor
  <2>3. LimiterTypeOK'
    BY <1>t, <2>1, <2>2 DEF LimiterTypeOK
  <2>4. BucketInv'
    <3> SUFFICES ASSUME NEW ip \in Addresses
                 PROVE  (IF visitors[ip] = NoVisitor THEN Within(ip, Rate, tick)
                         ELSE Within(ip, visitors[ip].tokens, visitors[ip].lastSeen))'
      BY DEF BucketInv
    <3>1. CASE visitors'[ip] = visitors[ip]
      BY <1>t, <2>1, <3>1 DEF BucketInv, Within
    <3>2. CASE visitors'[ip] # visitors[ip]
      <4>1. visitors'[ip] = NoVisitor /\ Since(ip) > 2 * Interval /\ visitors[ip] # NoVisitor
        BY <2>1, <3>2
      <4>2. Within(ip, Rate, tick)
        BY <4>1, WithinForgotten
      <4> QED BY <2>1, <4>1, <4>2 DEF Within
    <3> QED BY <3>1, <3>2
  <2>5. WindowBound'
    BY <1>t, <2>1 DEF WindowBound
  <2> QED BY <2>3, <2>4, <2>5 DEF LimiterInv
<1>5. CASE LimiterTick
  <2>1. tick' = tick + 1 /\ UNCHANGED <<visitors, allowed>> /\ tick \in Nat
    BY <1>5, <1>t DEF LimiterTick, LimiterTypeOK
  <2>2. LimiterTypeOK'
    <3>1. \A n \in Nat : n <= tick => n <= tick'
      BY <2>1
    <3> QED BY <1>t, <2>1, <3>1 DEF LimiterTypeOK
  <2>3. BucketInv'
    <3> SUFFICES ASSUME NEW ip \in Addresses
                 PROVE  (IF visitors[ip] = NoVisitor THEN Within(ip, Rate, tick)
                         ELSE Within(ip, visitors[ip].tokens, visitors[ip].lastSeen))'
      BY DEF BucketInv
    <3>1. CASE visitors[ip] # NoVisitor
      BY <1>t, <2>1, <3>1 DEF BucketInv, Within
    <3>2. CASE visitors[ip] = NoVisitor
      <4> PICK t \in Nat : t = tick
        BY <2>1
      <4>1. Within(ip, Rate, t) /\ \A i \in DOMAIN allowed[ip] : allowed[ip][i] <= t
        BY <1>t, <3>2 DEF BucketInv, LimiterTypeOK, Within
      <4>2. Within(ip, Rate, t + 1)
        <5>1. Rate \in Int /\ 1 \in Nat
          BY LimiterAssumption
        <5>2. \A n \in Int, d \in Nat : Within(ip, n, t) => Within(ip, n, t + d)
          BY <1>t, <4>1, WithinLater
        <5> QED BY <4>1, <5>1, <5>2
      <4> QED BY <2>1, <3>2, <4>2 DEF Within
    <3> QED BY <3>1, <3>2
  <2>4. WindowBound'
    BY <1>t, <2>1 DEF WindowBound
  <2> QED BY <2>2, <2>3, <2>4 DEF LimiterInv
<1>6. CASE UNCHANGED limiterVars
  BY <1>6, <1>t DEF limiterVars, LimiterInv, LimiterTypeOK, BucketInv, Within, WindowBound
<1> QED
  BY <1>1, <1>2, <1>3, <1>4, <1>5, <1>6 DEF LimiterNext

(* Over any window an address is let through at most rate times and as often
   again as the window refills, for every rate and interval. *)
THEOREM WindowBoundHolds == LimiterSpec => []WindowBound
<1>1. LimiterInit => LimiterInv
  <2> SUFFICES ASSUME LimiterInit PROVE LimiterInv
    OBVIOUS
  <2>1. NoVisitor \in [tokens : -1..Rate, lastSeen : Nat] /\ NoVisitor.lastSeen = 0
    BY LimiterAssumption DEF NoVisitor
  <2>2. \A ip \in Addresses : allowed[ip] = <<>> /\ visitors[ip] = NoVisitor
    BY DEF LimiterInit
  <2>3. LimiterTypeOK
    BY <2>1, <2>2 DEF LimiterInit, LimiterTypeOK
  <2> QED BY <2>2, <2>3 DEF LimiterInv, BucketInv, Within, WindowBound
<1>2. LimiterInv => WindowBound
  BY DEF LimiterInv
<1> QED
  BY <1>1, <1>2, LimiterStep, PTL DEF LimiterSpec

-----------------------------------------------------------------------------
(* Web terminals *)

UserOf == TermUsers \cup {SomeUser}
SidOf == TermSids \cup {SomeSid}
ConnPc == {"closed", "lookup", "spawn", "attach", "flush", "open"}
TicketRow == [user : UserOf, sid : SidOf, expires : Nat]
ConnRow == [pc : ConnPc, user : UserOf, sid : SidOf, shell : Shells \cup {0}]
ShellRow == [state : {"none", "running", "exited", "killed"}, owner : UserOf,
             ws : Conns \cup {0}, pending : Seq({"out"}), last : Nat]

\* The variables that the properties look at have their types.
TermTypeOK ==
    /\ termTime \in Nat \ {0}
    /\ tickets \in [TicketIds -> TicketRow]
    /\ conns \in [Conns -> ConnRow]
    /\ ptySessions \in [TermSids -> Shells \cup {0}]
    /\ shells \in [Shells -> ShellRow]
    /\ lastTicket \in Nat
    /\ taken \in [TicketIds -> Nat]

\* A ticket names a session of its own user's namespace and was not used yet;
\* ids are not given out twice.
TicketInv ==
    \A t \in TicketIds :
        /\ tickets[t] # NoTicket => /\ tickets[t].sid \in TermSids /\ tickets[t].user = Head(tickets[t].sid)
                                    /\ taken[t] = 0
        /\ t > lastTicket => tickets[t] = NoTicket /\ taken[t] = 0
        /\ taken[t] <= 1

\* So does a connection, and the shell it found or started is its user's.
ConnInv ==
    \A c \in Conns :
        /\ conns[c].pc # "closed" => conns[c].sid \in TermSids /\ conns[c].user = Head(conns[c].sid)
        /\ conns[c].shell # 0 => /\ conns[c].pc # "closed"
                                 /\ shells[conns[c].shell].state # "none"
                                 /\ shells[conns[c].shell].owner = Head(conns[c].sid)
        /\ conns[c].pc \in {"attach", "flush", "open"} => conns[c].shell # 0

\* The map leads from a session id to a shell of the user in whose namespace it is.
SessionInv ==
    \A s \in TermSids : ptySessions[s] # 0 => /\ shells[ptySessions[s]].state # "none"
                                              /\ shells[ptySessions[s]].owner = Head(s)

\* Where two connections are about to start a shell for one session, or one is
\* although the session has one by now, the race was noted.
RaceInv ==
    \A c \in Conns : conns[c].pc = "spawn" =>
        /\ ptySessions[conns[c].sid] # 0 => conns[c].sid \in spawnRaced
        /\ \A d \in Conns : d # c /\ conns[d].pc = "spawn" /\ conns[d].sid = conns[c].sid
              => conns[c].sid \in spawnRaced

TermInv == TermTypeOK /\ TicketInv /\ ConnInv /\ SessionInv /\ RaceInv /\ RunningIsListed

\* What happens to a shell that was started: its owner stays, and it does not
\* run again once it ended.
ShellsKept ==
    \A p \in Shells : /\ shells'[p].owner = shells[p].owner
                      /\ shells'[p].state = "none" <=> shells[p].state = "none"
                      /\ shells'[p].state = "running" => shells[p].state = "running"

(* Whatever session id a browser asks for, the ticket gets one of the user's
   own namespace. *)
LEMMA NamespacedOwn ==
    ASSUME NEW u \in TermUsers, NEW h \in Hints
    PROVE  Namespaced(u, h) \in TermSids /\ Head(Namespaced(u, h)) = u
<1>1. Namespaced(u, h) \in TermSids
  BY DEF TermSids
<1>2. h \in Seq(STRING \cup {u}) /\ <<u>> \in Seq(STRING \cup {u})
  BY TerminalsAssumption
<1>3. Head(<<u>> \o h) = u
  BY <1>2
<1>4. QED
  BY <1>1, <1>3 DEF Namespaced

(* The placeholders have the types of what they stand for. *)
LEMMA Placeholders ==
    /\ NoTicket \in TicketRow /\ NoConn \in ConnRow /\ NoShell \in ShellRow
    /\ NoTicket.expires = 0 /\ NoConn.pc = "closed" /\ NoConn.shell = 0
    /\ NoShell.state = "none"
<1>1. <<>> \in Seq({"out"})
  OBVIOUS
<1>2. QED
  BY <1>1 DEF NoTicket, NoConn, NoShell, TicketRow, ConnRow, ShellRow, ConnPc, UserOf, SidOf

(* No shell, ticket or connection exists at first. *)
LEMMA TermInitial == TermInit => TermInv
<1> SUFFICES ASSUME TermInit PROVE TermInv
  OBVIOUS
<1>1. TermTypeOK
  BY Placeholders DEF TermInit, TermTypeOK
<1>2. TicketInv
  BY DEF TermInit, TicketInv
<1>3. ConnInv
  BY Placeholders DEF TermInit, ConnInv
<1>4. SessionInv
  BY DEF TermInit, SessionInv
<1>5. RaceInv
  BY Placeholders DEF TermInit, RaceInv
<1>6. RunningIsListed
  BY Placeholders DEF TermInit, RunningIsListed
<1>7. QED
  BY <1>1, <1>2, <1>3, <1>4, <1>5, <1>6 DEF TermInv

(* A websocket that goes away leaves its shell as it is. *)
LEMMA DetachedEffect ==
    ASSUME TermTypeOK, NEW gone \in SUBSET Conns, Detached(gone)
    PROVE  /\ shells' \in [Shells -> ShellRow]
           /\ ShellsKept
           /\ conns' \in [Conns -> ConnRow]
           /\ \A c \in Conns : conns'[c] = NoConn \/ conns'[c] = conns[c]
<1>1. \A p \in Shells : shells[p] \in ShellRow
  BY DEF TermTypeOK
<1>2. \A c \in Conns : conns[c] \in ConnRow
  BY DEF TermTypeOK
<1>3. ASSUME NEW p \in Shells
      PROVE  /\ shells'[p] \in ShellRow
             /\ shells'[p].owner = shells[p].owner
             /\ shells'[p].state = shells[p].state
  <2>1. shells'[p] = IF shells[p].ws \in gone THEN [shells[p] EXCEPT !.ws = 0] ELSE shells[p]
    BY DEF Detached
  <2>2. shells[p] \in ShellRow
    BY <1>1
  <2>3. QED
    BY <2>1, <2>2 DEF ShellRow
<1>4. ShellsKept
  BY <1>3 DEF ShellsKept
<1>5. shells' = [p \in Shells |-> shells'[p]]
  BY DEF Detached
<1>6. conns' \in [Conns -> ConnRow] /\ \A c \in Conns : conns'[c] = NoConn \/ conns'[c] = conns[c]
  BY <1>2, Placeholders DEF Detached
<1>7. QED
  BY <1>3, <1>4, <1>5, <1>6

\* One shell is written at, and its owner stays, as does whether it was started.
Touches(p, row) ==
    /\ shells' = [shells EXCEPT ![p] = row]
    /\ row \in ShellRow /\ row.owner = shells[p].owner
    /\ row.state = "none" <=> shells[p].state = "none"
    /\ row.state = "running" => shells[p].state = "running"

(* Such a write keeps the shells. *)
LEMMA TouchesEffect ==
    ASSUME TermTypeOK, NEW p \in Shells, NEW row, Touches(p, row)
    PROVE  ShellsKept /\ shells' \in [Shells -> ShellRow]
<1>1. shells \in [Shells -> ShellRow]
  BY DEF TermTypeOK
<1>2. shells' \in [Shells -> ShellRow]
  BY <1>1 DEF Touches
<1>3. ASSUME NEW q \in Shells
      PROVE  /\ shells'[q].owner = shells[q].owner
             /\ shells'[q].state = "none" <=> shells[q].state = "none"
             /\ shells'[q].state = "running" => shells[q].state = "running"
  <2>1. CASE q = p
    BY <2>1, <1>1 DEF Touches
  <2>2. CASE q # p
    BY <2>2, <1>1 DEF Touches
  <2>3. QED
    BY <2>1, <2>2
<1>4. QED
  BY <1>2, <1>3 DEF ShellsKept

(* What a connection does to its shell: it attaches, it flushes, it sends input. *)
LEMMA AttachKeeps ==
    ASSUME TermInv, NEW c \in Conns, Attach(c) \/ FlushPending(c) \/ Input(c)
    PROVE  ShellsKept /\ shells' \in [Shells -> ShellRow]
<1>1. conns[c] \in ConnRow /\ conns[c].shell # 0
  BY DEF TermInv, TermTypeOK, ConnInv, Attach, FlushPending, Input, Handles
<1>2. PICK p \in Shells : p = conns[c].shell
  BY <1>1 DEF ConnRow
<1>3. shells[p] \in ShellRow /\ termTime \in Nat
  BY DEF TermInv, TermTypeOK
<1>4. CASE Attach(c)
  <2>1. Touches(p, [shells[p] EXCEPT !.ws = c])
    BY <1>2, <1>3, <1>4 DEF Attach, Touches, ShellRow
  <2>2. QED
    BY <2>1, TouchesEffect DEF TermInv
<1>5. CASE FlushPending(c)
  <2>0. <<>> \in Seq({"out"})
    OBVIOUS
  <2>1. PICK e \in Seq({"out"}) : e = <<>>
    BY <2>0, Zenon
  <2>2. shells' = [shells EXCEPT ![p] = [shells[p] EXCEPT !.pending = e]]
    BY <1>2, <1>5, <2>1 DEF FlushPending
  <2>3. Touches(p, [shells[p] EXCEPT !.pending = e])
    BY <1>3, <2>2 DEF Touches, ShellRow
  <2>4. QED
    BY <2>3, TouchesEffect DEF TermInv
<1>6. CASE Input(c)
  <2>1. Touches(p, [shells[p] EXCEPT !.last = termTime])
    BY <1>2, <1>3, <1>6 DEF Input, Touches, ShellRow
  <2>2. QED
    BY <2>1, TouchesEffect DEF TermInv
<1>7. QED
  BY <1>4, <1>5, <1>6

(* What a shell's reader does, and the end of a shell. *)
LEMMA ReaderKeeps ==
    ASSUME TermInv, NEW p \in Shells, ReadPty(p) \/ WriteOutput(p) \/ ShellExits(p)
    PROVE  ShellsKept /\ shells' \in [Shells -> ShellRow]
<1>1. shells[p] \in ShellRow /\ termTime \in Nat
  BY DEF TermInv, TermTypeOK
<1>2. CASE ReadPty(p)
  <2>1. Touches(p, [shells[p] EXCEPT !.last = termTime])
    BY <1>1, <1>2 DEF ReadPty, Touches, ShellRow
  <2>2. QED
    BY <2>1, TouchesEffect DEF TermInv
<1>3. CASE WriteOutput(p)
  <2>1. CASE readers[p].ws # 0
    BY <1>3, <2>1 DEF WriteOutput, ShellsKept, TermInv, TermTypeOK
  <2>2. CASE readers[p].ws = 0
    <3>1. PICK o : o = Append(shells[p].pending, "out")
      OBVIOUS
    <3>2. o \in Seq({"out"}) /\ o # <<>>
      BY <1>1, <3>1 DEF ShellRow
    <3>3. Kept(o) \in Seq({"out"})
      BY <3>2 DEF Kept
    <3>4. Touches(p, [shells[p] EXCEPT !.pending = Kept(o)])
      <4>1. shells' = [shells EXCEPT ![p] = [shells[p] EXCEPT !.pending = Kept(o)]]
        BY <1>3, <2>2, <3>1 DEF WriteOutput
      <4>2. QED
        BY <1>1, <3>3, <4>1 DEF Touches, ShellRow
    <3>5. QED
      BY <3>4, TouchesEffect DEF TermInv
  <2>3. QED
    BY <2>1, <2>2
<1>4. CASE ShellExits(p)
  <2>1. Touches(p, [shells[p] EXCEPT !.state = "exited"])
    BY <1>1, <1>4 DEF ShellExits, Touches, ShellRow
  <2>2. QED
    BY <2>1, TouchesEffect DEF TermInv
<1>5. QED
  BY <1>2, <1>3, <1>4

(* The clean-up kills every shell that it takes out of the map. *)
LEMMA CleanKeeps ==
    ASSUME TermInv, cleanIdleSessions
    PROVE  /\ ShellsKept /\ shells' \in [Shells -> ShellRow]
           /\ ptySessions' \in [TermSids -> Shells \cup {0}]
           /\ \A s \in TermSids : \/ ptySessions'[s] = ptySessions[s]
                                  \/ ptySessions'[s] = 0 /\ (ptySessions[s] \in Shells
                                                               => shells'[ptySessions[s]].state = "killed")
<1> DEFINE K(E) == Killed(TooIdle \cup E, E)
<1>1. PICK E \in Excess(Listed \ TooIdle) :
          /\ shells' = [p \in Shells |-> IF p \in K(E) THEN [shells[p] EXCEPT !.state = "killed"] ELSE shells[p]]
          /\ ptySessions' = [s \in TermSids |-> IF s \in TooIdle \cup E THEN 0 ELSE ptySessions[s]]
  BY DEF cleanIdleSessions
<1>2. ASSUME NEW p \in K(E)
      PROVE  \E s \in TermSids : p = ptySessions[s] /\ ptySessions[s] # 0 /\ s \in TooIdle \cup E
  BY <1>1, <1>2 DEF Killed, TooIdle, Listed, Excess
<1>3. ASSUME NEW p \in Shells
      PROVE  /\ shells'[p] \in ShellRow
             /\ shells'[p].owner = shells[p].owner
             /\ shells'[p].state = "none" <=> shells[p].state = "none"
             /\ shells'[p].state = "running" => shells[p].state = "running"
             /\ p \in K(E) => shells'[p].state = "killed"
  <2>1. shells[p] \in ShellRow
    BY DEF TermInv, TermTypeOK
  <2>2. shells'[p] = IF p \in K(E) THEN [shells[p] EXCEPT !.state = "killed"] ELSE shells[p]
    BY <1>1
  <2>3. p \in K(E) => shells[p].state # "none"
    BY <1>2 DEF TermInv, SessionInv
  <2>4. QED
    BY <2>1, <2>2, <2>3 DEF ShellRow
<1>4. ShellsKept
  BY <1>3 DEF ShellsKept
<1>5. shells' \in [Shells -> ShellRow]
  BY <1>1, <1>3
<1>6. ptySessions' \in [TermSids -> Shells \cup {0}]
  BY <1>1 DEF TermInv, TermTypeOK
<1>7. ASSUME NEW s \in TermSids
      PROVE  \/ ptySessions'[s] = ptySessions[s]
             \/ ptySessions'[s] = 0 /\ (ptySessions[s] \in Shells => shells'[ptySessions[s]].state = "killed")
  <2>1. CASE s \in TooIdle \cup E
    <3>1. ptySessions[s] \in K(E)
      BY <2>1 DEF Killed
    <3>2. QED
      BY <1>1, <1>3, <2>1, <3>1
  <2>2. CASE s \notin TooIdle \cup E
    BY <1>1, <2>2
  <2>3. QED
    BY <2>1, <2>2
<1>8. QED
  BY <1>4, <1>5, <1>6, <1>7

\* What a step that looks up no session and starts no shell does to a
\* connection: it closes, it opens, or it goes on with the shell it has.
ConnStays(c) ==
    \/ conns'[c] = NoConn
    \/ /\ conns'[c].pc = "lookup" /\ conns'[c].shell = 0
       /\ conns'[c].sid \in TermSids /\ conns'[c].user = Head(conns'[c].sid)
    \/ /\ conns'[c].sid = conns[c].sid /\ conns'[c].user = conns[c].user
       /\ conns'[c].shell = conns[c].shell
       /\ conns'[c].pc = conns[c].pc \/ (conns[c].shell # 0 /\ conns'[c].pc \in {"flush", "open"})

\* What it does to an entry of the map: a shell that leaves it is killed.
SessionStays(s) ==
    \/ ptySessions'[s] = ptySessions[s]
    \/ /\ ptySessions'[s] = 0
       /\ ptySessions[s] \in Shells => shells'[ptySessions[s]].state = "killed"

\* Such a step: the shells are kept.
Keeping ==
    /\ ShellsKept /\ shells' \in [Shells -> ShellRow]
    /\ conns' \in [Conns -> ConnRow] /\ \A c \in Conns : ConnStays(c)
    /\ ptySessions' \in [TermSids -> Shells \cup {0}] /\ \A s \in TermSids : SessionStays(s)
    /\ spawnRaced' = spawnRaced

(* Such a step keeps what is said of connections, sessions and races. *)
LEMMA KeepingKeeps ==
    ASSUME TermInv, Keeping
    PROVE  ConnInv' /\ SessionInv' /\ RaceInv' /\ RunningIsListed'
<1>1. ASSUME NEW c \in Conns
      PROVE  /\ conns'[c].pc # "closed" => conns'[c].sid \in TermSids /\ conns'[c].user = Head(conns'[c].sid)
             /\ conns'[c].shell # 0 => /\ conns'[c].pc # "closed"
                                       /\ shells'[conns'[c].shell].state # "none"
                                       /\ shells'[conns'[c].shell].owner = Head(conns'[c].sid)
             /\ conns'[c].pc \in {"attach", "flush", "open"} => conns'[c].shell # 0
  <2>1. CASE conns'[c] = NoConn
    BY <2>1, Placeholders
  <2>2. CASE conns'[c].pc = "lookup" /\ conns'[c].shell = 0 /\ conns'[c].sid \in TermSids
             /\ conns'[c].user = Head(conns'[c].sid)
    BY <2>2
  <2>3. CASE /\ conns'[c].sid = conns[c].sid /\ conns'[c].user = conns[c].user
             /\ conns'[c].shell = conns[c].shell
             /\ conns'[c].pc = conns[c].pc \/ (conns[c].shell # 0 /\ conns'[c].pc \in {"flush", "open"})
    <3>1. conns[c].shell \in Shells \cup {0}
      BY DEF TermInv, TermTypeOK, ConnRow
    <3>2. conns[c].shell # 0 =>
             /\ shells'[conns[c].shell].state # "none"
             /\ shells'[conns[c].shell].owner = Head(conns[c].sid)
      BY <3>1 DEF TermInv, ConnInv, Keeping, ShellsKept
    <3>3. /\ conns[c].pc # "closed" => conns[c].sid \in TermSids /\ conns[c].user = Head(conns[c].sid)
          /\ conns[c].shell # 0 => conns[c].pc # "closed"
          /\ conns[c].pc \in {"attach", "flush", "open"} => conns[c].shell # 0
      BY DEF TermInv, ConnInv
    <3>4. QED
      BY <2>3, <3>2, <3>3
  <2>4. QED
    BY <2>1, <2>2, <2>3 DEF Keeping, ConnStays
<1>2. ConnInv'
  BY <1>1 DEF ConnInv
<1>3. ASSUME NEW s \in TermSids, ptySessions'[s] # 0
      PROVE  shells'[ptySessions'[s]].state # "none" /\ shells'[ptySessions'[s]].owner = Head(s)
  <2>1. ptySessions'[s] = ptySessions[s]
    BY <1>3 DEF Keeping, SessionStays
  <2>2. ptySessions[s] \in Shells
    BY <1>3, <2>1 DEF TermInv, TermTypeOK
  <2>3. QED
    BY <1>3, <2>1, <2>2 DEF TermInv, SessionInv, Keeping, ShellsKept
<1>4. SessionInv'
  BY <1>3 DEF SessionInv
<1>5. ASSUME NEW c \in Conns, conns'[c].pc = "spawn"
      PROVE  conns[c].pc = "spawn" /\ conns'[c].sid = conns[c].sid /\ conns[c].sid \in TermSids
  BY <1>5, Placeholders DEF Keeping, ConnStays, TermInv, ConnInv
<1>6. RaceInv'
  <2> SUFFICES ASSUME NEW c \in Conns, conns'[c].pc = "spawn"
               PROVE  /\ ptySessions'[conns'[c].sid] # 0 => conns'[c].sid \in spawnRaced'
                      /\ \A d \in Conns : d # c /\ conns'[d].pc = "spawn" /\ conns'[d].sid = conns'[c].sid
                             => conns'[c].sid \in spawnRaced'
    BY DEF RaceInv
  <2>1. conns[c].pc = "spawn" /\ conns'[c].sid = conns[c].sid /\ conns[c].sid \in TermSids
    BY <1>5
  <2>2. ptySessions'[conns[c].sid] # 0 => ptySessions[conns[c].sid] # 0
    BY <2>1 DEF Keeping, SessionStays
  <2>3. spawnRaced' = spawnRaced
    BY DEF Keeping
  <2>4. \A d \in Conns : conns'[d].pc = "spawn" => conns[d].pc = "spawn" /\ conns'[d].sid = conns[d].sid
    BY <1>5
  <2>5. QED
    BY <2>1, <2>2, <2>3, <2>4 DEF TermInv, RaceInv
<1>7. RunningIsListed'
  <2> SUFFICES ASSUME NEW p \in Shells, shells'[p].state = "running"
               PROVE  \E s \in TermSids : ptySessions'[s] = p \/ (s \in spawnRaced' /\ Head(s) = shells'[p].owner)
    BY DEF RunningIsListed
  <2>1. shells[p].state = "running" /\ shells'[p].owner = shells[p].owner /\ spawnRaced' = spawnRaced
    BY DEF Keeping, ShellsKept
  <2>2. PICK s \in TermSids : ptySessions[s] = p \/ (s \in spawnRaced /\ Head(s) = shells[p].owner)
    BY <2>1 DEF TermInv, RunningIsListed
  <2>3. ptySessions[s] = p => ptySessions'[s] = p
    BY DEF Keeping, SessionStays
  <2>4. QED
    BY <2>1, <2>2, <2>3
<1>8. QED
  BY <1>2, <1>4, <1>6, <1>7

(* A step that leaves shells, map and races alone is of that kind if it is for
   every connection. *)
LEMMA ConnsOnly ==
    ASSUME TermInv, UNCHANGED <<shells, ptySessions, spawnRaced>>,
           conns' \in [Conns -> ConnRow], \A c \in Conns : ConnStays(c)
    PROVE  Keeping
  BY DEF Keeping, ShellsKept, SessionStays, TermInv, TermTypeOK

(* So is one that keeps the shells and leaves map and races alone. *)
LEMMA ShellsOnly ==
    ASSUME TermInv, ShellsKept, shells' \in [Shells -> ShellRow], UNCHANGED <<ptySessions, spawnRaced>>,
           conns' \in [Conns -> ConnRow], \A c \in Conns : ConnStays(c)
    PROVE  Keeping
  BY DEF Keeping, SessionStays, TermInv, TermTypeOK

(* A connection's row, and that of a shell, are of their types. *)
LEMMA TermRows ==
    ASSUME TermInv
    PROVE  /\ conns \in [Conns -> ConnRow] /\ \A c \in Conns : conns[c] \in ConnRow
           /\ shells \in [Shells -> ShellRow] /\ \A p \in Shells : shells[p] \in ShellRow
           /\ tickets \in [TicketIds -> TicketRow] /\ \A t \in TicketIds : tickets[t] \in TicketRow
  BY DEF TermInv, TermTypeOK

\* One connection is written at.
Writes(c, row) == conns' = [conns EXCEPT ![c] = row] /\ row \in ConnRow

(* The others stay. *)
LEMMA WritesEffect ==
    ASSUME TermInv, NEW c \in Conns, NEW row, Writes(c, row)
    PROVE  /\ conns' \in [Conns -> ConnRow] /\ conns'[c] = row
           /\ \A d \in Conns \ {c} : conns'[d] = conns[d] /\ ConnStays(d)
<1>1. conns' \in [Conns -> ConnRow] /\ conns'[c] = row /\ \A d \in Conns \ {c} : conns'[d] = conns[d]
  BY TermRows DEF Writes
<1>2. QED
  BY <1>1 DEF ConnStays

(* An attached connection goes on with the shell it has. *)
LEMMA AttachStep ==
    ASSUME TermInv, NEW c \in Conns, Attach(c) \/ FlushPending(c) \/ Input(c)
    PROVE  Keeping
<1>1. ShellsKept /\ shells' \in [Shells -> ShellRow]
  BY AttachKeeps
<1>2. conns[c].shell # 0
  BY DEF TermInv, ConnInv, Attach, FlushPending, Input, Handles
<1>3. CASE Input(c)
  <2>1. conns' \in [Conns -> ConnRow] /\ \A d \in Conns : ConnStays(d)
    BY <1>3, TermRows DEF Input, ConnStays
  <2>2. QED
    BY <1>1, <1>3, <2>1, ShellsOnly DEF Input
<1>4. ASSUME NEW pc \in {"flush", "open"}, Moves(c, pc)
      PROVE  conns' \in [Conns -> ConnRow] /\ \A d \in Conns : ConnStays(d)
  <2>1. conns[c] \in ConnRow /\ conns' = [conns EXCEPT ![c] = [conns[c] EXCEPT !.pc = pc]]
    BY <1>4, TermRows DEF Moves
  <2>2. PICK row : row = [conns[c] EXCEPT !.pc = pc]
    OBVIOUS
  <2>3. /\ row \in ConnRow /\ row.pc = pc /\ row.sid = conns[c].sid /\ row.user = conns[c].user
        /\ row.shell = conns[c].shell
    BY <2>1, <2>2 DEF ConnRow, ConnPc
  <2>4. Writes(c, row)
    BY <2>1, <2>2, <2>3 DEF Writes
  <2>5. conns' \in [Conns -> ConnRow] /\ conns'[c] = row /\ \A d \in Conns \ {c} : ConnStays(d)
    BY <2>4, WritesEffect
  <2>6. ConnStays(c)
    BY <1>2, <2>3, <2>5 DEF ConnStays
  <2>7. QED
    BY <2>5, <2>6
<1>5. CASE Attach(c) \/ FlushPending(c)
  <2>1. conns' \in [Conns -> ConnRow] /\ \A d \in Conns : ConnStays(d)
    BY <1>4, <1>5 DEF Attach, FlushPending
  <2>2. QED
    BY <1>1, <1>5, <2>1, ShellsOnly DEF Attach, FlushPending
<1>6. QED
  BY <1>3, <1>5

(* A ticket opens a connection for its own user's session, or none. *)
LEMMA ServeStep ==
    ASSUME TermInv, NEW c \in Conns, NEW t \in TicketIds, serve(c, t)
    PROVE  Keeping
<1>1. tickets[t] \in TicketRow /\ tickets[t].sid \in TermSids /\ tickets[t].user = Head(tickets[t].sid)
  BY TermRows DEF TermInv, TicketInv, serve
<1>2. CASE conns' = conns
  <2>1. conns' \in [Conns -> ConnRow] /\ \A d \in Conns : ConnStays(d)
    BY <1>2, TermRows DEF ConnStays
  <2>2. QED
    BY <2>1, ConnsOnly DEF serve
<1>3. CASE conns' # conns
  <2>1. PICK row : row = [pc |-> "lookup", user |-> tickets[t].user, sid |-> tickets[t].sid, shell |-> 0]
    OBVIOUS
  <2>2. row \in ConnRow /\ row.pc = "lookup" /\ row.shell = 0 /\ row.sid \in TermSids /\ row.user = Head(row.sid)
    BY <1>1, <2>1 DEF TicketRow, ConnRow, ConnPc
  <2>3. Writes(c, row)
    BY <1>3, <2>1, <2>2 DEF serve, Writes
  <2>4. conns' \in [Conns -> ConnRow] /\ conns'[c] = row /\ \A d \in Conns \ {c} : ConnStays(d)
    BY <2>3, WritesEffect
  <2>5. ConnStays(c)
    BY <2>2, <2>4 DEF ConnStays
  <2>6. QED
    BY <2>4, <2>5, ConnsOnly DEF serve
<1>4. QED
  BY <1>2, <1>3

(* A connection whose shell could not be started is closed. *)
LEMMA SpawnFailsStep ==
    ASSUME TermInv, NEW c \in Conns, SpawnFails(c)
    PROVE  Keeping
<1>1. Writes(c, NoConn)
  BY Placeholders DEF SpawnFails, Writes
<1>2. conns' \in [Conns -> ConnRow] /\ \A d \in Conns : ConnStays(d)
  BY <1>1, WritesEffect DEF ConnStays
<1>3. QED
  BY <1>2, ConnsOnly DEF SpawnFails

(* Websockets that go away, one by one or all at once. *)
LEMMA DetachedStep ==
    ASSUME TermInv, Detached({c \in Conns : Handles(c, "open")}) \/ (\E c \in Conns : Detached({c})),
           UNCHANGED <<ptySessions, spawnRaced>>
    PROVE  Keeping
<1>1. PICK gone \in SUBSET Conns : Detached(gone)
  OBVIOUS
<1>2. /\ shells' \in [Shells -> ShellRow] /\ ShellsKept /\ conns' \in [Conns -> ConnRow]
      /\ \A c \in Conns : conns'[c] = NoConn \/ conns'[c] = conns[c]
  BY <1>1, DetachedEffect DEF TermInv
<1>3. \A c \in Conns : ConnStays(c)
  BY <1>2 DEF ConnStays
<1>4. QED
  BY <1>2, <1>3, ShellsOnly

(* The steps that leave the connections alone. *)
LEMMA QuietStep ==
    ASSUME TermInv,
           \/ cleanIdleSessions \/ TermTick \/ UNCHANGED termVars
           \/ \E u \in TermUsers, t \in TicketIds, h \in Hints : createTicket(u, t, h)
           \/ \E p \in Shells : ReadPty(p) \/ WriteOutput(p) \/ ShellExits(p)
    PROVE  Keeping
<1>1. conns' = conns /\ spawnRaced' = spawnRaced
  BY DEF cleanIdleSessions, TermTick, createTicket, ReadPty, WriteOutput, ShellExits, termVars
<1>2. conns' \in [Conns -> ConnRow] /\ \A c \in Conns : ConnStays(c)
  BY <1>1, TermRows DEF ConnStays
<1>3. CASE cleanIdleSessions
  <2>1. \A s \in TermSids : SessionStays(s)
    BY <1>3, CleanKeeps DEF SessionStays
  <2>2. QED
    BY <1>1, <1>2, <1>3, <2>1, CleanKeeps DEF Keeping
<1>4. CASE \/ TermTick \/ UNCHANGED termVars
           \/ \E u \in TermUsers, t \in TicketIds, h \in Hints : createTicket(u, t, h)
  <2>1. UNCHANGED <<shells, ptySessions, spawnRaced>>
    BY <1>4 DEF TermTick, createTicket, termVars
  <2>2. QED
    BY <1>2, <2>1, ConnsOnly
<1>5. CASE \E p \in Shells : ReadPty(p) \/ WriteOutput(p) \/ ShellExits(p)
  <2>1. ShellsKept /\ shells' \in [Shells -> ShellRow]
    BY <1>5, ReaderKeeps
  <2>2. UNCHANGED <<ptySessions, spawnRaced>>
    BY <1>5 DEF ReadPty, WriteOutput, ShellExits
  <2>3. QED
    BY <1>2, <2>1, <2>2, ShellsOnly
<1>6. QED
  BY <1>3, <1>4, <1>5

(* A connection finds the shell of its session, which is its user's, or none;
   if another one is about to start a shell for the session, that is noted. *)
LEMMA LookupStep ==
    ASSUME TermInv, NEW c \in Conns, getOrCreateSession(c)
    PROVE  /\ conns' \in [Conns -> ConnRow]
           /\ ConnInv' /\ SessionInv' /\ RaceInv' /\ RunningIsListed'
<1>1. conns[c] \in ConnRow /\ conns[c].pc = "lookup" /\ conns[c].sid \in TermSids /\ conns[c].user = Head(conns[c].sid)
  BY TermRows DEF TermInv, ConnInv, getOrCreateSession, Handles
<1>2. PICK s \in TermSids : s = conns[c].sid
  BY <1>1
<1>3. PICK p \in Shells \cup {0} : p = ptySessions[s]
  BY DEF TermInv, TermTypeOK
<1>4. PICK row : row = [conns[c] EXCEPT !.pc = IF p = 0 THEN "spawn" ELSE "attach", !.shell = p]
  OBVIOUS
<1>5. /\ row \in ConnRow /\ row.pc = (IF p = 0 THEN "spawn" ELSE "attach") /\ row.shell = p
      /\ row.sid = s /\ row.user = Head(s)
  BY <1>1, <1>2, <1>4 DEF ConnRow, ConnPc
<1>6. conns' = [conns EXCEPT ![c] = row]
  BY <1>2, <1>3, <1>4 DEF getOrCreateSession
<1>7. conns' \in [Conns -> ConnRow] /\ conns'[c] = row /\ \A d \in Conns \ {c} : conns'[d] = conns[d]
  BY <1>5, <1>6, TermRows
<1>8. UNCHANGED <<shells, ptySessions>> /\ spawnRaced \subseteq spawnRaced'
  BY DEF getOrCreateSession
<1>9. p # 0 => shells[p].state # "none" /\ shells[p].owner = Head(s)
  BY <1>3 DEF TermInv, SessionInv
<1>10. ConnInv'
  <2> SUFFICES ASSUME NEW d \in Conns
               PROVE  /\ conns'[d].pc # "closed" => conns'[d].sid \in TermSids /\ conns'[d].user = Head(conns'[d].sid)
                      /\ conns'[d].shell # 0 => /\ conns'[d].pc # "closed"
                                                /\ shells'[conns'[d].shell].state # "none"
                                                /\ shells'[conns'[d].shell].owner = Head(conns'[d].sid)
                      /\ conns'[d].pc \in {"attach", "flush", "open"} => conns'[d].shell # 0
    BY DEF ConnInv
  <2>1. CASE d = c
    BY <2>1, <1>5, <1>7, <1>8, <1>9
  <2>2. CASE d # c
    BY <2>2, <1>7, <1>8 DEF TermInv, ConnInv
  <2>3. QED
    BY <2>1, <2>2
<1>11. SessionInv'
  BY <1>8 DEF TermInv, SessionInv
<1>12. RunningIsListed'
  BY <1>8 DEF TermInv, RunningIsListed
<1>13. ASSUME NEW d \in Conns, d # c, conns[d].pc = "spawn", conns[d].sid = s
       PROVE  s \in spawnRaced'
  BY <1>2, <1>13 DEF getOrCreateSession, Handles
<1>14. RaceInv'
  <2> SUFFICES ASSUME NEW d \in Conns, conns'[d].pc = "spawn"
               PROVE  /\ ptySessions'[conns'[d].sid] # 0 => conns'[d].sid \in spawnRaced'
                      /\ \A e \in Conns : e # d /\ conns'[e].pc = "spawn" /\ conns'[e].sid = conns'[d].sid
                             => conns'[d].sid \in spawnRaced'
    BY DEF RaceInv
  <2>1. CASE d = c
    BY <2>1, <1>3, <1>5, <1>7, <1>8, <1>13
  <2>2. CASE d # c
    <3>1. conns'[d] = conns[d] /\ conns[d].pc = "spawn"
      BY <2>2, <1>7
    <3>2. ptySessions[conns[d].sid] # 0 => conns[d].sid \in spawnRaced
      BY <3>1 DEF TermInv, RaceInv
    <3>3. ASSUME NEW e \in Conns, e # d, conns'[e].pc = "spawn", conns'[e].sid = conns[d].sid
          PROVE  conns[d].sid \in spawnRaced'
      <4>1. CASE e = c
        BY <4>1, <3>1, <3>3, <2>2, <1>5, <1>7, <1>13
      <4>2. CASE e # c
        BY <4>2, <3>1, <3>3, <1>7, <1>8 DEF TermInv, RaceInv
      <4>3. QED
        BY <4>1, <4>2
    <3>4. QED
      BY <3>1, <3>2, <3>3, <1>8
  <2>3. QED
    BY <2>1, <2>2
<1>15. QED
  BY <1>7, <1>10, <1>11, <1>12, <1>14

(* A new shell: nothing refers to it yet.  The shell whose place in the map it
   takes was started for the same session in the meantime, so the race was
   noted. *)
LEMMA SpawnStep ==
    ASSUME TermInv, NEW c \in Conns, NEW p \in Shells, Spawn(c, p)
    PROVE  /\ conns' \in [Conns -> ConnRow] /\ shells' \in [Shells -> ShellRow]
           /\ ptySessions' \in [TermSids -> Shells \cup {0}]
           /\ ConnInv' /\ SessionInv' /\ RaceInv' /\ RunningIsListed'
<1>1. conns[c] \in ConnRow /\ conns[c].pc = "spawn" /\ conns[c].sid \in TermSids /\ conns[c].user = Head(conns[c].sid)
  BY TermRows DEF TermInv, ConnInv, Spawn, Handles
<1>2. PICK s \in TermSids : s = conns[c].sid
  BY <1>1
<1>3. shells[p].state = "none" /\ p # 0
  BY TerminalsAssumption DEF Spawn, IsFirst, NewShells
<1>4. PICK row : row = [conns[c] EXCEPT !.pc = "open", !.shell = p]
  OBVIOUS
<1>5. row \in ConnRow /\ row.pc = "open" /\ row.shell = p /\ row.sid = s /\ row.user = Head(s)
  BY <1>1, <1>2, <1>4 DEF ConnRow, ConnPc
<1>6. conns' = [conns EXCEPT ![c] = row]
  BY <1>4 DEF Spawn
<1>7. conns' \in [Conns -> ConnRow] /\ conns'[c] = row /\ \A d \in Conns \ {c} : conns'[d] = conns[d]
  BY <1>5, <1>6, TermRows
<1>8. PICK sh : sh = [NoShell EXCEPT !.state = "running", !.owner = conns[c].user, !.ws = c]
  OBVIOUS
<1>9. sh \in ShellRow /\ sh.state = "running" /\ sh.owner = Head(s)
  BY <1>1, <1>2, <1>8, Placeholders DEF ShellRow, ConnRow
<1>10. shells' = [shells EXCEPT ![p] = sh]
  BY <1>8 DEF Spawn
<1>11. shells' \in [Shells -> ShellRow] /\ shells'[p] = sh /\ \A q \in Shells \ {p} : shells'[q] = shells[q]
  BY <1>9, <1>10, TermRows
<1>12. ptySessions' = [ptySessions EXCEPT ![s] = p]
  BY <1>2 DEF Spawn
<1>13. /\ ptySessions' \in [TermSids -> Shells \cup {0}] /\ ptySessions'[s] = p
       /\ \A t \in TermSids \ {s} : ptySessions'[t] = ptySessions[t]
  BY <1>12 DEF TermInv, TermTypeOK
<1>14. spawnRaced' = spawnRaced
  BY DEF Spawn
<1>15. ConnInv'
  <2> SUFFICES ASSUME NEW d \in Conns
               PROVE  /\ conns'[d].pc # "closed" => conns'[d].sid \in TermSids /\ conns'[d].user = Head(conns'[d].sid)
                      /\ conns'[d].shell # 0 => /\ conns'[d].pc # "closed"
                                                /\ shells'[conns'[d].shell].state # "none"
                                                /\ shells'[conns'[d].shell].owner = Head(conns'[d].sid)
                      /\ conns'[d].pc \in {"attach", "flush", "open"} => conns'[d].shell # 0
    BY DEF ConnInv
  <2>1. CASE d = c
    BY <2>1, <1>3, <1>5, <1>7, <1>9, <1>11
  <2>2. CASE d # c
    <3>1. conns'[d] = conns[d] /\ conns[d].shell \in Shells \cup {0}
      BY <2>2, <1>7, TermRows DEF ConnRow
    <3>2. conns[d].shell # 0 => conns[d].shell \in Shells \ {p}
      BY <3>1, <1>3 DEF TermInv, ConnInv
    <3>3. QED
      BY <3>1, <3>2, <1>11 DEF TermInv, ConnInv
  <2>3. QED
    BY <2>1, <2>2
<1>16. SessionInv'
  <2> SUFFICES ASSUME NEW t \in TermSids, ptySessions'[t] # 0
               PROVE  shells'[ptySessions'[t]].state # "none" /\ shells'[ptySessions'[t]].owner = Head(t)
    BY DEF SessionInv
  <2>1. CASE t = s
    BY <2>1, <1>9, <1>11, <1>13
  <2>2. CASE t # s
    <3>1. ptySessions'[t] = ptySessions[t] /\ ptySessions[t] \in Shells
      BY <2>2, <1>13 DEF TermInv, TermTypeOK
    <3>2. ptySessions[t] # p
      BY <3>1, <1>3 DEF TermInv, SessionInv
    <3>3. QED
      BY <3>1, <3>2, <1>11 DEF TermInv, SessionInv
  <2>3. QED
    BY <2>1, <2>2
<1>17. RaceInv'
  <2> SUFFICES ASSUME NEW d \in Conns, conns'[d].pc = "spawn"
               PROVE  /\ ptySessions'[conns'[d].sid] # 0 => conns'[d].sid \in spawnRaced'
                      /\ \A e \in Conns : e # d /\ conns'[e].pc = "spawn" /\ conns'[e].sid = conns'[d].sid
                             => conns'[d].sid \in spawnRaced'
    BY DEF RaceInv
  <2>1. d # c /\ conns'[d] = conns[d] /\ conns[d].pc = "spawn"
    BY <1>5, <1>7
  <2>2. conns[d].sid \in TermSids
    BY <2>1 DEF TermInv, ConnInv
  <2>3. ptySessions'[conns[d].sid] # 0 => conns[d].sid \in spawnRaced
    <3>1. CASE conns[d].sid = s
      BY <3>1, <2>1, <1>1, <1>2 DEF TermInv, RaceInv
    <3>2. CASE conns[d].sid # s
      BY <3>2, <2>1, <2>2, <1>13 DEF TermInv, RaceInv
    <3>3. QED
      BY <3>1, <3>2
  <2>4. ASSUME NEW e \in Conns, e # d, conns'[e].pc = "spawn", conns'[e].sid = conns[d].sid
        PROVE  conns[d].sid \in spawnRaced
    <3>1. e # c /\ conns'[e] = conns[e]
      BY <2>4, <1>5, <1>7
    <3>2. QED
      BY <3>1, <2>1, <2>4 DEF TermInv, RaceInv
  <2>5. QED
    BY <2>1, <2>3, <2>4, <1>14
<1>18. RunningIsListed'
  <2> SUFFICES ASSUME NEW q \in Shells, shells'[q].state = "running"
               PROVE  \E t \in TermSids : ptySessions'[t] = q \/ (t \in spawnRaced' /\ Head(t) = shells'[q].owner)
    BY DEF RunningIsListed
  <2>1. CASE q = p
    BY <2>1, <1>13
  <2>2. CASE q # p
    <3>1. shells'[q] = shells[q]
      BY <2>2, <1>11
    <3>2. PICK t \in TermSids : ptySessions[t] = q \/ (t \in spawnRaced /\ Head(t) = shells[q].owner)
      BY <3>1 DEF TermInv, RunningIsListed
    <3>3. CASE ptySessions[t] = q /\ t = s
      <4>1. ptySessions[s] # 0
        BY <3>3, TerminalsAssumption
      <4>2. s \in spawnRaced
        BY <4>1, <1>1, <1>2 DEF TermInv, RaceInv
      <4>3. Head(s) = shells[q].owner
        BY <3>3, <4>1 DEF TermInv, SessionInv
      <4>4. QED
        BY <3>1, <4>2, <4>3, <1>14
    <3>4. CASE ptySessions[t] = q /\ t # s
      BY <3>4, <1>13
    <3>5. CASE t \in spawnRaced /\ Head(t) = shells[q].owner
      BY <3>1, <3>5, <1>14
    <3>6. QED
      BY <3>2, <3>3, <3>4, <3>5
  <2>3. QED
    BY <2>1, <2>2
<1>19. QED
  BY <1>7, <1>11, <1>13, <1>15, <1>16, <1>17, <1>18

\* What a step does to tickets and their uses.
TicketTypeOK ==
    /\ tickets \in [TicketIds -> TicketRow]
    /\ lastTicket \in Nat
    /\ taken \in [TicketIds -> Nat]

(* A new ticket has an id that was not given out. *)
LEMMA CreateTicketStep ==
    ASSUME TermInv, NEW u \in TermUsers, NEW t \in TicketIds, NEW h \in Hints, createTicket(u, t, h)
    PROVE  TicketTypeOK' /\ TicketInv'
<1>1. t \in Nat /\ lastTicket \in Nat /\ termTime + TicketTTL \in Nat
  BY TerminalsAssumption DEF TermInv, TermTypeOK
<1>2. t = lastTicket + 1 /\ lastTicket' = t /\ taken' = taken
  BY DEF createTicket
<1>3. PICK s \in TermSids : s = Namespaced(u, h)
  BY NamespacedOwn
<1>4. Head(s) = u
  BY <1>3, NamespacedOwn
<1>5. PICK row : row = [user |-> u, sid |-> s, expires |-> termTime + TicketTTL]
  OBVIOUS
<1>6. row \in TicketRow /\ row.user = u /\ row.sid = s
  BY <1>1, <1>5 DEF TicketRow, UserOf, SidOf
<1>7. tickets' = [Purged EXCEPT ![t] = row]
  BY <1>3, <1>5 DEF createTicket
<1>8. Purged \in [TicketIds -> TicketRow] /\ \A i \in TicketIds : Purged[i] = NoTicket \/ Purged[i] = tickets[i]
  BY TermRows, Placeholders DEF Purged
<1>9. tickets' \in [TicketIds -> TicketRow] /\ tickets'[t] = row /\ \A i \in TicketIds \ {t} : tickets'[i] = Purged[i]
  BY <1>6, <1>7, <1>8
<1>10. taken[t] = 0 /\ taken \in [TicketIds -> Nat]
  BY <1>1, <1>2 DEF TermInv, TermTypeOK, TicketInv
<1>11. TicketTypeOK'
  BY <1>1, <1>2, <1>9, <1>10 DEF TicketTypeOK
<1>12. TicketInv'
  <2> SUFFICES ASSUME NEW i \in TicketIds
               PROVE  /\ tickets'[i] # NoTicket => /\ tickets'[i].sid \in TermSids
                                                   /\ tickets'[i].user = Head(tickets'[i].sid)
                                                   /\ taken'[i] = 0
                      /\ i > lastTicket' => tickets'[i] = NoTicket /\ taken'[i] = 0
                      /\ taken'[i] <= 1
    BY DEF TicketInv
  <2>1. i \in Nat
    BY TerminalsAssumption
  <2>2. CASE i = t
    BY <2>2, <1>1, <1>2, <1>4, <1>6, <1>9, <1>10
  <2>3. CASE i # t
    <3>1. tickets'[i] = NoTicket \/ tickets'[i] = tickets[i]
      BY <2>3, <1>8, <1>9
    <3>2. i > lastTicket' => i > lastTicket
      BY <2>1, <1>1, <1>2
    <3>3. QED
      BY <3>1, <3>2, <1>2 DEF TermInv, TicketInv
  <2>4. QED
    BY <2>2, <2>3
<1>13. QED
  BY <1>11, <1>12

(* A ticket that opens a terminal was not used before and is gone afterwards. *)
LEMMA TakeTicketStep ==
    ASSUME TermInv, NEW c \in Conns, NEW t \in TicketIds, serve(c, t)
    PROVE  TicketTypeOK' /\ TicketInv'
<1>1. tickets' = [tickets EXCEPT ![t] = NoTicket] /\ lastTicket' = lastTicket
  BY DEF serve, take
<1>2. tickets' \in [TicketIds -> TicketRow] /\ tickets'[t] = NoTicket /\ \A i \in TicketIds \ {t} : tickets'[i] = tickets[i]
  BY <1>1, TermRows, Placeholders
<1>3. taken[t] = 0 /\ taken \in [TicketIds -> Nat] /\ lastTicket \in Nat /\ ~(t > lastTicket)
  BY DEF serve, TermInv, TermTypeOK, TicketInv
<1>4. taken' = taken \/ taken' = [taken EXCEPT ![t] = @ + 1]
  BY DEF serve
<1>5. taken' \in [TicketIds -> Nat] /\ taken'[t] \in {0, 1} /\ \A i \in TicketIds \ {t} : taken'[i] = taken[i]
  BY <1>3, <1>4
<1>6. TicketTypeOK'
  BY <1>1, <1>2, <1>3, <1>5 DEF TicketTypeOK
<1>7. TicketInv'
  <2> SUFFICES ASSUME NEW i \in TicketIds
               PROVE  /\ tickets'[i] # NoTicket => /\ tickets'[i].sid \in TermSids
                                                   /\ tickets'[i].user = Head(tickets'[i].sid)
                                                   /\ taken'[i] = 0
                      /\ i > lastTicket' => tickets'[i] = NoTicket /\ taken'[i] = 0
                      /\ taken'[i] <= 1
    BY DEF TicketInv
  <2>1. CASE i = t
    BY <2>1, <1>1, <1>2, <1>3, <1>5
  <2>2. CASE i # t
    BY <2>2, <1>1, <1>2, <1>5 DEF TermInv, TicketInv
  <2>3. QED
    BY <2>1, <2>2
<1>8. QED
  BY <1>6, <1>7

(* A restart loses the tickets and forgets no use. *)
LEMMA LoseTicketsStep ==
    ASSUME TermInv, PanelRestarts
    PROVE  TicketTypeOK' /\ TicketInv'
<1>1. tickets' = [t \in TicketIds |-> NoTicket] /\ UNCHANGED <<lastTicket, taken>>
  BY DEF PanelRestarts
<1>2. TicketTypeOK'
  BY <1>1, Placeholders DEF TicketTypeOK, TermInv, TermTypeOK
<1>3. TicketInv'
  BY <1>1 DEF TicketInv, TermInv
<1>4. QED
  BY <1>2, <1>3

(* Every step keeps the invariant: those that keep the shells, the look-up and
   the start of a shell. *)
LEMMA TermInductive == TermInv /\ [TermNext]_termVars => TermInv'
<1> SUFFICES ASSUME TermInv, [TermNext]_termVars PROVE TermInv'
  OBVIOUS
<1>1. TicketTypeOK' /\ TicketInv'
  <2>1. CASE UNCHANGED <<tickets, lastTicket, taken>>
    <3>1. TicketTypeOK'
      BY <2>1 DEF TicketTypeOK, TermInv, TermTypeOK
    <3>2. TicketInv'
      BY <2>1 DEF TicketInv, TermInv
    <3>3. QED
      BY <3>1, <3>2
  <2>2. CASE \E u \in TermUsers, t \in TicketIds, h \in Hints : createTicket(u, t, h)
    BY <2>2, CreateTicketStep
  <2>3. CASE \E c \in Conns, t \in TicketIds : serve(c, t)
    BY <2>3, TakeTicketStep
  <2>4. CASE PanelRestarts
    BY <2>4, LoseTicketsStep
  <2>5. QED
    BY <2>1, <2>2, <2>3, <2>4 DEF TermNext, termVars, getOrCreateSession, Spawn, SpawnFails, Attach, FlushPending,
       Input, Disconnect, ReadPty, WriteOutput, ShellExits, cleanIdleSessions, TermTick
<1>2. termTime' \in Nat \ {0}
  <2>1. termTime' = termTime \/ termTime' = termTime + 1
    BY DEF TermNext, termVars, createTicket, serve, getOrCreateSession, Spawn, SpawnFails, Attach, FlushPending,
       Input, Disconnect, ReadPty, WriteOutput, ShellExits, cleanIdleSessions, PanelRestarts, TermTick
  <2>2. QED
    BY <2>1 DEF TermInv, TermTypeOK
<1> DEFINE Rest == /\ conns' \in [Conns -> ConnRow] /\ shells' \in [Shells -> ShellRow]
                   /\ ptySessions' \in [TermSids -> Shells \cup {0}]
                   /\ ConnInv' /\ SessionInv' /\ RaceInv' /\ RunningIsListed'
<1>3. Keeping => Rest
  BY KeepingKeeps DEF Keeping
<1>4. ASSUME NEW c \in Conns, getOrCreateSession(c) PROVE Rest
  <2>1. shells' \in [Shells -> ShellRow] /\ ptySessions' \in [TermSids -> Shells \cup {0}]
    BY <1>4 DEF getOrCreateSession, TermInv, TermTypeOK
  <2>2. QED
    BY <1>4, <2>1, LookupStep
<1>5. ASSUME NEW c \in Conns, NEW p \in Shells, Spawn(c, p) PROVE Rest
  BY <1>5, SpawnStep
<1>6. ASSUME NEW c \in Conns, Disconnect(c) PROVE Keeping
  BY <1>6, DetachedStep DEF Disconnect
<1>7. ASSUME PanelRestarts PROVE Keeping
  BY <1>7, DetachedStep DEF PanelRestarts
<1>8. Rest
  <2> HIDE DEF Rest
  <2>1. CASE \/ cleanIdleSessions \/ TermTick \/ UNCHANGED termVars
             \/ \E u \in TermUsers, t \in TicketIds, h \in Hints : createTicket(u, t, h)
             \/ \E p \in Shells : ReadPty(p) \/ WriteOutput(p) \/ ShellExits(p)
    BY <2>1, <1>3, QuietStep
  <2>2. ASSUME NEW c \in Conns, Attach(c) \/ FlushPending(c) \/ Input(c) PROVE Rest
    BY <2>2, <1>3, AttachStep
  <2>3. ASSUME NEW c \in Conns, NEW t \in TicketIds, serve(c, t) PROVE Rest
    BY <2>3, <1>3, ServeStep
  <2>4. ASSUME NEW c \in Conns, SpawnFails(c) PROVE Rest
    BY <2>4, <1>3, SpawnFailsStep
  <2>5. QED
    BY <2>1, <2>2, <2>3, <2>4, <1>3, <1>4, <1>5, <1>6, <1>7 DEF TermNext
<1>9. QED
  BY <1>1, <1>2, <1>8 DEF TermInv, TermTypeOK, TicketTypeOK

(* "One account can never reattach to another's shell": whatever session ids
   browsers send back, however connections, clean-ups and restarts interleave,
   a connection holds a shell that its own account started, and a ticket opens
   at most one terminal. *)
THEOREM OwnShellOnlyHolds == TermSpec => []OwnShellOnly
<1>1. TermInv => OwnShellOnly
  <2> SUFFICES ASSUME TermInv PROVE OwnShellOnly
    OBVIOUS
  <2>1. ASSUME NEW c \in Conns, conns[c].shell # 0
        PROVE  shells[conns[c].shell].owner = conns[c].user
    BY <2>1 DEF TermInv, ConnInv
  <2>2. QED
    BY <2>1 DEF OwnShellOnly, TermInv, TicketInv
<1>2. QED
  BY <1>1, TermInitial, TermInductive, PTL DEF TermSpec

(* A shell that runs is in the map, where the clean-up of cleanIdleSessions
   finds it, unless two connections were about to start one for a session of
   its owner at a time. *)
THEOREM RunningIsListedHolds == TermSpec => []RunningIsListed
<1>1. TermInv => RunningIsListed
  BY DEF TermInv
<1>2. QED
  BY <1>1, TermInitial, TermInductive, PTL DEF TermSpec

-----------------------------------------------------------------------------
(* Accounts: the quota of sites *)

Quotas == Nat \cup {Unlimited}
ReqFields == {"op", "pc", "caller", "role", "target", "word", "num", "plan"}
UserFields == {"state", "role", "by", "max", "plan"}

\* What the quota depends on has its type.
ReqTypes ==
    /\ DOMAIN reqs = Requests
    /\ \A r \in Requests : DOMAIN reqs[r] = ReqFields /\ reqs[r].num \in Quotas
UserTypes ==
    /\ DOMAIN users = UserIds /\ DOMAIN peak = UserIds
    /\ \A u \in UserIds : DOMAIN users[u] = UserFields /\ users[u].max \in Quotas /\ peak[u] \in Quotas
QuotaTypes == ReqTypes /\ UserTypes /\ DOMAIN owner = Sites

\* The quota of a user is no higher than its peak.
PeakInv ==
    \A u \in UserIds : peak[u] = Unlimited \/ (users[u].max # Unlimited /\ users[u].max <= peak[u])

\* An id that was not given out owns no site and has made no request.
AbsentInv ==
    \A u \in UserIds : users[u].state = "absent" =>
        Owned(u) = {} /\ \A r \in Requests : reqs[r].caller # u

\* The creations of a user that have passed the count.
Creating(u) == {r \in Requests : reqs[r].op = "site" /\ reqs[r].pc = "insert" /\ reqs[r].caller = u}

\* The sites of a user and those about to be inserted are within the bound together.
RoomFor(u) ==
    peak[u] # Unlimited =>
        Cardinality(Owned(u)) + Cardinality(Creating(u)) <= peak[u] + Cardinality(Requests) - 1
RoomInv == \A u \in Live : RoomFor(u)

QuotaInv == QuotaTypes /\ PeakInv /\ AbsentInv /\ RoomInv

(* The sets that are counted are finite. *)
LEMMA CountsFinite ==
    ASSUME NEW u
    PROVE  /\ IsFiniteSet(Owned(u)) /\ Cardinality(Owned(u)) \in Nat
           /\ IsFiniteSet(Creating(u)) /\ Cardinality(Creating(u)) \in Nat
           /\ Cardinality(Creating(u)) <= Cardinality(Requests)
           /\ Cardinality(Requests) \in Nat /\ Cardinality(Requests) >= 1
<1>1. IsFiniteSet(Sites) /\ IsFiniteSet(Requests) /\ Requests # {}
  BY AccountsAssumption
<1>2. Owned(u) \in SUBSET Sites /\ Creating(u) \in SUBSET Requests
  BY DEF Owned, Creating
<1>3. IsFiniteSet(Owned(u)) /\ Cardinality(Owned(u)) \in Nat
  BY <1>1, <1>2, FS_Subset, FS_CardinalityType
<1>4. /\ IsFiniteSet(Creating(u)) /\ Cardinality(Creating(u)) \in Nat
      /\ Cardinality(Creating(u)) <= Cardinality(Requests) /\ Cardinality(Requests) \in Nat
  BY <1>1, <1>2, FS_Subset, FS_CardinalityType
<1>5. Cardinality(Requests) # 0
  BY <1>1, FS_EmptySet
<1>6. QED
  BY <1>3, <1>4, <1>5

(* Ids of users are not the placeholders. *)
LEMMA UserIdFacts == \A u \in UserIds : u \in Nat /\ u # Null /\ u # Unused
  BY AccountsAssumption DEF UserIds, Null, Unused

(* Idle and the users of the start have their types. *)
LEMMA AccountPlaceholders ==
    /\ DOMAIN Idle = ReqFields /\ Idle.num \in Quotas /\ Idle.caller = Null /\ Idle.op = "" /\ Idle.pc = "idle"
    /\ \A role, by : \A max \in Quotas :
          /\ DOMAIN User(role, by, max) = UserFields /\ User(role, by, max).max = max
          /\ User(role, by, max).state = "live"
    /\ DOMAIN Absent = UserFields /\ Absent.max = Unlimited /\ Absent.state = "absent"
    /\ Unlimited \in Quotas /\ \A n \in Nat : n # Unlimited
<1>1. /\ DOMAIN Idle = ReqFields /\ Idle.num \in Quotas /\ Idle.caller = Null /\ Idle.op = "" /\ Idle.pc = "idle"
  BY DEF Idle, ReqFields, Quotas
<1>2. \A role, by : \A max \in Quotas :
          /\ DOMAIN User(role, by, max) = UserFields /\ User(role, by, max).max = max
          /\ User(role, by, max).state = "live"
  BY DEF User, UserFields
<1>3. DOMAIN Absent = UserFields /\ Absent.max = Unlimited /\ Absent.state = "absent"
  BY DEF Absent, User, UserFields
<1>4. Unlimited \in Quotas /\ \A n \in Nat : n # Unlimited
  BY DEF Quotas, Unlimited
<1>5. QED
  BY <1>1, <1>2, <1>3, <1>4

(* At the start at most user 3 owns a site. *)
LEMMA QuotaInitial == Init => QuotaInv
<1> SUFFICES ASSUME Init PROVE QuotaInv
  OBVIOUS
<1>0. DOMAIN users = UserIds /\ DOMAIN peak = UserIds /\ DOMAIN owner = Sites /\ DOMAIN reqs = Requests
  BY DEF Init
<1>1. ASSUME NEW u \in UserIds
      PROVE  /\ DOMAIN users[u] = UserFields /\ users[u].max \in Quotas /\ peak[u] = users[u].max
             /\ u \notin {1, 2, 3} => users[u].state = "absent"
             /\ u = 3 => users[u].max = 1
             /\ u \in {1, 2} => users[u].max = Unlimited
             /\ u \in {1, 2, 3} => users[u].state = "live"
  <2>1. u = 1 => users[u] = User(RoleSuperAdmin, Null, Unlimited)
    BY DEF Init
  <2>2. u = 2 => users[u] = User(RoleAdmin, Null, Unlimited)
    BY DEF Init
  <2>3. u = 3 => users[u] = User(RoleUser, 2, 1)
    BY DEF Init
  <2>4. u \notin {1, 2, 3} => users[u] = Absent
    BY DEF Init
  <2>5. peak[u] = users[u].max
    BY DEF Init
  <2>6. 1 \in Quotas
    BY DEF Quotas
  <2>7. CASE u \notin {1, 2, 3}
    BY <2>4, <2>5, <2>7, AccountPlaceholders
  <2>8. CASE u \in {1, 2, 3}
    <3>1. PICK role, by : users[u] = User(role, by, IF u = 3 THEN 1 ELSE Unlimited)
      BY <2>1, <2>2, <2>3, <2>8
    <3>2. PICK max \in Quotas : max = IF u = 3 THEN 1 ELSE Unlimited
      BY <2>6, AccountPlaceholders
    <3>3. DOMAIN users[u] = UserFields /\ users[u].max = max /\ users[u].state = "live"
      BY <3>1, <3>2 DEF User, UserFields
    <3>4. (u = 3 => users[u].max = 1) /\ (u \in {1, 2} => users[u].max = Unlimited)
      BY <3>2, <3>3
    <3>5. users[u].max \in Quotas
      BY <3>3
    <3>6. QED
      BY <2>5, <2>8, <3>3, <3>4, <3>5, Zenon
  <2>9. QED
    BY <2>7, <2>8
<1>2. \A r \in Requests : reqs[r] = Idle
  BY DEF Init
<1>3. \A s \in Sites : owner[s] = 3 \/ owner[s] = Unused
  BY DEF Init
<1>4. \A s \in Sites : owner[s] = 3 => s = 1
  BY DEF Init, Unused
<1>5. QuotaTypes
  BY <1>0, <1>1, <1>2, AccountPlaceholders DEF QuotaTypes, ReqTypes, UserTypes
<1>6. PeakInv
  <2>1. \A q \in Quotas : q = Unlimited \/ q <= q
    BY DEF Quotas
  <2>2. QED
    BY <1>1, <2>1 DEF PeakInv
<1>7. AbsentInv
  <2> SUFFICES ASSUME NEW u \in UserIds, users[u].state = "absent"
               PROVE  Owned(u) = {} /\ \A r \in Requests : reqs[r].caller # u
    BY DEF AbsentInv
  <2>1. u # 3 /\ u # Unused /\ u # Null
    BY <1>1, UserIdFacts
  <2>2. QED
    BY <1>2, <1>3, <2>1, AccountPlaceholders DEF Owned
<1>8. ASSUME NEW u \in Live, peak[u] # Unlimited
      PROVE  Cardinality(Owned(u)) + Cardinality(Creating(u)) <= peak[u] + Cardinality(Requests) - 1
  <2>1. u \in UserIds /\ users[u].state = "live"
    BY DEF Live
  <2>2. u = 3 /\ peak[u] = 1
    BY <1>1, <1>8, <2>1
  <2>3. Owned(u) \in SUBSET {1}
    BY <1>4, <2>2 DEF Owned
  <2>4. IsFiniteSet({1}) /\ Cardinality({1}) = 1
    BY FS_Singleton
  <2>5. PICK O : O = Owned(u)
    OBVIOUS
  <2>6. Cardinality(O) <= 1 /\ Cardinality(O) \in Nat
    BY <2>3, <2>4, <2>5, FS_Subset, FS_CardinalityType
  <2>7. Creating(u) = {}
    BY <1>2, AccountPlaceholders DEF Creating
  <2>8. Cardinality(Creating(u)) = 0
    BY <2>7, FS_EmptySet
  <2>9. QED
    BY <2>2, <2>5, <2>6, <2>8, CountsFinite
<1>9. QED
  BY <1>5, <1>6, <1>7, <1>8 DEF QuotaInv, RoomInv, RoomFor

\* No creation passes the count, and no request gets a caller.
ReqsCalm ==
    /\ ReqTypes'
    /\ \A r \in Requests : reqs'[r].caller \in {reqs[r].caller, Null}
    /\ \A u \in UserIds : Creating(u)' \subseteq Creating(u)
\* No user appears, and no quota changes.
UsersCalm ==
    /\ DOMAIN users' = UserIds /\ peak' = peak
    /\ \A u \in UserIds : /\ DOMAIN users'[u] = UserFields /\ users'[u].max = users[u].max
                          /\ users'[u].state = "live" => users[u].state = "live"
                          /\ users'[u].state = "absent" => users[u].state = "absent"
\* No site gets an owner.
OwnersCalm == DOMAIN owner' = Sites /\ \A s \in Sites : owner'[s] \in {owner[s], Null}

(* There is room where there was, as long as neither sites nor creations are added. *)
LEMMA RoomKept ==
    ASSUME QuotaInv, NEW u \in Live, peak'[u] \in Quotas, Owned(u)' \subseteq Owned(u), Creating(u)' \subseteq Creating(u),
           peak'[u] # Unlimited => peak[u] # Unlimited /\ peak[u] <= peak'[u]
    PROVE  RoomFor(u)'
<1> SUFFICES ASSUME peak'[u] # Unlimited
             PROVE  (Cardinality(Owned(u)) + Cardinality(Creating(u)))' <= peak'[u] + Cardinality(Requests) - 1
  BY DEF RoomFor
<1>1. PICK O \in SUBSET Owned(u) : O = Owned(u)'
  OBVIOUS
<1>2. PICK C \in SUBSET Creating(u) : C = Creating(u)'
  OBVIOUS
<1>3. Cardinality(O) \in Nat /\ Cardinality(O) <= Cardinality(Owned(u))
  BY CountsFinite, FS_Subset, FS_CardinalityType
<1>4. Cardinality(C) \in Nat /\ Cardinality(C) <= Cardinality(Creating(u))
  BY CountsFinite, FS_Subset, FS_CardinalityType
<1>5. Cardinality(Owned(u)) + Cardinality(Creating(u)) <= peak[u] + Cardinality(Requests) - 1
  BY DEF QuotaInv, RoomInv, RoomFor
<1>6. /\ Cardinality(Owned(u)) \in Nat /\ Cardinality(Creating(u)) \in Nat /\ Cardinality(Requests) \in Nat
  BY CountsFinite
<1>7. u \in UserIds
  BY DEF Live
<1>8. peak[u] \in Quotas
  BY <1>7 DEF QuotaInv, QuotaTypes, UserTypes
<1>9. peak[u] \in Nat /\ peak'[u] \in Nat /\ peak[u] <= peak'[u]
  BY <1>8 DEF Quotas
<1>10. Cardinality(O) + Cardinality(C) <= peak'[u] + Cardinality(Requests) - 1
  BY <1>3, <1>4, <1>5, <1>6, <1>9
<1>11. QED
  BY <1>1, <1>2, <1>10

(* A step that adds neither users, quotas, sites nor creations keeps the invariant. *)
LEMMA CalmKeeps ==
    ASSUME QuotaInv, ReqsCalm, UsersCalm, OwnersCalm
    PROVE  QuotaInv'
<1>1. QuotaTypes'
  BY DEF QuotaInv, QuotaTypes, UserTypes, ReqsCalm, UsersCalm, OwnersCalm
<1>2. PeakInv'
  BY DEF QuotaInv, PeakInv, UsersCalm
<1>3. ASSUME NEW u \in UserIds PROVE Owned(u)' \subseteq Owned(u)
  BY UserIdFacts DEF Owned, OwnersCalm
<1>4. AbsentInv'
  <2> SUFFICES ASSUME NEW u \in UserIds, users'[u].state = "absent"
               PROVE  Owned(u)' = {} /\ \A r \in Requests : reqs'[r].caller # u
    BY DEF AbsentInv
  <2>1. users[u].state = "absent"
    BY DEF UsersCalm
  <2>2. Owned(u) = {} /\ \A r \in Requests : reqs[r].caller # u
    BY <2>1 DEF QuotaInv, AbsentInv
  <2>3. QED
    BY <1>3, <2>2, UserIdFacts DEF ReqsCalm
<1>5. ASSUME NEW u \in Live' PROVE RoomFor(u)'
  <2>1. u \in UserIds /\ users'[u].state = "live"
    BY DEF Live
  <2>2. u \in Live
    BY <2>1 DEF Live, UsersCalm
  <2>3. peak'[u] = peak[u] /\ peak[u] \in Quotas
    BY <2>1 DEF UsersCalm, QuotaInv, QuotaTypes, UserTypes
  <2>4. peak'[u] # Unlimited => peak[u] # Unlimited /\ peak[u] <= peak'[u]
    BY <2>3 DEF Quotas
  <2>5. Owned(u)' \subseteq Owned(u) /\ Creating(u)' \subseteq Creating(u)
    BY <1>3, <2>1 DEF ReqsCalm
  <2>6. QED
    BY <2>2, <2>3, <2>4, <2>5, RoomKept
<1>6. RoomInv'
  BY <1>5 DEF RoomInv
<1>7. QED
  BY <1>1, <1>2, <1>4, <1>6 DEF QuotaInv

(* Tables that a step leaves alone are calm. *)
LEMMA UntouchedCalm ==
    ASSUME QuotaInv
    PROVE  /\ UNCHANGED reqs => ReqsCalm
           /\ UNCHANGED <<users, peak>> => UsersCalm
           /\ UNCHANGED owner => OwnersCalm
<1>1. UNCHANGED reqs => ReqsCalm
  BY DEF QuotaInv, QuotaTypes, ReqTypes, ReqsCalm, Creating
<1>2. UNCHANGED <<users, peak>> => UsersCalm
  BY DEF QuotaInv, QuotaTypes, UserTypes, UsersCalm
<1>3. UNCHANGED owner => OwnersCalm
  BY DEF QuotaInv, QuotaTypes, OwnersCalm
<1>4. QED
  BY <1>1, <1>2, <1>3

(* Answering a request takes it away. *)
LEMMA AnswerCalm ==
    ASSUME QuotaInv, NEW r \in Requests, Answer(r)
    PROVE  ReqsCalm /\ \A u \in UserIds : Creating(u)' = Creating(u) \ {r}
<1>1. DOMAIN reqs = Requests /\ \A q \in Requests : DOMAIN reqs[q] = ReqFields /\ reqs[q].num \in Quotas
  BY DEF QuotaInv, QuotaTypes, ReqTypes
<1>2. DOMAIN reqs' = Requests /\ \A q \in Requests : reqs'[q] = IF q = r THEN Idle ELSE reqs[q]
  BY <1>1 DEF Answer
<1>3. DOMAIN Idle = ReqFields /\ Idle.num \in Quotas /\ Idle.caller = Null /\ Idle.op = ""
  BY AccountPlaceholders
<1>4. ReqTypes'
  BY <1>1, <1>2, <1>3 DEF ReqTypes
<1>5. \A u : Creating(u)' = Creating(u) \ {r}
  BY <1>2, <1>3 DEF Creating
<1>6. QED
  BY <1>2, <1>3, <1>4, <1>5 DEF ReqsCalm

(* Going on to another statement keeps the caller. *)
LEMMA GotoEffect ==
    ASSUME QuotaInv, NEW r \in Requests, NEW pc, Goto(r, pc)
    PROVE  /\ ReqTypes' /\ \A q \in Requests : reqs'[q].caller = reqs[q].caller
           /\ \A u : Creating(u)' \subseteq Creating(u) \cup (IF u = reqs[r].caller THEN {r} ELSE {})
           /\ reqs[r].op # "site" => ReqsCalm
<1>1. DOMAIN reqs = Requests /\ \A q \in Requests : DOMAIN reqs[q] = ReqFields /\ reqs[q].num \in Quotas
  BY DEF QuotaInv, QuotaTypes, ReqTypes
<1>2. PICK row : row = [reqs[r] EXCEPT !.pc = pc]
  OBVIOUS
<1>3. /\ DOMAIN row = ReqFields /\ row.num = reqs[r].num /\ row.caller = reqs[r].caller /\ row.op = reqs[r].op
  BY <1>1, <1>2 DEF ReqFields
<1>4. DOMAIN reqs' = Requests /\ \A q \in Requests : reqs'[q] = IF q = r THEN row ELSE reqs[q]
  BY <1>1, <1>2 DEF Goto
<1>5. ReqTypes' /\ \A q \in Requests : reqs'[q].caller = reqs[q].caller
  BY <1>1, <1>3, <1>4 DEF ReqTypes
<1>6. \A u : Creating(u)' \subseteq Creating(u) \cup (IF u = reqs[r].caller THEN {r} ELSE {})
  BY <1>3, <1>4 DEF Creating
<1>7. reqs[r].op # "site" => \A u : Creating(u)' \subseteq Creating(u)
  BY <1>3, <1>4 DEF Creating
<1>8. QED
  BY <1>5, <1>6, <1>7 DEF ReqsCalm

(* A request arrives from a user that is live, or with a token. *)
LEMMA ArriveKeeps ==
    ASSUME QuotaInv, NEW r \in Requests, NEW op, NEW caller, NEW role, Arrive(r, op, caller, role),
           caller \in Live \/ caller = Token
    PROVE  QuotaInv'
<1>1. DOMAIN reqs = Requests /\ \A q \in Requests : DOMAIN reqs[q] = ReqFields /\ reqs[q].num \in Quotas
  BY DEF QuotaInv, QuotaTypes, ReqTypes
<1>2. UNCHANGED <<users, owner, peak>>
  BY DEF Arrive, tables
<1>3. PICK target \in Targets(op), body \in Bodies(op) :
          reqs' = [reqs EXCEPT ![r] = [op |-> op, pc |-> "check", caller |-> caller, role |-> role, target |-> target,
                                       word |-> body[1], num |-> body[2], plan |-> NoPlan]]
  BY DEF Arrive
<1>4. body[2] \in {-1, 0, 1, 2}
  <2>1. CASE op = "create"
    <3>1. body \in (Roles \X {Unlimited}) \cup {<<RoleUser, 0>>, <<RoleUser, 2>>}
      BY <2>1 DEF Bodies
    <3>2. QED
      BY <3>1 DEF Unlimited
  <2>2. CASE op = "update"
    <3>1. body \in (Roles \X {Unlimited}) \cup ({"", RoleUser} \X {0, 2})
      BY <2>2 DEF Bodies
    <3>2. QED
      BY <3>1 DEF Unlimited
  <2>3. CASE op \in {"newPlan", "plan"}
    <3>1. body = <<"", 1>> \/ body = <<"", 2>>
      BY <2>3 DEF Bodies
    <3>2. CASE body = <<"", 1>>
      BY <3>2
    <3>3. CASE body = <<"", 2>>
      BY <3>3
    <3>4. QED
      BY <3>1, <3>2, <3>3
  <2>4. CASE op \in {"assign", "permission", "approve", "token"}
    <3>1. \E W : body \in W \X {0}
      <4>1. CASE op \in {"assign", "permission"}
        <5>1. body \in {"read", "write"} \X {0}
          BY <4>1 DEF Bodies
        <5>2. QED
          BY <5>1, Zenon
      <4>2. CASE op = "approve"
        <5>1. body \in {"approved", "expired"} \X {0}
          BY <4>2 DEF Bodies
        <5>2. QED
          BY <5>1, Zenon
      <4>3. CASE op = "token"
        <5>1. body \in Scopes \X {0}
          BY <4>3 DEF Bodies
        <5>2. QED
          BY <5>1, Zenon
      <4>4. QED
        BY <2>4, <4>1, <4>2, <4>3
    <3>2. QED
      BY <3>1
  <2>5. CASE op \notin {"create", "update", "newPlan", "plan", "assign", "permission", "approve", "token"}
    <3>1. body = <<"", 0>>
      BY <2>5 DEF Bodies
    <3>2. body[2] = 0
      BY <3>1
    <3>3. QED
      BY <3>2
  <2>6. QED
    BY <2>1, <2>2, <2>3, <2>4, <2>5
<1>5. PICK row : row = [op |-> op, pc |-> "check", caller |-> caller, role |-> role, target |-> target,
                        word |-> body[1], num |-> body[2], plan |-> NoPlan]
  OBVIOUS
<1>6. DOMAIN row = ReqFields /\ row.num = body[2] /\ row.caller = caller /\ row.pc = "check"
  BY <1>5 DEF ReqFields
<1>7. row.num \in Quotas
  BY <1>4, <1>6 DEF Quotas, Unlimited
<1>8. DOMAIN reqs' = Requests /\ \A q \in Requests : reqs'[q] = IF q = r THEN row ELSE reqs[q]
  BY <1>1, <1>3, <1>5
<1>9. ReqTypes'
  BY <1>1, <1>6, <1>7, <1>8 DEF ReqTypes
<1>10. QuotaTypes' /\ PeakInv'
  BY <1>2, <1>9 DEF QuotaInv, QuotaTypes, UserTypes, PeakInv
<1>11. \A u : Creating(u)' \subseteq Creating(u)
  BY <1>6, <1>8 DEF Creating
<1>12. AbsentInv'
  <2> SUFFICES ASSUME NEW u \in UserIds, users'[u].state = "absent"
               PROVE  Owned(u)' = {} /\ \A q \in Requests : reqs'[q].caller # u
    BY DEF AbsentInv
  <2>1. Owned(u) = {} /\ \A q \in Requests : reqs[q].caller # u
    BY <1>2 DEF QuotaInv, AbsentInv
  <2>2. caller # u
    BY <1>2, UserIdFacts DEF Live, Token, Null
  <2>3. QED
    BY <1>2, <1>6, <1>8, <2>1, <2>2 DEF Owned
<1>13. ASSUME NEW u \in Live' PROVE RoomFor(u)'
  <2>1. u \in Live /\ u \in UserIds
    BY <1>2 DEF Live
  <2>2. peak'[u] = peak[u] /\ peak[u] \in Quotas
    BY <1>2, <2>1 DEF QuotaInv, QuotaTypes, UserTypes
  <2>3. peak'[u] # Unlimited => peak[u] # Unlimited /\ peak[u] <= peak'[u]
    BY <2>2 DEF Quotas
  <2>4. Owned(u)' \subseteq Owned(u)
    BY <1>2 DEF Owned
  <2>5. QED
    BY <1>11, <2>1, <2>2, <2>3, <2>4, RoomKept
<1>14. QED
  BY <1>10, <1>12, <1>13 DEF QuotaInv, RoomInv

(* A user that is created owns nothing and has made no request. *)
LEMMA CreateUserKeeps ==
    ASSUME QuotaInv, NEW r \in Requests, CreateUser(r)
    PROVE  QuotaInv'
<1>1. Answer(r) /\ owner' = owner
  BY DEF CreateUser
<1>2. ReqsCalm /\ OwnersCalm
  BY <1>1, AnswerCalm, UntouchedCalm
<1>3. CASE UNCHANGED <<users, peak>>
  BY <1>2, <1>3, UntouchedCalm, CalmKeeps
<1>4. CASE ~UNCHANGED <<users, peak>>
  <2>1. PICK n \in Quotas : n = reqs[r].num
    BY DEF QuotaInv, QuotaTypes, ReqTypes
  <2>2. PICK v \in FreshUser : /\ users' = [users EXCEPT ![v] = User(reqs[r].word, reqs[r].caller, reqs[r].num)]
                               /\ peak' = [peak EXCEPT ![v] = reqs[r].num]
    BY <1>4 DEF CreateUser
  <2>3. v \in UserIds /\ users[v].state = "absent"
    BY DEF FreshUser, Next_
  <2>4. PICK row : row = User(reqs[r].word, reqs[r].caller, n)
    OBVIOUS
  <2>5. DOMAIN row = UserFields /\ row.max = n /\ row.state = "live"
    BY <2>4 DEF User, UserFields
  <2>6. /\ DOMAIN users' = UserIds /\ DOMAIN peak' = UserIds
        /\ users'[v] = row /\ peak'[v] = n
        /\ \A u \in UserIds : u # v => users'[u] = users[u] /\ peak'[u] = peak[u]
    BY <2>1, <2>2, <2>3, <2>4 DEF QuotaInv, QuotaTypes, UserTypes
  <2>7. QuotaTypes'
    BY <1>2, <2>5, <2>6 DEF QuotaInv, QuotaTypes, UserTypes, ReqsCalm, OwnersCalm
  <2>8. n = Unlimited \/ n <= n
    BY DEF Quotas
  <2>9. PeakInv'
    BY <2>5, <2>6, <2>8 DEF QuotaInv, PeakInv
  <2>10. ASSUME NEW u \in UserIds PROVE Owned(u)' = Owned(u) /\ Creating(u)' \subseteq Creating(u)
    BY <1>1, <1>2 DEF Owned, ReqsCalm
  <2>11. AbsentInv'
    <3> SUFFICES ASSUME NEW u \in UserIds, users'[u].state = "absent"
                 PROVE  Owned(u)' = {} /\ \A q \in Requests : reqs'[q].caller # u
      BY DEF AbsentInv
    <3>1. users[u].state = "absent"
      BY <2>5, <2>6
    <3>2. Owned(u) = {} /\ \A q \in Requests : reqs[q].caller # u
      BY <3>1 DEF QuotaInv, AbsentInv
    <3>3. QED
      BY <1>2, <2>10, <3>2, UserIdFacts DEF ReqsCalm
  <2>12. RoomFor(v)'
    <3>1. Owned(v) = {} /\ \A q \in Requests : reqs[q].caller # v
      BY <2>3 DEF QuotaInv, AbsentInv
    <3>2. Creating(v) = {}
      BY <3>1 DEF Creating
    <3>3. Owned(v)' = {} /\ Creating(v)' = {}
      BY <2>3, <2>10, <3>1, <3>2
    <3>4. Cardinality(Owned(v)') = 0 /\ Cardinality(Creating(v)') = 0
      BY <3>3, FS_EmptySet
    <3>5. n # Unlimited => 0 <= n + Cardinality(Requests) - 1
      BY CountsFinite DEF Quotas
    <3>6. QED
      BY <2>6, <3>4, <3>5 DEF RoomFor
  <2>13. ASSUME NEW u \in Live', u # v PROVE RoomFor(u)'
    <3>1. u \in UserIds /\ u \in Live
      BY <2>6, <2>13 DEF Live
    <3>2. peak'[u] = peak[u] /\ peak[u] \in Quotas
      BY <2>6, <2>13, <3>1 DEF QuotaInv, QuotaTypes, UserTypes
    <3>3. peak'[u] # Unlimited => peak[u] # Unlimited /\ peak[u] <= peak'[u]
      BY <3>2 DEF Quotas
    <3>4. Owned(u)' \subseteq Owned(u) /\ Creating(u)' \subseteq Creating(u)
      BY <2>10, <3>1
    <3>5. QED
      BY <3>1, <3>2, <3>3, <3>4, RoomKept
  <2>14. QED
    BY <2>7, <2>9, <2>11, <2>12, <2>13 DEF QuotaInv, RoomInv
<1>5. QED
  BY <1>3, <1>4

(* A new quota moves the peak up, or leaves it. *)
LEMMA UpdateMaxSitesKeeps ==
    ASSUME QuotaInv, NEW r \in Requests, UpdateMaxSites(r)
    PROVE  QuotaInv'
<1>1. Answer(r) /\ owner' = owner
  BY DEF UpdateMaxSites
<1>2. ReqsCalm /\ OwnersCalm
  BY <1>1, AnswerCalm, UntouchedCalm
<1>3. CASE UNCHANGED <<users, peak>>
  BY <1>2, <1>3, UntouchedCalm, CalmKeeps
<1>4. CASE ~UNCHANGED <<users, peak>>
  <2>1. PICK n \in Quotas : n = reqs[r].num
    BY DEF QuotaInv, QuotaTypes, ReqTypes
  <2>2. PICK max : max = IF n > 0 THEN n ELSE Unlimited
    OBVIOUS
  <2>3. max \in Quotas
    BY <2>2, AccountPlaceholders
  <2>4. PICK v : v = reqs[r].target
    OBVIOUS
  <2>5. /\ v \in Live
        /\ users' = [users EXCEPT ![v].max = max]
        /\ peak' = [peak EXCEPT ![v] = IF Unlimited \in {peak[v], max} THEN Unlimited
                                       ELSE IF max > peak[v] THEN max ELSE peak[v]]
    BY <1>4, <2>1, <2>2, <2>4 DEF UpdateMaxSites
  <2>6. v \in UserIds /\ users[v].state = "live" /\ DOMAIN users[v] = UserFields /\ peak[v] \in Quotas
    BY <2>5 DEF Live, QuotaInv, QuotaTypes, UserTypes
  <2>7. PICK row : row = [users[v] EXCEPT !.max = max]
    OBVIOUS
  <2>8. DOMAIN row = UserFields /\ row.max = max /\ row.state = "live"
    BY <2>6, <2>7 DEF UserFields
  <2>9. PICK top : top = IF Unlimited \in {peak[v], max} THEN Unlimited
                         ELSE IF max > peak[v] THEN max ELSE peak[v]
    OBVIOUS
  <2>10. /\ top \in Quotas
         /\ top = Unlimited \/ (max # Unlimited /\ max <= top /\ peak[v] # Unlimited /\ peak[v] <= top)
    BY <2>3, <2>6, <2>9 DEF Quotas
  <2>11. /\ DOMAIN users' = UserIds /\ DOMAIN peak' = UserIds
         /\ users'[v] = row /\ peak'[v] = top
         /\ \A u \in UserIds : u # v => users'[u] = users[u] /\ peak'[u] = peak[u]
    BY <2>5, <2>6, <2>7, <2>9 DEF QuotaInv, QuotaTypes, UserTypes
  <2>12. QuotaTypes'
    BY <1>2, <2>3, <2>8, <2>10, <2>11 DEF QuotaInv, QuotaTypes, UserTypes, ReqsCalm, OwnersCalm
  <2>13. PeakInv'
    BY <2>8, <2>10, <2>11 DEF QuotaInv, PeakInv
  <2>14. ASSUME NEW u \in UserIds PROVE Owned(u)' = Owned(u) /\ Creating(u)' \subseteq Creating(u)
    BY <1>1, <1>2 DEF Owned, ReqsCalm
  <2>15. \A u \in UserIds : users'[u].state = users[u].state
    BY <2>6, <2>8, <2>11
  <2>16. AbsentInv'
    <3> SUFFICES ASSUME NEW u \in UserIds, users'[u].state = "absent"
                 PROVE  Owned(u)' = {} /\ \A q \in Requests : reqs'[q].caller # u
      BY DEF AbsentInv
    <3>1. Owned(u) = {} /\ \A q \in Requests : reqs[q].caller # u
      BY <2>15 DEF QuotaInv, AbsentInv
    <3>2. QED
      BY <1>2, <2>14, <3>1, UserIdFacts DEF ReqsCalm
  <2>17. ASSUME NEW u \in Live' PROVE RoomFor(u)'
    <3>1. u \in UserIds /\ u \in Live
      BY <2>15 DEF Live
    <3>2. peak'[u] \in Quotas /\ peak[u] \in Quotas
      BY <2>12, <3>1 DEF QuotaInv, QuotaTypes, UserTypes
    <3>3. peak'[u] # Unlimited => peak[u] # Unlimited /\ peak[u] <= peak'[u]
      BY <2>10, <2>11, <3>1, <3>2 DEF Quotas
    <3>4. Owned(u)' \subseteq Owned(u) /\ Creating(u)' \subseteq Creating(u)
      BY <2>14, <3>1
    <3>5. QED
      BY <3>1, <3>2, <3>3, <3>4, RoomKept
  <2>18. QED
    BY <2>12, <2>13, <2>16, <2>17 DEF QuotaInv, RoomInv
<1>5. QED
  BY <1>3, <1>4

(* A creation passes the count only while there is room for one more site, *)
(* and no more creations are under way than there are requests.            *)
LEMMA CountByOwnerKeeps ==
    ASSUME QuotaInv, NEW r \in Requests, CountByOwner(r)
    PROVE  QuotaInv'
<1>1. UNCHANGED <<users, owner, peak>>
  BY DEF CountByOwner, tables
<1>2. CASE Answer(r)
  BY <1>1, <1>2, AnswerCalm, UntouchedCalm, CalmKeeps
<1>3. CASE ~Answer(r)
  <2>1. PICK v : v = reqs[r].caller
    OBVIOUS
  <2>2. Goto(r, "insert") /\ ~(v \in Live /\ QuotaReached(users[v].max, Cardinality(Owned(v))))
    BY <1>3, <2>1 DEF CountByOwner
  <2>3. /\ ReqTypes' /\ \A q \in Requests : reqs'[q].caller = reqs[q].caller
        /\ \A u : Creating(u)' \subseteq Creating(u) \cup (IF u = reqs[r].caller THEN {r} ELSE {})
    BY <2>2, GotoEffect
  <2>4. QuotaTypes' /\ PeakInv'
    BY <1>1, <2>3 DEF QuotaInv, QuotaTypes, UserTypes, PeakInv
  <2>5. AbsentInv'
    BY <1>1, <2>3 DEF QuotaInv, AbsentInv, Owned
  <2>6. ASSUME NEW u \in Live', u # v PROVE RoomFor(u)'
    <3>1. u \in Live /\ u \in UserIds
      BY <1>1 DEF Live
    <3>2. peak'[u] = peak[u] /\ peak[u] \in Quotas
      BY <1>1, <3>1 DEF QuotaInv, QuotaTypes, UserTypes
    <3>3. peak'[u] # Unlimited => peak[u] # Unlimited /\ peak[u] <= peak'[u]
      BY <3>2 DEF Quotas
    <3>4. Owned(u)' \subseteq Owned(u)
      BY <1>1 DEF Owned
    <3>5. Creating(u)' \subseteq Creating(u)
      BY <2>1, <2>3, <2>6
    <3>6. QED
      BY <3>1, <3>2, <3>3, <3>4, <3>5, RoomKept
  <2>7. ASSUME v \in Live' PROVE RoomFor(v)'
    <3> SUFFICES ASSUME peak'[v] # Unlimited
                 PROVE  (Cardinality(Owned(v)) + Cardinality(Creating(v)))' <= peak'[v] + Cardinality(Requests) - 1
      BY DEF RoomFor
    <3>1. v \in Live /\ v \in UserIds
      BY <1>1, <2>7 DEF Live
    <3>2. users[v].max # Unlimited /\ users[v].max <= peak[v] /\ peak'[v] = peak[v]
      BY <1>1, <3>1 DEF QuotaInv, PeakInv
    <3>3. users[v].max \in Nat /\ peak[v] \in Nat
      BY <1>1, <3>1, <3>2 DEF QuotaInv, QuotaTypes, UserTypes, Quotas
    <3>4. ~(Cardinality(Owned(v)) >= users[v].max)
      BY <2>2, <3>1, <3>2 DEF QuotaReached
    <3>5. Owned(v)' = Owned(v)
      BY <1>1 DEF Owned
    <3>6. PICK C \in SUBSET Requests : C = Creating(v)'
      BY DEF Creating
    <3>7. Cardinality(C) \in Nat /\ Cardinality(C) <= Cardinality(Requests) /\ Cardinality(Requests) \in Nat
      BY AccountsAssumption, FS_Subset, FS_CardinalityType
    <3>8. Cardinality(Owned(v)) \in Nat
      BY CountsFinite
    <3>9. Cardinality(Owned(v)) + Cardinality(C) <= peak[v] + Cardinality(Requests) - 1
      BY <3>2, <3>3, <3>4, <3>7, <3>8
    <3>10. QED
      BY <3>2, <3>5, <3>6, <3>9
  <2>8. RoomInv'
    BY <2>6, <2>7 DEF RoomInv
  <2>9. QED
    BY <2>4, <2>5, <2>8 DEF QuotaInv
<1>4. QED
  BY <1>2, <1>3

(* An insert turns a creation into a site. *)
LEMMA InsertSiteKeeps ==
    ASSUME QuotaInv, NEW r \in Requests, InsertSite(r)
    PROVE  QuotaInv'
<1>1. Answer(r) /\ UNCHANGED <<users, peak>>
  BY DEF InsertSite
<1>2. ReqsCalm /\ UsersCalm /\ \A u \in UserIds : Creating(u)' = Creating(u) \ {r}
  BY <1>1, AnswerCalm, UntouchedCalm
<1>3. DOMAIN owner = Sites
  BY DEF QuotaInv, QuotaTypes
<1>4. PICK v : v = reqs[r].caller
  OBVIOUS
<1>5. CASE OwnersCalm
  BY <1>2, <1>5, CalmKeeps
<1>6. CASE ~OwnersCalm
  <2>1. ~UNCHANGED owner
    BY <1>6, UntouchedCalm
  <2>2. /\ v \in Live \cup {Token}
        /\ \E s \in FreshSite : owner' = [owner EXCEPT ![s] = IF v = Token THEN Null ELSE v]
    BY <1>4, <2>1 DEF InsertSite
  <2>3. PICK s \in FreshSite : owner' = [owner EXCEPT ![s] = IF v = Token THEN Null ELSE v]
    BY <2>2
  <2>4. s \in Sites
    BY DEF FreshSite, Next_
  <2>5. v # Token
    <3>1. v = Token => OwnersCalm
      BY <1>3, <2>3 DEF OwnersCalm
    <3>2. QED
      BY <1>6, <3>1
  <2>6. v \in Live /\ v \in UserIds /\ users[v].state = "live"
    BY <2>2, <2>5 DEF Live
  <2>7. DOMAIN owner' = Sites /\ \A x \in Sites : owner'[x] = IF x = s THEN v ELSE owner[x]
    BY <1>3, <2>3, <2>4, <2>5
  <2>8. QuotaTypes' /\ PeakInv'
    BY <1>1, <1>2, <2>7 DEF QuotaInv, QuotaTypes, UserTypes, PeakInv, ReqsCalm
  <2>9. ASSUME NEW u \in UserIds, u # v PROVE Owned(u)' \subseteq Owned(u)
    BY <2>7, <2>9 DEF Owned
  <2>10. AbsentInv'
    <3> SUFFICES ASSUME NEW u \in UserIds, users'[u].state = "absent"
                 PROVE  Owned(u)' = {} /\ \A q \in Requests : reqs'[q].caller # u
      BY DEF AbsentInv
    <3>1. users[u].state = "absent" /\ u # v
      BY <1>1, <2>6
    <3>2. Owned(u) = {} /\ \A q \in Requests : reqs[q].caller # u
      BY <3>1 DEF QuotaInv, AbsentInv
    <3>3. QED
      BY <1>2, <2>9, <3>1, <3>2, UserIdFacts DEF ReqsCalm
  <2>11. ASSUME NEW u \in Live', u # v PROVE RoomFor(u)'
    <3>1. u \in Live /\ u \in UserIds
      BY <1>1 DEF Live
    <3>2. peak'[u] = peak[u] /\ peak[u] \in Quotas
      BY <1>1, <3>1 DEF QuotaInv, QuotaTypes, UserTypes
    <3>3. peak'[u] # Unlimited => peak[u] # Unlimited /\ peak[u] <= peak'[u]
      BY <3>2 DEF Quotas
    <3>4. Owned(u)' \subseteq Owned(u) /\ Creating(u)' \subseteq Creating(u)
      BY <1>2, <2>9, <2>11, <3>1
    <3>5. QED
      BY <3>1, <3>2, <3>3, <3>4, RoomKept
  <2>12. RoomFor(v)'
    <3> SUFFICES ASSUME peak'[v] # Unlimited
                 PROVE  (Cardinality(Owned(v)) + Cardinality(Creating(v)))' <= peak'[v] + Cardinality(Requests) - 1
      BY DEF RoomFor
    <3>1. r \in Creating(v)
      BY <1>4 DEF Creating, InsertSite, At
    <3>2. PICK C : C = Creating(v) \ {r}
      OBVIOUS
    <3>3. Cardinality(C) = Cardinality(Creating(v)) - 1 /\ C = Creating(v)'
      BY <1>2, <2>6, <3>1, <3>2, CountsFinite, FS_RemoveElement
    <3>4. PICK O \in SUBSET (Owned(v) \cup {s}) : O = Owned(v)'
      BY <2>7 DEF Owned
    <3>5. IsFiniteSet(Owned(v)) /\ Cardinality(Owned(v)) \in Nat /\ Cardinality(Creating(v)) \in Nat
          /\ Cardinality(Requests) \in Nat
      BY CountsFinite
    <3>6. /\ IsFiniteSet(Owned(v) \cup {s})
          /\ (\/ Cardinality(Owned(v) \cup {s}) = Cardinality(Owned(v))
              \/ Cardinality(Owned(v) \cup {s}) = Cardinality(Owned(v)) + 1)
      BY <3>5, FS_AddElement
    <3>7. Cardinality(O) \in Nat /\ Cardinality(O) <= Cardinality(Owned(v)) + 1
      <4>1. Cardinality(O) \in Nat /\ Cardinality(O) <= Cardinality(Owned(v) \cup {s})
        BY <3>6, FS_Subset, FS_CardinalityType
      <4>2. QED
        BY <3>5, <3>6, <4>1
    <3>8. peak[v] # Unlimited /\ peak'[v] = peak[v] /\ peak[v] \in Nat
      BY <1>1, <2>6 DEF QuotaInv, QuotaTypes, UserTypes, Quotas
    <3>9. Cardinality(Owned(v)) + Cardinality(Creating(v)) <= peak[v] + Cardinality(Requests) - 1
      BY <2>6, <3>8 DEF QuotaInv, RoomInv, RoomFor
    <3>10. Cardinality(O) + Cardinality(C) <= peak[v] + Cardinality(Requests) - 1
      BY <3>3, <3>5, <3>7, <3>8, <3>9
    <3>11. QED
      BY <3>3, <3>4, <3>8, <3>10
  <2>13. RoomInv'
    BY <2>11, <2>12 DEF RoomInv
  <2>14. QED
    BY <2>8, <2>10, <2>13 DEF QuotaInv
<1>7. QED
  BY <1>5, <1>6

\* A write that concerns neither state nor quota of a user.
LEMMA UserWriteCalm ==
    ASSUME QuotaInv, peak' = peak, NEW v, NEW row,
           v \in UserIds => DOMAIN row = UserFields /\ row.max = users[v].max
                            /\ (row.state = "live" => users[v].state = "live")
                            /\ (row.state = "absent" => users[v].state = "absent"),
           users' = [users EXCEPT ![v] = row]
    PROVE  UsersCalm
<1>1. DOMAIN users = UserIds /\ \A u \in UserIds : DOMAIN users[u] = UserFields
  BY DEF QuotaInv, QuotaTypes, UserTypes
<1>2. DOMAIN users' = UserIds /\ \A u \in UserIds : users'[u] = IF u = v THEN row ELSE users[u]
  BY <1>1
<1>3. QED
  BY <1>1, <1>2 DEF UsersCalm

(* Every statement of a handler keeps the invariant. *)
LEMMA QuotaHandlers ==
    ASSUME QuotaInv, NEW r \in Requests, Step(r)
    PROVE  QuotaInv'
<1>t. DOMAIN users = UserIds /\ \A u \in UserIds : DOMAIN users[u] = UserFields
  BY DEF QuotaInv, QuotaTypes, UserTypes
<1>c. ASSUME ReqsCalm, UNCHANGED <<users, owner, peak>> PROVE QuotaInv'
  BY <1>c, UntouchedCalm, CalmKeeps
<1>1. CASE CreateUser(r)
  BY <1>1, CreateUserKeeps
<1>2. CASE CheckDelete(r)
  <2>1. (Answer(r) \/ (Goto(r, "created_by") /\ reqs[r].op # "site")) /\ UNCHANGED <<users, owner, peak>>
    BY <1>2 DEF CheckDelete, At
  <2>2. QED
    BY <1>c, <2>1, AnswerCalm, GotoEffect
<1>3. CASE NullifyCreatedBy(r)
  <2>1. Goto(r, "owner_id") /\ reqs[r].op # "site" /\ UNCHANGED <<owner, peak>>
    BY <1>3 DEF NullifyCreatedBy, At
  <2>2. ASSUME NEW u \in UserIds
        PROVE  DOMAIN users'[u] = UserFields /\ users'[u].max = users[u].max /\ users'[u].state = users[u].state
    <3>1. PICK row : row = [users[u] EXCEPT !.by = Null]
      OBVIOUS
    <3>2. DOMAIN row = UserFields /\ row.max = users[u].max /\ row.state = users[u].state
      BY <1>t, <3>1 DEF UserFields
    <3>3. users'[u] = row \/ users'[u] = users[u]
      BY <1>3, <3>1 DEF NullifyCreatedBy
    <3>4. QED
      BY <1>t, <3>2, <3>3
  <2>3. DOMAIN users' = UserIds
    BY <1>3 DEF NullifyCreatedBy
  <2>4. UsersCalm
    BY <2>1, <2>2, <2>3 DEF UsersCalm
  <2>5. QED
    BY <2>1, <2>4, GotoEffect, UntouchedCalm, CalmKeeps
<1>4. CASE NullifyOwner(r)
  <2>1. Goto(r, "audit_logs") /\ reqs[r].op # "site" /\ UNCHANGED <<users, peak>>
    BY <1>4 DEF NullifyOwner, At
  <2>2. OwnersCalm
    BY <1>4 DEF NullifyOwner, OwnersCalm
  <2>3. QED
    BY <2>1, <2>2, GotoEffect, UntouchedCalm, CalmKeeps
<1>5. CASE NullifyUser(r)
  <2>1. Goto(r, "delete") /\ reqs[r].op # "site" /\ UNCHANGED <<users, owner, peak>>
    BY <1>5 DEF NullifyUser, At
  <2>2. QED
    BY <1>c, <2>1, GotoEffect
<1>6. CASE DeleteUser(r)
  <2>1. Answer(r) /\ UNCHANGED <<owner, peak>>
    BY <1>6 DEF DeleteUser
  <2>2. PICK v : v = reqs[r].target
    OBVIOUS
  <2>3. users' = users \/ users' = [users EXCEPT ![v].state = "gone"]
    BY <1>6, <2>2 DEF DeleteUser
  <2>4. CASE users' = users
    BY <1>c, <2>1, <2>4, AnswerCalm
  <2>5. CASE users' = [users EXCEPT ![v].state = "gone"]
    <3>1. PICK row : row = [users[v] EXCEPT !.state = "gone"]
      OBVIOUS
    <3>2. v \in UserIds => DOMAIN row = UserFields /\ row.max = users[v].max /\ row.state = "gone"
      BY <1>t, <3>1 DEF UserFields
    <3>3. users' = [users EXCEPT ![v] = row]
      BY <2>5, <3>1
    <3>4. UsersCalm
      BY <2>1, <3>2, <3>3, UserWriteCalm
    <3>5. QED
      BY <2>1, <3>4, AnswerCalm, UntouchedCalm, CalmKeeps
  <2>6. QED
    BY <2>3, <2>4, <2>5
<1>7. CASE CheckUpdate(r)
  <2>1. (Answer(r) \/ (Goto(r, "role") /\ reqs[r].op # "site")) /\ UNCHANGED <<users, owner, peak>>
    BY <1>7 DEF CheckUpdate, At, tables
  <2>2. QED
    BY <1>c, <2>1, AnswerCalm, GotoEffect
<1>8. CASE UpdateRole(r)
  <2>1. Goto(r, "max_sites") /\ reqs[r].op # "site" /\ UNCHANGED <<owner, peak>>
    BY <1>8 DEF UpdateRole, At
  <2>2. PICK v, word : v = reqs[r].target /\ word = reqs[r].word
    OBVIOUS
  <2>3. users' = users \/ users' = [users EXCEPT ![v].role = word]
    BY <1>8, <2>2 DEF UpdateRole
  <2>4. CASE users' = users
    BY <1>c, <2>1, <2>4, GotoEffect
  <2>5. CASE users' = [users EXCEPT ![v].role = word]
    <3>1. PICK row : row = [users[v] EXCEPT !.role = word]
      OBVIOUS
    <3>2. v \in UserIds => DOMAIN row = UserFields /\ row.max = users[v].max /\ row.state = users[v].state
      BY <1>t, <3>1 DEF UserFields
    <3>3. users' = [users EXCEPT ![v] = row]
      BY <2>5, <3>1
    <3>4. UsersCalm
      BY <2>1, <3>2, <3>3, UserWriteCalm
    <3>5. QED
      BY <2>1, <3>4, GotoEffect, UntouchedCalm, CalmKeeps
  <2>6. QED
    BY <2>3, <2>4, <2>5
<1>9. CASE UpdateMaxSites(r)
  BY <1>9, UpdateMaxSitesKeeps
<1>10. CASE ReadTarget(r)
  <2>1. (Answer(r) \/ (Goto(r, "insert") /\ reqs[r].op # "site")) /\ UNCHANGED <<users, owner, peak>>
    BY <1>10 DEF ReadTarget, At, tables
  <2>2. QED
    BY <1>c, <2>1, AnswerCalm, GotoEffect
<1>11. CASE CountByOwner(r)
  BY <1>11, CountByOwnerKeeps
<1>12. CASE InsertSite(r)
  BY <1>12, InsertSiteKeeps
<1>13. CASE \/ Impersonate(r) \/ CreateToken(r) \/ RevokeToken(r)
            \/ \E s \in Sites : Assign(r, s) \/ Unassign(r, s) \/ UpdatePermission(r, s)
            \/ CreatePlan(r) \/ UpdatePlan(r) \/ DeletePlan(r) \/ CreateOrder(r) \/ UpdateStatus(r)
  <2>1. Answer(r) /\ UNCHANGED <<users, owner, peak>>
    BY <1>13 DEF Impersonate, CreateToken, RevokeToken, Assign, Unassign, UpdatePermission, ChangeGrant,
                 CreatePlan, UpdatePlan, DeletePlan, CreateOrder, UpdateStatus
  <2>2. QED
    BY <1>c, <2>1, AnswerCalm
<1>14. CASE ReadOrder(r)
  <2>1. (Answer(r) \/ (Goto(r, "write") /\ reqs[r].op # "site")) /\ UNCHANGED <<users, owner, peak>>
    BY <1>14 DEF ReadOrder, At, tables
  <2>2. QED
    BY <1>c, <2>1, AnswerCalm, GotoEffect
<1>15. ASSUME NEW op \in {"plan", "order"}, ReadPlan(r, op) PROVE QuotaInv'
  <2>1. reqs[r].op # "site" /\ UNCHANGED <<users, owner, peak>>
    BY <1>15 DEF ReadPlan, At, tables
  <2>2. CASE Answer(r)
    BY <1>c, <2>1, <2>2, AnswerCalm
  <2>3. CASE ~Answer(r)
    <3>1. PICK plan : plan = plans[reqs[r].target]
      OBVIOUS
    <3>2. PICK row : row = [reqs[r] EXCEPT !.pc = "write", !.plan = plan]
      OBVIOUS
    <3>3. DOMAIN reqs = Requests /\ \A q \in Requests : DOMAIN reqs[q] = ReqFields /\ reqs[q].num \in Quotas
      BY DEF QuotaInv, QuotaTypes, ReqTypes
    <3>4. DOMAIN row = ReqFields /\ row.num = reqs[r].num /\ row.caller = reqs[r].caller /\ row.op = reqs[r].op
      BY <3>2, <3>3 DEF ReqFields
    <3>5. reqs' = [reqs EXCEPT ![r] = row]
      BY <1>15, <2>3, <3>1, <3>2, <3>3 DEF ReadPlan
    <3>6. DOMAIN reqs' = Requests /\ \A q \in Requests : reqs'[q] = IF q = r THEN row ELSE reqs[q]
      BY <3>3, <3>5
    <3>7. ReqTypes' /\ \A q \in Requests : reqs'[q].caller = reqs[q].caller
      BY <3>3, <3>4, <3>6 DEF ReqTypes
    <3>8. \A u : Creating(u)' \subseteq Creating(u)
      BY <2>1, <3>4, <3>6 DEF Creating
    <3>9. ReqsCalm
      BY <3>7, <3>8 DEF ReqsCalm
    <3>10. QED
      BY <1>c, <2>1, <3>9
  <2>4. QED
    BY <2>2, <2>3
<1>16. ASSUME NEW p, AssignPlan(r, p) PROVE QuotaInv'
  <2>1. Answer(r) /\ UNCHANGED <<owner, peak>>
    BY <1>16 DEF AssignPlan
  <2>2. PICK v : v = reqs[r].target
    OBVIOUS
  <2>3. users' = users \/ users' = [users EXCEPT ![v].plan = p]
    BY <1>16, <2>2 DEF AssignPlan
  <2>4. CASE users' = users
    BY <1>c, <2>1, <2>4, AnswerCalm
  <2>5. CASE users' = [users EXCEPT ![v].plan = p]
    <3>1. PICK row : row = [users[v] EXCEPT !.plan = p]
      OBVIOUS
    <3>2. v \in UserIds => DOMAIN row = UserFields /\ row.max = users[v].max /\ row.state = users[v].state
      BY <1>t, <3>1 DEF UserFields
    <3>3. users' = [users EXCEPT ![v] = row]
      BY <2>5, <3>1
    <3>4. UsersCalm
      BY <2>1, <3>2, <3>3, UserWriteCalm
    <3>5. QED
      BY <2>1, <3>4, AnswerCalm, UntouchedCalm, CalmKeeps
  <2>6. QED
    BY <2>3, <2>4, <2>5
<1>17. QED
  BY <1>1, <1>2, <1>3, <1>4, <1>5, <1>6, <1>7, <1>8, <1>9, <1>10, <1>11, <1>12, <1>13, <1>14, <1>15, <1>16
  DEF Step

(* Every step keeps the invariant. *)
LEMMA QuotaStep == QuotaInv /\ [Next]_vars => QuotaInv'
<1> SUFFICES ASSUME QuotaInv, [Next]_vars PROVE QuotaInv'
  OBVIOUS
<1>1. ASSUME NEW r \in Requests, NEW op, NEW u \in UserIds, RequireRole(r, op, u) PROVE QuotaInv'
  <2>1. PICK role : Arrive(r, op, u, role) /\ u \in Live
    BY <1>1 DEF RequireRole
  <2>2. QED
    BY <2>1, ArriveKeeps
<1>2. ASSUME NEW r \in Requests, NEW op, NEW t \in Tokens, RequireScope(r, op, t) PROVE QuotaInv'
  <2>1. PICK role : Arrive(r, op, Token, role)
    BY <1>2 DEF RequireScope
  <2>2. QED
    BY <2>1, ArriveKeeps
<1>3. ASSUME NEW r \in Requests, Step(r) PROVE QuotaInv'
  BY <1>3, QuotaHandlers
<1>4. ASSUME NEW t \in Tokens, ExpireToken(t) PROVE QuotaInv'
  <2>1. UNCHANGED <<users, owner, peak, reqs>>
    BY <1>4 DEF ExpireToken
  <2>2. QED
    BY <2>1, UntouchedCalm, CalmKeeps
<1>5. CASE Restart
  <2>1. UNCHANGED <<users, owner, peak>> /\ DOMAIN reqs' = Requests /\ \A r \in Requests : reqs'[r] = Idle
    BY <1>5 DEF Restart, tables
  <2>2. ReqTypes' /\ \A r \in Requests : reqs'[r].caller = Null
    BY <2>1, AccountPlaceholders DEF ReqTypes
  <2>3. \A u : Creating(u)' \subseteq Creating(u)
    BY <2>1, AccountPlaceholders DEF Creating
  <2>4. ReqsCalm
    BY <2>2, <2>3 DEF ReqsCalm
  <2>5. QED
    BY <2>1, <2>4, UntouchedCalm, CalmKeeps
<1>6. CASE UNCHANGED vars
  <2>1. UNCHANGED <<users, owner, peak, reqs>>
    BY <1>6 DEF vars, tables
  <2>2. QED
    BY <2>1, UntouchedCalm, CalmKeeps
<1>7. QED
  BY <1>1, <1>2, <1>3, <1>4, <1>5, <1>6 DEF Next

(* CountByOwner and the insert are two statements: creations that overlap  *)
(* exceed the highest quota a user ever had, but by less than the number   *)
(* of requests that can be under way, whatever quotas, plans, owners and   *)
(* users change meanwhile.                                                 *)
THEOREM QuotaBoundHolds == Spec => []QuotaBound
<1>1. QuotaInv => QuotaBound
  <2> SUFFICES ASSUME QuotaInv, NEW u \in Live, peak[u] # Unlimited
               PROVE  Cardinality(Owned(u)) <= peak[u] + Cardinality(Requests) - 1
    BY DEF QuotaBound
  <2>1. u \in UserIds
    BY DEF Live
  <2>2. peak[u] \in Nat
    BY <2>1 DEF QuotaInv, QuotaTypes, UserTypes, Quotas
  <2>3. Cardinality(Owned(u)) + Cardinality(Creating(u)) <= peak[u] + Cardinality(Requests) - 1
    BY DEF QuotaInv, RoomInv, RoomFor
  <2>4. QED
    BY <2>2, <2>3, CountsFinite
<1>2. QED
  BY <1>1, QuotaInitial, QuotaStep, PTL DEF Spec
=============================================================================
