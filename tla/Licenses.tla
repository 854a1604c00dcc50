------------------------------ MODULE Licenses ------------------------------
(***************************************************************************)
(* The licenses table: activateLicense and deactivateLicense of            *)
(* internal/apihttp/licenses.go over internal/store/licenses.go.  An       *)
(* activation is up to four SQL statements without a transaction, so two   *)
(* activations interleave and a crash may stop one half way.  The instants *)
(* of datetime('now') have a resolution of one second and are left out:    *)
(* only whether activated_at is NULL matters below.                        *)
(***************************************************************************)
EXTENDS Naturals, FiniteSets

CONSTANTS
    Keys,            \* license keys
    LicenseRequests, \* requests under way at the same time
    MaxLicenseCalls  \* bound: requests that arrive

VARIABLES
    licenses,  \* for each key "none", "inactive" (activated_at NULL) or "active"
    calls,     \* the requests under way: statement and key
    arrived,   \* how many requests have arrived
    lone       \* history: the key whose activation ended last, met no other request,
               \* and was followed by none; NoKey otherwise

licenseVars == <<licenses, calls, arrived, lone>>

NoKey == "no key"
NoCall == [pc |-> "idle", key |-> NoKey, met |-> FALSE]
Busy == {r \in LicenseRequests : calls[r] # NoCall}
Active == {k \in Keys : licenses[k] = "active"}
\* UPDATE licenses SET activated_at = NULL, for all rows but those of keep
Deactivated(keep) == [k \in Keys |-> IF k \in Active \ keep THEN "inactive" ELSE licenses[k]]

LicenseInit ==
    /\ licenses \in [Keys -> {"none", "inactive"}]
    /\ calls = [r \in LicenseRequests |-> NoCall]
    /\ arrived = 0
    /\ lone = NoKey

Continue(r, pc) == calls' = [calls EXCEPT ![r].pc = pc] /\ UNCHANGED <<arrived, lone>>
Finish(r, key) ==
    /\ calls' = [calls EXCEPT ![r] = NoCall]
    /\ lone' = IF calls[r].met THEN NoKey ELSE key
    /\ UNCHANGED arrived

\* The handler's own Deactivate comes first, or is all there is to do.
ReceiveLicenseCall(r, pc, key) ==
    /\ calls[r] = NoCall /\ arrived < MaxLicenseCalls
    /\ arrived' = arrived + 1
    /\ calls' = [q \in LicenseRequests |->
                    IF q = r THEN [pc |-> pc, key |-> key, met |-> Busy # {}]
                    ELSE IF q \in Busy THEN [calls[q] EXCEPT !.met = TRUE] ELSE calls[q]]
    /\ lone' = NoKey
    /\ UNCHANGED licenses

Deactivate(r) ==
    /\ licenses' = Deactivated({})
    /\ \/ calls[r].pc = "activate" /\ Continue(r, "update")
       \/ calls[r].pc = "deactivate" /\ Finish(r, NoKey)

\* Mutant: a known key gets its tier but not its activation.
UpdateKeyTierOnly(r) ==
    LET k == calls[r].key
    IN  /\ calls[r].pc = "update"
        /\ IF licenses[k] # "none" THEN Continue(r, "others") ELSE Continue(r, "existing")
        /\ UNCHANGED licenses

\* "Try update first"
UpdateKey(r) ==
    LET k == calls[r].key
    IN  /\ calls[r].pc = "update"
        /\ IF licenses[k] # "none"
           THEN licenses' = [licenses EXCEPT ![k] = "active"] /\ Continue(r, "others")
           ELSE Continue(r, "existing") /\ UNCHANGED licenses

DeactivateOthers(r) ==
    /\ calls[r].pc = "others"
    /\ licenses' = Deactivated({calls[r].key})
    /\ Finish(r, calls[r].key)

DeactivateExisting(r) ==
    /\ calls[r].pc = "existing"
    /\ licenses' = Deactivated({})
    /\ Continue(r, "insert")

\* The key is unique: the insert fails when another request was faster.
InsertKey(r) ==
    LET k == calls[r].key
    IN  /\ calls[r].pc = "insert"
        /\ \/ licenses[k] = "none" /\ licenses' = [licenses EXCEPT ![k] = "active"] /\ Finish(r, k)
           \/ licenses[k] # "none" /\ UNCHANGED licenses /\ Finish(r, NoKey)

\* The backend stops between two statements.
LicenseCrash ==
    /\ Busy # {}
    /\ calls' = [r \in LicenseRequests |-> NoCall]
    /\ UNCHANGED <<licenses, arrived, lone>>

LicenseNext ==
    \/ \E r \in LicenseRequests :
          \/ \E k \in Keys : ReceiveLicenseCall(r, "activate", k)
          \/ ReceiveLicenseCall(r, "deactivate", NoKey)
          \/ Deactivate(r) \/ UpdateKey(r) \/ DeactivateOthers(r)
          \/ DeactivateExisting(r) \/ InsertKey(r)
    \/ LicenseCrash

LicenseSpec == LicenseInit /\ [][LicenseNext]_licenseVars

-----------------------------------------------------------------------------
(* Whatever overlapping activations and crashes have left in the table, an *)
(* activation that is answered and met no other request leaves its key the *)
(* only active one.                                                        *)
LoneActivationWins == lone # NoKey => Active = {lone}

=============================================================================
