----------------------------- MODULE Transfers ------------------------------
(***************************************************************************)
(* The transfer of a site to another owner: one transaction changes the    *)
(* row and the permissions, then a goroutine moves the files from the old  *)
(* owner's home to the new one's, by renaming or else by copying and       *)
(* removing, while the request has long been answered.  Requests, moves    *)
(* and the agent's site.create, which puts a starter page where the row    *)
(* says the files are, interleave.                                         *)
(***************************************************************************)
EXTENDS Naturals, FiniteSets

CONSTANTS
    Owners,         \* users, each with a home
    SuperAdmins,
    MadeBy,         \* users.created_by
    Movers,         \* slots for requests and their moves
    TransferLoads   \* bound: how often each operation and fault occurs

ASSUME TransfersAssumption == SuperAdmins \subseteq Owners /\ MadeBy \in [Owners -> Owners]

VARIABLES
    siteOwner,      \* the row's owner_id; root_path is below the owner's home
    perms,          \* user_sites of this site
    home,           \* what is at the site's path below each home: "none", "site", "stub"
                    \* (the starter page), "part" (what a failed copy left) or "nested" (the
                    \* site in a subdirectory, because cp -a found its target there already)
    movers,
    transferLoad,
    lone,           \* history: no two moves overlapped
    smooth          \* history: no move failed, was cut short or found its target there already

transferVars == <<siteOwner, perms, home, movers, transferLoad, lone, smooth>>

Still == [pc |-> "none", caller |-> CHOOSE u \in Owners : TRUE, from |-> CHOOSE u \in Owners : TRUE,
          to |-> CHOOSE u \in Owners : TRUE, fresh |-> FALSE]

TransfersInit ==
    /\ siteOwner \in Owners
    /\ perms = [u \in Owners |-> "none"]
    /\ home = [u \in Owners |-> IF u = siteOwner THEN "site" ELSE "none"]
    /\ movers = [m \in Movers |-> Still]
    /\ transferLoad \in TransferLoads
    /\ lone = TRUE /\ smooth = TRUE

SpendTransfer(op) ==
    /\ op \in DOMAIN transferLoad /\ transferLoad[op] > 0
    /\ transferLoad' = [transferLoad EXCEPT ![op] = @ - 1]

IsAt(m, pc) == movers[m].pc = pc
Continue(m, pc) == movers' = [movers EXCEPT ![m].pc = pc]
End(m) == movers' = [movers EXCEPT ![m] = Still]
Moving == {m \in Movers : movers[m].pc \notin {"none", "transfer"}}

-----------------------------------------------------------------------------
\* Only the owner's own administrator, the owner or a super administrator; the
\* owner is the one the handler read.
MayTransfer(u) == u \in SuperAdmins \/ u = siteOwner \/ u = MadeBy[siteOwner]

transfer(m, u, target) ==
    /\ movers[m] = Still /\ SpendTransfer("transfer")
    /\ MayTransfer(u) /\ u # target
    /\ movers' = [movers EXCEPT ![m] = [Still EXCEPT !.pc = "transfer", !.caller = u, !.to = target]]
    /\ UNCHANGED <<siteOwner, perms, home, lone, smooth>>

\* SQLiteSiteStore.Transfer reads the row once more; the assignment that it
\* deletes is the new owner's, so the old owner keeps one it has.
Transfer(m) ==
    /\ IsAt(m, "transfer")
    /\ siteOwner' = movers[m].to
    /\ perms' = [perms EXCEPT ![movers[m].to] = "admin"]
    /\ IF siteOwner = movers[m].to THEN End(m) /\ UNCHANGED lone
       ELSE /\ movers' = [movers EXCEPT ![m].pc = "rename", ![m].from = siteOwner]
            /\ lone' = (lone /\ Moving = {})
    /\ UNCHANGED <<home, smooth, transferLoad>>

TransferFails(m) ==
    /\ IsAt(m, "transfer") /\ SpendTransfer("database") /\ End(m)
    /\ UNCHANGED <<siteOwner, perms, home, lone, smooth>>

-----------------------------------------------------------------------------
(* moveSiteFiles *)

Blocked(m) == home[movers[m].from] = "none" \/ home[movers[m].to] # "none"

Rename(m) ==
    /\ IsAt(m, "rename") /\ ~Blocked(m)
    /\ home' = [home EXCEPT ![movers[m].to] = home[movers[m].from], ![movers[m].from] = "none"]
    /\ End(m) /\ UNCHANGED <<siteOwner, perms, transferLoad, lone, smooth>>

\* The homes may be on different file systems.
RenameFails(m) ==
    /\ IsAt(m, "rename") /\ Continue(m, "copy")
    /\ IF Blocked(m) THEN UNCHANGED transferLoad ELSE SpendTransfer("device")
    /\ UNCHANGED <<siteOwner, perms, home, lone, smooth>>

StartCopy(m) ==
    /\ IsAt(m, "copy")
    /\ LET from == movers[m].from  to == movers[m].to IN
       IF home[from] = "none" THEN End(m) /\ smooth' = FALSE /\ UNCHANGED home
       ELSE /\ movers' = [movers EXCEPT ![m].pc = "copying", ![m].fresh = (home[to] = "none")]
            /\ home' = [home EXCEPT ![to] = IF @ = "none" THEN "part" ELSE @]
            /\ smooth' = (smooth /\ home[to] = "none")
    /\ UNCHANGED <<siteOwner, perms, lone, transferLoad>>

\* What the copy holds is what its source holds at its end.
Merged(target, source) ==
    CASE target = "site" -> "site"
      [] target # "site" /\ source \in {"site", "nested"} -> "nested"
      [] OTHER -> target

CopyDone(m) ==
    /\ IsAt(m, "copying") /\ home[movers[m].from] # "none"
    /\ home' = [home EXCEPT ![movers[m].to] = IF movers[m].fresh THEN home[movers[m].from]
                                                       ELSE Merged(@, home[movers[m].from])]
    /\ Continue(m, "remove")
    /\ UNCHANGED <<siteOwner, perms, lone, smooth, transferLoad>>

\* Mutant: the source goes whatever became of the copy.
CopyFailsRemoves(m) ==
    /\ IsAt(m, "copying") /\ smooth' = FALSE
    /\ IF home[movers[m].from] = "none" THEN UNCHANGED transferLoad ELSE SpendTransfer("copy")
    /\ Continue(m, "remove") /\ UNCHANGED <<siteOwner, perms, home, lone>>

CopyFails(m) ==
    /\ IsAt(m, "copying") /\ smooth' = FALSE
    /\ IF home[movers[m].from] = "none" THEN UNCHANGED transferLoad ELSE SpendTransfer("copy")
    /\ End(m) /\ UNCHANGED <<siteOwner, perms, home, lone>>

\* os.RemoveAll, then chown
RemoveAll(m) ==
    /\ IsAt(m, "remove") /\ home' = [home EXCEPT ![movers[m].from] = "none"] /\ End(m)
    /\ UNCHANGED <<siteOwner, perms, lone, smooth, transferLoad>>

-----------------------------------------------------------------------------
\* site.create of the agent: a directory and a starter page, unless there is one.
StarterPage ==
    /\ SpendTransfer("deploy") /\ home[siteOwner] = "none"
    /\ home' = [home EXCEPT ![siteOwner] = "stub"]
    /\ UNCHANGED <<siteOwner, perms, movers, lone, smooth>>

TransfersCrash ==
    /\ SpendTransfer("crash") /\ \E m \in Movers : movers[m] # Still
    /\ movers' = [m \in Movers |-> Still]
    /\ smooth' = (smooth /\ Moving = {})
    /\ UNCHANGED <<siteOwner, perms, home, lone>>

TransfersNext ==
    \/ \E m \in Movers :
          \/ \E u, t \in Owners : transfer(m, u, t)
          \/ Transfer(m) \/ TransferFails(m)
          \/ Rename(m) \/ RenameFails(m) \/ StartCopy(m) \/ CopyDone(m) \/ CopyFails(m) \/ RemoveAll(m)
    \/ StarterPage \/ TransfersCrash

TransfersSpec == TransfersInit /\ [][TransfersNext]_transferVars

-----------------------------------------------------------------------------
AtRoot == home[siteOwner] = "site"

\* Transfers whose moves do not overlap never lose the site's files, through
\* failed copies, crashes and starter pages; and unless a move failed, was cut
\* short or found something in its way, the files end up where the row says.
FilesFollowOwner ==
    lone => /\ \E u \in Owners : home[u] \in {"site", "nested"}
            /\ smooth /\ Moving = {} => AtRoot

=============================================================================
