------------------------------ MODULE SshUsers ------------------------------
(***************************************************************************)
(* SSH/FTP users of sites: a request provisions a Linux user with a jail   *)
(* (bind mounts and their /etc/fstab lines, read and written back once per *)
(* directory), inserts the row, and rebuilds sshd's Match file from the    *)
(* rows; a deletion undoes it in the order fstab, mounts, user, row, Match *)
(* file.  userdel -r removes the home with whatever is still mounted in it.*)
(***************************************************************************)
EXTENDS Naturals, Sequences

CONSTANTS
    Names,      \* user names
    Dirs,       \* sequence: directories mounted into the jail, the site's root ("site") last
    Extends,    \* pairs of names, the second starting with the first
    SshRequests,
    MaxRows,    \* bound on the rows ever inserted
    SshLoads    \* bound: how often each operation and fault occurs

NoRow == "none"

ASSUME SshAssumption ==
    /\ Names # {} /\ NoRow \notin Names
    /\ Dirs \in Seq(STRING) /\ Dirs # <<>>
    /\ \A i \in DOMAIN Dirs : Dirs[i] = "site" <=> i = Len(Dirs)

VARIABLES
    passwd,     \* Linux users
    mounts,     \* how often a directory is mounted into a jail, by name and directory
    fstab,      \* how often each <<name, directory>> line is listed; no reader minds the order
    rows,       \* site_ssh_ftp: row id -> name
    lastRow,
    matchFile, sshd, \* users jailed by the Match file, and by the running sshd
    sshReq, sshLoad,
    siteFiles,  \* the site's own files exist
    sshAlone    \* history: no two requests overlapped

sshVars == <<passwd, mounts, fstab, rows, lastRow, matchFile, sshd, sshReq, sshLoad, siteFiles, sshAlone>>
linux == <<passwd, mounts, fstab, siteFiles>>
sshDb == <<rows, lastRow>>

DirSet == {Dirs[i] : i \in DOMAIN Dirs}
Lines == Names \X DirSet
NoLines == [l \in Lines |-> 0]
NoOne == [pc |-> "idle", op |-> "none", name |-> CHOOSE n \in Names : TRUE, row |-> 0, at |-> 0,
          lines |-> NoLines, list |-> {}]

SshInit ==
    /\ passwd = {} /\ fstab = NoLines /\ siteFiles = TRUE
    /\ mounts = [n \in Names |-> [d \in DirSet |-> 0]]
    /\ rows = [i \in 1..MaxRows |-> NoRow] /\ lastRow = 0
    /\ matchFile = {} /\ sshd = {}
    /\ sshReq = [r \in SshRequests |-> NoOne] /\ sshAlone = TRUE
    /\ sshLoad \in SshLoads

SpendSsh(op) ==
    /\ op \in DOMAIN sshLoad /\ sshLoad[op] > 0
    /\ sshLoad' = [sshLoad EXCEPT ![op] = @ - 1]

Rows == {i \in DOMAIN rows : rows[i] # NoRow}
Serving(r, pc) == sshReq[r].pc = pc
Step(r, pc) == sshReq' = [sshReq EXCEPT ![r].pc = pc]
Done(r) == sshReq' = [sshReq EXCEPT ![r] = NoOne]
Begin(r, new) ==
    /\ sshReq[r] = NoOne /\ sshReq' = [sshReq EXCEPT ![r] = new]
    /\ sshAlone' = (sshAlone /\ \A q \in SshRequests : sshReq[q] = NoOne)
Dir(r) == Dirs[sshReq[r].at]

-----------------------------------------------------------------------------
(* createSshFtp: provisionSSHUser, then the row *)

\* The check that the name is free is id -u; useradd makes it again.
createSshFtp(r, n) ==
    /\ SpendSsh("create")
    /\ n \notin passwd
    /\ Begin(r, [NoOne EXCEPT !.op = "create", !.pc = "useradd", !.name = n])
    /\ UNCHANGED <<linux, sshDb, matchFile, sshd>>

Useradd(r) ==
    /\ Serving(r, "useradd")
    /\ IF sshReq[r].name \in passwd THEN Done(r) /\ UNCHANGED passwd
       ELSE /\ passwd' = passwd \cup {sshReq[r].name}
            /\ sshReq' = [sshReq EXCEPT ![r].pc = "mount", ![r].at = 1]
    /\ UNCHANGED <<mounts, fstab, siteFiles, sshDb, matchFile, sshd, sshLoad, sshAlone>>

\* Before the site's root comes the mkdir whose failure ends the request, with
\* the user left behind.
Mkdir(r) ==
    /\ Serving(r, "mount") /\ sshReq[r].at = Len(Dirs) /\ SpendSsh("mkdir")
    /\ Done(r) /\ UNCHANGED <<linux, sshDb, matchFile, sshd, sshAlone>>

\* mount --bind, and readFstab
Mount(r) ==
    /\ Serving(r, "mount")
    /\ mounts' = [mounts EXCEPT ![sshReq[r].name][Dir(r)] = @ + 1]
    /\ sshReq' = [sshReq EXCEPT ![r].pc = "fstab", ![r].lines = fstab]
    /\ UNCHANGED <<passwd, fstab, siteFiles, sshDb, matchFile, sshd, sshLoad, sshAlone>>

writeFstab(r) ==
    /\ Serving(r, "fstab")
    /\ fstab' = [sshReq[r].lines EXCEPT ![<<sshReq[r].name, Dir(r)>>] = @ + 1]
    /\ sshReq' = [sshReq EXCEPT ![r].lines = NoLines,
                                ![r].pc = IF sshReq[r].at = Len(Dirs) THEN "insert" ELSE "mount",
                                ![r].at = IF @ = Len(Dirs) THEN 0 ELSE @ + 1]
    /\ UNCHANGED <<passwd, mounts, siteFiles, sshDb, matchFile, sshd, sshLoad, sshAlone>>

\* A failed insertion is followed by the user's removal.
InsertRow(r) ==
    /\ Serving(r, "insert")
    /\ \/ /\ lastRow < MaxRows
          /\ rows' = [rows EXCEPT ![lastRow + 1] = sshReq[r].name] /\ lastRow' = lastRow + 1
          /\ Step(r, "list") /\ UNCHANGED sshLoad
       \/ SpendSsh("insert") /\ Step(r, "deprovision") /\ UNCHANGED sshDb
    /\ UNCHANGED <<linux, matchFile, sshd, sshAlone>>

-----------------------------------------------------------------------------
(* deleteSshFtp *)

deleteSshFtp(r, i) ==
    /\ SpendSsh("delete")
    /\ Begin(r, [NoOne EXCEPT !.op = "delete", !.pc = "deprovision", !.name = rows[i], !.row = i])
    /\ UNCHANGED <<linux, sshDb, matchFile, sshd>>

\* The marker of a name is found in the line of a name it begins.
Filtered(lines, n) == [l \in Lines |-> IF l[1] = n \/ <<n, l[1]>> \in Extends THEN 0 ELSE lines[l]]

ReadLines(r) ==
    /\ Serving(r, "deprovision")
    /\ sshReq' = [sshReq EXCEPT ![r].pc = "unfstab", ![r].lines = fstab]
    /\ UNCHANGED <<linux, sshDb, matchFile, sshd, sshLoad, sshAlone>>

RemoveLines(r) ==
    /\ Serving(r, "unfstab")
    /\ fstab' = Filtered(sshReq[r].lines, sshReq[r].name)
    /\ sshReq' = [sshReq EXCEPT ![r].pc = "umount", ![r].lines = NoLines]
    /\ UNCHANGED <<passwd, mounts, siteFiles, sshDb, matchFile, sshd, sshLoad, sshAlone>>

\* Mutant: the loop over the directories ends after the first.
UmountFirst(r) ==
    /\ Serving(r, "umount")
    /\ mounts' = [mounts EXCEPT ![sshReq[r].name][Dirs[1]] = IF @ = 0 THEN 0 ELSE @ - 1]
    /\ Step(r, "userdel")
    /\ UNCHANGED <<passwd, fstab, siteFiles, sshDb, matchFile, sshd, sshLoad, sshAlone>>

\* Once per directory.
Umount(r) ==
    /\ Serving(r, "umount")
    /\ mounts' = [mounts EXCEPT ![sshReq[r].name] = [d \in DirSet |-> IF @[d] = 0 THEN 0 ELSE @[d] - 1]]
    /\ Step(r, "userdel")
    /\ UNCHANGED <<passwd, fstab, siteFiles, sshDb, matchFile, sshd, sshLoad, sshAlone>>

Userdel(r) ==
    /\ Serving(r, "userdel")
    /\ passwd' = passwd \ {sshReq[r].name}
    /\ siteFiles' = (siteFiles /\ (sshReq[r].name \in passwd => mounts[sshReq[r].name]["site"] = 0))
    /\ IF sshReq[r].op = "create" THEN Done(r) ELSE Step(r, "row")
    /\ UNCHANGED <<mounts, fstab, sshDb, matchFile, sshd, sshLoad, sshAlone>>

\* A failure answers 500, the user being gone already.
DeleteRow(r) ==
    /\ Serving(r, "row")
    /\ \/ rows' = [rows EXCEPT ![sshReq[r].row] = NoRow] /\ Step(r, "list") /\ UNCHANGED sshLoad
       \/ SpendSsh("insert") /\ Done(r) /\ UNCHANGED rows
    /\ UNCHANGED <<linux, lastRow, matchFile, sshd, sshAlone>>

-----------------------------------------------------------------------------
(* generateSSHConfig *)

ListAll(r) ==
    /\ Serving(r, "list")
    /\ sshReq' = [sshReq EXCEPT ![r].pc = "config", ![r].list = {rows[i] : i \in Rows}]
    /\ UNCHANGED <<linux, sshDb, matchFile, sshd, sshLoad, sshAlone>>

\* sshd is reloaded only when a user is left.
WriteSshConfig(r) ==
    /\ Serving(r, "config")
    /\ matchFile' = sshReq[r].list
    /\ IF sshReq[r].list = {} THEN Done(r) ELSE Step(r, "reload")
    /\ UNCHANGED <<linux, sshDb, sshd, sshLoad, sshAlone>>

Reload(r) ==
    /\ Serving(r, "reload") /\ sshd' = matchFile /\ Done(r)
    /\ UNCHANGED <<linux, sshDb, matchFile, sshLoad, sshAlone>>

-----------------------------------------------------------------------------
\* The panel stops with its requests cut short.
SshCrash ==
    /\ SpendSsh("crash") /\ \E r \in SshRequests : sshReq[r] # NoOne
    /\ sshReq' = [r \in SshRequests |-> NoOne]
    /\ UNCHANGED <<linux, sshDb, matchFile, sshd, sshAlone>>

\* A reboot mounts what fstab lists, a directory as often as it is listed.
Reboot ==
    /\ SpendSsh("reboot")
    /\ mounts' = [n \in Names |-> [d \in DirSet |-> fstab[<<n, d>>]]]
    /\ sshd' = matchFile
    /\ sshReq' = [r \in SshRequests |-> NoOne]
    /\ UNCHANGED <<passwd, fstab, siteFiles, sshDb, matchFile, sshAlone>>

SshNext ==
    \/ \E r \in SshRequests :
          \/ \E n \in Names : createSshFtp(r, n)
          \/ \E i \in Rows : deleteSshFtp(r, i)
          \/ Useradd(r) \/ Mkdir(r) \/ Mount(r) \/ writeFstab(r) \/ InsertRow(r)
          \/ ReadLines(r) \/ RemoveLines(r) \/ Umount(r) \/ Userdel(r) \/ DeleteRow(r)
          \/ ListAll(r) \/ WriteSshConfig(r) \/ Reload(r)
    \/ SshCrash \/ Reboot

SshSpec == SshInit /\ [][SshNext]_sshVars

-----------------------------------------------------------------------------
\* Removing a user never removes the files of the site mounted in its home,
\* across failures, crashes and reboots, while requests do not overlap.
SiteFilesKept == sshAlone => siteFiles

=============================================================================
