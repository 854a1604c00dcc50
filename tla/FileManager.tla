---------------------------- MODULE FileManager -----------------------------
(***************************************************************************)
(* The file manager of one site: requests write, create, delete, rename,   *)
(* upload, move and compress entries below the site's root, each a         *)
(* sequence of file system calls that interleaves with the others'.  Moves *)
(* and archives look whether their target exists before they make it, a    *)
(* write truncates before it fills, and a move of several entries or an    *)
(* archive may fail half-way.                                              *)
(***************************************************************************)
EXTENDS Naturals, Sequences, SequencesExt

CONSTANTS
    FileRequests,   \* slots for requests, positive numbers
    Targets,        \* paths, sequences of names below the root, that requests name
    NewNames,       \* names an entry is renamed to
    MaxContent,     \* bound: how many different contents are written
    FileLoads       \* bound: how often each operation and fault occurs

\* The names of entries: those there at first, an archive's, and new ones.
EntryNames == {"a", "b", "d", "zip"} \cup NewNames

ASSUME FilesAssumption ==
    /\ FileRequests \subseteq Nat \ {0} /\ Targets \subseteq Seq(EntryNames)
    /\ MaxContent \in Nat /\ MaxContent >= 2

VARIABLES
    tree,           \* path -> content of what exists
    fileRequests,
    written,        \* how many contents exist so far
    fileLoad,
    doomed,         \* history: contents a request was told to overwrite or delete
    disturbed       \* history: something changed between a request's look and its step

fileVars == <<tree, fileRequests, written, fileLoad, doomed, disturbed>>

Directory == 0
Empty == MaxContent + 1                 \* what createEntry leaves
Truncated(r) == MaxContent + 1 + r      \* a file that request r has open and did not fill yet
Root == <<>>
NoRequest == [pc |-> "none", op |-> "", paths |-> <<>>, dest |-> Root, content |-> Directory]

FilesInit ==
    /\ tree = [p \in {Root, <<"d">>, <<"a">>, <<"d", "b">>} |->
                  CASE p = <<"a">> -> 1 [] p = <<"d", "b">> -> 2 [] OTHER -> Directory]
    /\ fileRequests = [r \in FileRequests |-> NoRequest]
    /\ written = 2
    /\ fileLoad \in FileLoads
    /\ doomed = {} /\ disturbed = FALSE

SpendFile(op) ==
    /\ op \in DOMAIN fileLoad /\ fileLoad[op] > 0
    /\ fileLoad' = [fileLoad EXCEPT ![op] = @ - 1]

Does(r, pc) == fileRequests[r].pc = pc
Turns(r, pc) == fileRequests' = [fileRequests EXCEPT ![r].pc = pc]
EndsRequest(r) == fileRequests' = [fileRequests EXCEPT ![r] = NoRequest]

\* What the other requests may have looked at changes under them.
Looking == {"rename", "create", "adding"}
Disturbs(r) == disturbed' = (disturbed \/ \E q \in FileRequests \ {r} : fileRequests[q].pc \in Looking)

-----------------------------------------------------------------------------
(* The file system *)

IsThere(p) == p \in DOMAIN tree
IsDir(p) == IsThere(p) /\ tree[p] = Directory
Below(p) == {q \in DOMAIN tree : IsPrefix(p, q)}
ContentsBelow(p) == {tree[q] : q \in Below(p)} \cap 1..MaxContent

RemovedAll(p) == [q \in DOMAIN tree \ Below(p) |-> tree[q]]

Ancestors(p) == {SubSeq(p, 1, n) : n \in 0..Len(p) - 1}
MkdirAll(p) == \A q \in Ancestors(p) : IsThere(q) => IsDir(q)

\* os.WriteFile and os.Create after the directory was made: a directory of
\* that name refuses.
CanWrite(p) == MkdirAll(p) /\ ~IsDir(p)
Stored(p, content) ==
    [q \in DOMAIN tree \cup Ancestors(p) \cup {p} |->
        IF q = p THEN content ELSE IF IsThere(q) THEN tree[q] ELSE Directory]

\* os.Rename replaces a file by a file and an empty directory by a directory.
CanRename(from, to) ==
    /\ IsThere(from) /\ from # Root /\ IsDir(Front(to))
    /\ ~IsPrefix(from, to)
    /\ IsThere(to) => IsDir(from) = IsDir(to) /\ Below(to) = {to}
Renamed(from, to) ==
    LET moved == {to \o SubSeq(q, Len(from) + 1, Len(q)) : q \in Below(from)}
    IN  [q \in (DOMAIN tree \ (Below(from) \cup {to})) \cup moved |->
            IF q \in moved THEN tree[from \o SubSeq(q, Len(to) + 1, Len(q))] ELSE tree[q]]

-----------------------------------------------------------------------------
(* Handlers; safePath keeps every path below the root *)

\* writeFile and uploadFile: truncated first, then filled.
writeFile(r, op, p) ==
    /\ fileRequests[r] = NoRequest /\ SpendFile(op) /\ written < MaxContent /\ p # Root
    /\ IF CanWrite(p)
       THEN /\ doomed' = doomed \cup ContentsBelow(p)
            /\ tree' = Stored(p, Truncated(r)) /\ Disturbs(r)
            /\ fileRequests' = [fileRequests EXCEPT ![r] = [NoRequest EXCEPT !.pc = "fill"]]
       ELSE UNCHANGED <<tree, fileRequests, doomed, disturbed>>
    /\ UNCHANGED written

\* The data goes to the open file, wherever it was moved; a file that was
\* deleted or replaced meanwhile takes it along.
Fill(r) ==
    LET open == {p \in DOMAIN tree : tree[p] = Truncated(r)} IN
    /\ Does(r, "fill") /\ EndsRequest(r) /\ written < MaxContent
    /\ written' = IF open = {} THEN written ELSE written + 1
    /\ tree' = [p \in DOMAIN tree |-> IF p \in open THEN written + 1 ELSE tree[p]]
    /\ UNCHANGED <<fileLoad, doomed, disturbed>>

\* The disk is full or the upload breaks off: the file stays as it is.
FillFails(r) ==
    /\ Does(r, "fill") /\ SpendFile("disk") /\ EndsRequest(r)
    /\ tree' = [p \in DOMAIN tree |-> IF tree[p] = Truncated(r) THEN Empty ELSE tree[p]]
    /\ UNCHANGED <<written, doomed, disturbed>>

\* createEntry: an existing file is emptied; errors are not looked at.
createEntry(r, p, isDir) ==
    /\ fileRequests[r] = NoRequest /\ SpendFile("create") /\ p # Root /\ Disturbs(r)
    /\ IF CanWrite(p) /\ ~(isDir /\ IsThere(p))
       THEN /\ tree' = Stored(p, IF isDir THEN Directory ELSE Empty)
            /\ doomed' = IF isDir THEN doomed ELSE doomed \cup ContentsBelow(p)
       ELSE UNCHANGED <<tree, doomed>>
    /\ UNCHANGED <<fileRequests, written>>

deleteEntry(r, p) ==
    /\ fileRequests[r] = NoRequest /\ SpendFile("delete") /\ p # Root /\ Disturbs(r)
    /\ doomed' = doomed \cup ContentsBelow(p)
    /\ tree' = RemovedAll(p)
    /\ UNCHANGED <<fileRequests, written>>

\* renameEntry: what has the new name is replaced.
renameEntry(r, p, name) ==
    LET to == Append(Front(p), name) IN
    /\ fileRequests[r] = NoRequest /\ SpendFile("rename") /\ p # Root /\ CanRename(p, to) /\ Disturbs(r)
    /\ doomed' = doomed \cup ContentsBelow(to)
    /\ tree' = Renamed(p, to)
    /\ UNCHANGED <<fileRequests, written>>

-----------------------------------------------------------------------------
moveEntries(r, paths, dest) ==
    /\ fileRequests[r] = NoRequest /\ SpendFile("move") /\ IsDir(dest)
    /\ fileRequests' = [fileRequests EXCEPT ![r] = [NoRequest EXCEPT !.pc = "look", !.op = "move", !.paths = paths, !.dest = dest]]
    /\ UNCHANGED <<tree, written, doomed, disturbed>>

Entry(r) == Head(fileRequests[r].paths)
Moved(r) == Append(fileRequests[r].dest, Last(Entry(r)))
NextEntry(r) == fileRequests' = [fileRequests EXCEPT ![r].paths = Tail(@), ![r].pc = "look"]

\* Mutant: what is at the destination is not looked at.
TakenNever(r) == FALSE

Taken(r) == IsThere(Moved(r))

\* The first refusal ends the request; what was moved before stays moved.
LookEntry(r) ==
    /\ Does(r, "look") /\ fileRequests[r].paths # <<>>
    /\ CASE Entry(r) = Root \/ IsPrefix(Entry(r), fileRequests[r].dest) -> EndsRequest(r)
         [] Entry(r) # Root /\ Moved(r) = Entry(r) -> NextEntry(r)
         [] OTHER -> IF Taken(r) THEN EndsRequest(r) ELSE Turns(r, "rename")
    /\ UNCHANGED <<tree, written, fileLoad, doomed, disturbed>>

RenameTo(r) ==
    /\ Does(r, "rename") /\ Disturbs(r)
    /\ IF CanRename(Entry(r), Moved(r))
       THEN tree' = Renamed(Entry(r), Moved(r)) /\ NextEntry(r)
       ELSE EndsRequest(r) /\ UNCHANGED tree
    /\ UNCHANGED <<written, fileLoad, doomed>>

MoveDone(r) ==
    /\ Does(r, "look") /\ fileRequests[r].paths = <<>> /\ EndsRequest(r)
    /\ UNCHANGED <<tree, written, fileLoad, doomed, disturbed>>

-----------------------------------------------------------------------------
Archive(dest) == Append(dest, "zip")

\* compressEntries: the destination, the archive's name and every source are
\* looked at before the archive is made.
compressEntries(r, paths, dest) ==
    /\ fileRequests[r] = NoRequest /\ SpendFile("compress") /\ IsDir(dest) /\ ~IsThere(Archive(dest))
    /\ \A i \in DOMAIN paths : IsThere(paths[i])
    /\ fileRequests' = [fileRequests EXCEPT ![r] = [NoRequest EXCEPT !.pc = "create", !.op = "zip", !.paths = paths, !.dest = dest]]
    /\ UNCHANGED <<tree, written, doomed, disturbed>>

CreateArchive(r) ==
    /\ Does(r, "create") /\ written < MaxContent /\ Disturbs(r)
    /\ IF CanWrite(Archive(fileRequests[r].dest)) /\ IsDir(fileRequests[r].dest)
       THEN /\ tree' = Stored(Archive(fileRequests[r].dest), written + 1)
            /\ written' = written + 1
            /\ fileRequests' = [fileRequests EXCEPT ![r].pc = "adding", ![r].content = written + 1]
       ELSE EndsRequest(r) /\ UNCHANGED <<tree, written>>
    /\ UNCHANGED <<fileLoad, doomed>>

\* An entry that holds the archive itself is read while the archive grows with
\* it, so this step may never come.
AddToZip(r) ==
    /\ Does(r, "adding") /\ fileRequests[r].paths # <<>> /\ IsThere(Entry(r))
    /\ fileRequests' = [fileRequests EXCEPT ![r].paths = Tail(@)]
    /\ UNCHANGED <<tree, written, fileLoad, doomed, disturbed>>

\* An entry is gone or the disk is full: the archive of this name is removed.
AddFails(r) ==
    /\ Does(r, "adding") /\ fileRequests[r].paths # <<>> /\ EndsRequest(r) /\ Disturbs(r)
    /\ IF IsThere(Entry(r)) THEN SpendFile("disk") ELSE UNCHANGED fileLoad
    /\ doomed' = doomed \cup {fileRequests[r].content}
    /\ tree' = IF IsDir(Archive(fileRequests[r].dest)) THEN tree ELSE RemovedAll(Archive(fileRequests[r].dest))
    /\ UNCHANGED written

Finalize(r) ==
    /\ Does(r, "adding") /\ fileRequests[r].paths = <<>> /\ EndsRequest(r)
    /\ UNCHANGED <<tree, written, fileLoad, doomed, disturbed>>

\* The panel stops: requests end where they are.
PanelStops ==
    /\ SpendFile("crash") /\ \E r \in FileRequests : fileRequests[r] # NoRequest
    /\ fileRequests' = [r \in FileRequests |-> NoRequest]
    /\ tree' = [p \in DOMAIN tree |-> IF tree[p] > MaxContent THEN Empty ELSE tree[p]]
    /\ UNCHANGED <<written, doomed, disturbed>>

Lists == {<<p>> : p \in Targets} \cup {<<p, q>> : p, q \in Targets}

FilesNext ==
    \/ \E r \in FileRequests :
          \/ \E p \in Targets : \/ \E op \in {"write", "upload"} : writeFile(r, op, p)
                                \/ \E isDir \in BOOLEAN : createEntry(r, p, isDir)
                                \/ deleteEntry(r, p)
                                \/ \E name \in NewNames : renameEntry(r, p, name)
          \/ \E paths \in Lists, dest \in Targets : moveEntries(r, paths, dest) \/ compressEntries(r, paths, dest)
          \/ Fill(r) \/ FillFails(r) \/ LookEntry(r) \/ RenameTo(r) \/ MoveDone(r)
          \/ CreateArchive(r) \/ AddToZip(r) \/ AddFails(r) \/ Finalize(r)
    \/ PanelStops

FilesSpec == FilesInit /\ [][FilesNext]_fileVars

-----------------------------------------------------------------------------
\* Nothing but what requests were told to overwrite or delete is ever lost:
\* moves and archives, which may stop half-way, and renames and failed writes
\* keep every other content somewhere in the tree, whatever else goes on,
\* unless something changed between a request's look and its step.
ContentKept ==
    disturbed \/ \A content \in 1..written : content \in doomed \/ \E p \in DOMAIN tree : tree[p] = content
=============================================================================
