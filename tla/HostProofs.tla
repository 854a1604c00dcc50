---------------------------- MODULE HostProofs ------------------------------
(***************************************************************************)
(* Proofs about components that work on the hosts: the files of a site     *)
(* that changes its owner, the sweep that renews certificates, the         *)
(* containers of docker sites, the jails of SSH users, and the contents    *)
(* that the file manager keeps.  They hold for every number of users,      *)
(* requests, sites, paths, tasks and jobs under way, and for every load.   *)
(***************************************************************************)
EXTENDS Transfers, Certificates, Containers, SshUsers, FileManager, SequenceTheorems, TLAPS

-----------------------------------------------------------------------------
(* Ownership transfers *)

HomeOf == {"none", "site", "stub", "part", "nested"}
MoverRow == [pc : {"none", "transfer", "rename", "copy", "copying", "remove"}, caller : Owners,
             from : Owners, to : Owners, fresh : BOOLEAN]

\* The variables that the property looks at have their types.
TransferTypeOK ==
    /\ siteOwner \in Owners
    /\ home \in [Owners -> HomeOf]
    /\ movers \in [Movers -> MoverRow]
    /\ lone \in BOOLEAN /\ smooth \in BOOLEAN

Whole == {"site", "nested"}

\* As long as no two moves overlapped, a move is the only one, it moves the
\* files to the owner the row has now, a directory that it made itself is as it
\* left it, and before it removes the source the target holds what the source
\* holds.
OneMove ==
    /\ \A m, n \in Moving : m = n
    /\ \A m \in Moving :
          /\ movers[m].to = siteOwner /\ movers[m].from # movers[m].to
          /\ movers[m].pc = "copying" /\ movers[m].fresh => home[movers[m].to] = "part"
          /\ movers[m].pc = "remove" /\ home[movers[m].from] \in Whole => home[movers[m].to] \in Whole
    /\ \E u \in Owners : home[u] \in Whole

\* As long as in addition nothing went wrong, the source holds the site until
\* the target does.
SmoothMove ==
    /\ Moving = {} => home[siteOwner] = "site"
    /\ \A m \in Moving :
          /\ movers[m].pc \in {"rename", "copy", "copying"} => home[movers[m].from] = "site"
          /\ movers[m].pc = "copying" => movers[m].fresh
          /\ movers[m].pc = "remove" => home[movers[m].to] = "site"

TransferInv == TransferTypeOK /\ (lone => OneMove /\ (smooth => SmoothMove))

(* A user exists, so the placeholder is a row. *)
LEMMA StillRow ==
    ASSUME NEW u \in Owners
    PROVE  Still \in MoverRow /\ Still.pc = "none"
<1>1. (CHOOSE v \in Owners : TRUE) \in Owners
  OBVIOUS
<1>2. QED
  BY <1>1 DEF Still, MoverRow

(* The site is at its owner's, and nothing moves. *)
LEMMA TransferInitial == TransfersInit => TransferInv
<1> SUFFICES ASSUME TransfersInit PROVE TransferInv
  OBVIOUS
<1>1. siteOwner \in Owners /\ home[siteOwner] = "site" /\ home \in [Owners -> HomeOf]
  BY DEF TransfersInit, HomeOf
<1>2. Still \in MoverRow /\ Still.pc = "none"
  BY <1>1, StillRow
<1>3. movers \in [Movers -> MoverRow] /\ Moving = {}
  BY <1>2 DEF TransfersInit, Moving
<1>4. TransferTypeOK
  BY <1>1, <1>3 DEF TransfersInit, TransferTypeOK
<1>5. OneMove /\ SmoothMove
  BY <1>1, <1>3 DEF OneMove, SmoothMove, Whole
<1>6. QED
  BY <1>4, <1>5 DEF TransferInv

\* One mover is written at.
MoverWrite(m, row) == movers' = [movers EXCEPT ![m] = row] /\ row \in MoverRow

(* The others stay, and move if they moved. *)
LEMMA MoverWriteEffect ==
    ASSUME TransferInv, NEW m \in Movers, NEW row, MoverWrite(m, row)
    PROVE  /\ movers' \in [Movers -> MoverRow] /\ movers'[m] = row
           /\ \A n \in Movers \ {m} : movers'[n] = movers[n]
           /\ Moving' = (Moving \ {m}) \cup (IF row.pc \notin {"none", "transfer"} THEN {m} ELSE {})
<1>1. movers' \in [Movers -> MoverRow] /\ movers'[m] = row /\ \A n \in Movers \ {m} : movers'[n] = movers[n]
  BY DEF TransferInv, TransferTypeOK, MoverWrite
<1>2. QED
  BY <1>1 DEF Moving

(* The rows have their types. *)
LEMMA TransferRows ==
    ASSUME TransferInv
    PROVE  /\ siteOwner \in Owners /\ home \in [Owners -> HomeOf] /\ \A u \in Owners : home[u] \in HomeOf
           /\ \A m \in Movers : movers[m] \in MoverRow /\ movers[m].from \in Owners /\ movers[m].to \in Owners
           /\ Still \in MoverRow /\ Still.pc = "none"
  BY StillRow DEF TransferInv, TransferTypeOK, MoverRow

(* A request that moves nothing yet, or ends before it does. *)
LEMMA RequestStep ==
    ASSUME TransferInv, NEW m \in Movers, NEW row, MoverWrite(m, row), row.pc \in {"none", "transfer"},
           movers[m].pc \in {"none", "transfer"}, UNCHANGED <<siteOwner, home, lone, smooth>>
    PROVE  TransferInv'
<1>1. movers' \in [Movers -> MoverRow] /\ \A n \in Movers \ {m} : movers'[n] = movers[n]
  BY MoverWriteEffect
<1>2. Moving' = Moving /\ \A n \in Moving : movers'[n] = movers[n]
  <2>1. m \notin Moving
    BY DEF Moving
  <2>2. Moving' = Moving
    BY <2>1, MoverWriteEffect
  <2>3. QED
    BY <1>1, <2>1, <2>2 DEF Moving
<1>3. TransferTypeOK'
  BY <1>1 DEF TransferInv, TransferTypeOK
<1>4. OneMove => OneMove'
  BY <1>2 DEF OneMove
<1>5. SmoothMove => SmoothMove'
  BY <1>2 DEF SmoothMove
<1>6. QED
  BY <1>3, <1>4, <1>5 DEF TransferInv

(* The transaction: the files are to move from the owner the row had, who has
   them if nothing went wrong before. *)
LEMMA TransferStep ==
    ASSUME TransferInv, NEW m \in Movers, Transfer(m)
    PROVE  TransferInv'
<1>1. movers[m] \in MoverRow /\ movers[m].pc = "transfer" /\ movers[m].to \in Owners /\ UNCHANGED <<home, smooth>>
  BY TransferRows DEF Transfer, IsAt
<1>2. CASE siteOwner = movers[m].to
  <2>1. MoverWrite(m, Still) /\ UNCHANGED <<siteOwner, lone>>
    BY <1>2, TransferRows DEF Transfer, End, MoverWrite
  <2>2. QED
    BY <1>1, <2>1, RequestStep, TransferRows
<1>3. CASE siteOwner # movers[m].to
  <2>1. PICK row : row = [movers[m] EXCEPT !.pc = "rename", !.from = siteOwner]
    OBVIOUS
  <2>2. row \in MoverRow /\ row.pc = "rename" /\ row.from = siteOwner /\ row.to = movers[m].to
    BY <1>1, <2>1, TransferRows DEF MoverRow
  <2>3. MoverWrite(m, row) /\ lone' = (lone /\ Moving = {}) /\ siteOwner' = movers[m].to
    BY <1>3, <2>1, <2>2 DEF Transfer, MoverWrite
  <2>4. movers' \in [Movers -> MoverRow] /\ movers'[m] = row
    BY <2>3, MoverWriteEffect
  <2>5. TransferTypeOK'
    BY <1>1, <2>3, <2>4 DEF TransferInv, TransferTypeOK
  <2>6. Moving = {} => Moving' = {m}
    BY <2>2, <2>3, MoverWriteEffect
  <2>7. ASSUME lone' PROVE OneMove' /\ (smooth' => SmoothMove')
    <3>1. lone /\ Moving = {} /\ OneMove /\ Moving' = {m}
      BY <2>3, <2>6, <2>7 DEF TransferInv
    <3>2. OneMove'
      BY <1>1, <1>3, <2>2, <2>3, <2>4, <3>1 DEF OneMove
    <3>3. smooth => home[siteOwner] = "site"
      BY <3>1 DEF TransferInv, SmoothMove
    <3>4. smooth' => SmoothMove'
      BY <1>1, <2>2, <2>3, <2>4, <3>1, <3>3 DEF SmoothMove
    <3>5. QED
      BY <3>2, <3>4
  <2>8. QED
    BY <2>5, <2>7 DEF TransferInv
<1>4. QED
  BY <1>2, <1>3

(* A step of a move that goes on, while it is the only one: what has to be
   shown of it. *)
LEMMA MoveKeeps ==
    ASSUME TransferInv, NEW m \in Moving, NEW row, MoverWrite(m, row), UNCHANGED <<siteOwner, lone>>,
           home' \in [Owners -> HomeOf], smooth' \in BOOLEAN, smooth' => smooth,
           row.to = movers[m].to, row.from = movers[m].from, row.pc \notin {"none", "transfer"},
           OneMove =>
              /\ \E u \in Owners : home'[u] \in Whole
              /\ row.pc = "copying" /\ row.fresh => home'[row.to] = "part"
              /\ row.pc = "remove" /\ home'[row.from] \in Whole => home'[row.to] \in Whole,
           OneMove /\ smooth' /\ SmoothMove =>
              /\ row.pc \in {"rename", "copy", "copying"} => home'[row.from] = "site"
              /\ row.pc = "copying" => row.fresh
              /\ row.pc = "remove" => home'[row.to] = "site"
    PROVE  TransferInv'
<1>1. m \in Movers
  BY DEF Moving
<1>2. movers' \in [Movers -> MoverRow] /\ movers'[m] = row
  BY <1>1, MoverWriteEffect
<1>3. TransferTypeOK'
  BY <1>2 DEF TransferInv, TransferTypeOK
<1>4. ASSUME lone PROVE OneMove' /\ (smooth' => SmoothMove')
  <2>1. OneMove /\ Moving = {m} /\ movers[m].to = siteOwner /\ movers[m].from # movers[m].to
    BY <1>4 DEF TransferInv, OneMove
  <2>2. Moving' = {m}
    <3>1. Moving' = (Moving \ {m}) \cup (IF row.pc \notin {"none", "transfer"} THEN {m} ELSE {})
      BY <1>1, MoverWriteEffect
    <3>2. QED
      BY <2>1, <3>1
  <2>3. OneMove'
    BY <1>2, <1>4, <2>1, <2>2 DEF OneMove
  <2>4. smooth' => SmoothMove'
    BY <1>2, <1>4, <2>1, <2>2 DEF SmoothMove, TransferInv
  <2>5. QED
    BY <2>3, <2>4
<1>5. QED
  BY <1>3, <1>4 DEF TransferInv

(* The last step of a move, while it is the only one. *)
LEMMA EndKeeps ==
    ASSUME TransferInv, NEW m \in Moving, End(m), UNCHANGED <<siteOwner, lone>>,
           home' \in [Owners -> HomeOf], smooth' \in BOOLEAN, smooth' => smooth,
           OneMove => \E u \in Owners : home'[u] \in Whole,
           OneMove /\ smooth' /\ SmoothMove => home'[movers[m].to] = "site"
    PROVE  TransferInv'
<1>1. m \in Movers
  BY DEF Moving
<1>2. MoverWrite(m, Still) /\ Still.pc = "none"
  BY TransferRows DEF End, MoverWrite
<1>3. movers' \in [Movers -> MoverRow]
  BY <1>1, <1>2, MoverWriteEffect
<1>4. TransferTypeOK'
  BY <1>3 DEF TransferInv, TransferTypeOK
<1>5. ASSUME lone PROVE OneMove' /\ (smooth' => SmoothMove')
  <2>1. OneMove /\ Moving = {m} /\ movers[m].to = siteOwner
    BY <1>5 DEF TransferInv, OneMove
  <2>2. Moving' = {}
    <3>1. Moving' = (Moving \ {m}) \cup (IF Still.pc \notin {"none", "transfer"} THEN {m} ELSE {})
      BY <1>1, <1>2, MoverWriteEffect
    <3>2. QED
      BY <1>2, <2>1, <3>1
  <2>3. OneMove'
    BY <2>1, <2>2 DEF OneMove
  <2>4. smooth' => SmoothMove'
    BY <1>5, <2>1, <2>2 DEF SmoothMove, TransferInv
  <2>5. QED
    BY <2>3, <2>4
<1>6. QED
  BY <1>4, <1>5 DEF TransferInv

(* A mover that works on the files is moving, and its row keeps its users when
   only pc changes. *)
LEMMA MoverMoves ==
    ASSUME TransferInv, NEW m \in Movers, movers[m].pc \in {"rename", "copy", "copying", "remove"}
    PROVE  /\ m \in Moving /\ movers[m] \in MoverRow /\ movers[m].from \in Owners /\ movers[m].to \in Owners
           /\ \A pc \in {"copy", "remove"} : Continue(m, pc) =>
                 \E row : MoverWrite(m, row) /\ row.pc = pc /\ row.from = movers[m].from /\ row.to = movers[m].to
<1>1. m \in Moving /\ movers[m] \in MoverRow /\ movers[m].from \in Owners /\ movers[m].to \in Owners
  BY TransferRows DEF Moving
<1>2. ASSUME NEW pc \in {"copy", "remove"}, Continue(m, pc)
      PROVE  \E row : MoverWrite(m, row) /\ row.pc = pc /\ row.from = movers[m].from /\ row.to = movers[m].to
  <2>1. PICK row : row = [movers[m] EXCEPT !.pc = pc]
    OBVIOUS
  <2>2. row \in MoverRow /\ row.pc = pc /\ row.from = movers[m].from /\ row.to = movers[m].to
    BY <1>1, <2>1 DEF MoverRow
  <2>3. MoverWrite(m, row)
    BY <1>2, <2>1, <2>2 DEF Continue, MoverWrite
  <2>4. QED
    BY <2>2, <2>3
<1>3. QED
  BY <1>1, <1>2

(* The directory is renamed. *)
LEMMA RenameStep ==
    ASSUME TransferInv, NEW m \in Movers, Rename(m)
    PROVE  TransferInv'
<1>1. /\ movers[m].pc = "rename" /\ m \in Moving /\ End(m) /\ UNCHANGED <<siteOwner, lone, smooth>>
      /\ smooth \in BOOLEAN
  BY MoverMoves DEF Rename, IsAt, TransferInv, TransferTypeOK
<1>2. PICK from \in Owners, to \in Owners : from = movers[m].from /\ to = movers[m].to
  BY <1>1, MoverMoves
<1>3. home' = [home EXCEPT ![to] = home[from], ![from] = "none"] /\ home[from] # "none" /\ home[to] = "none"
  BY <1>2 DEF Rename, Blocked
<1>4. /\ home' \in [Owners -> HomeOf]
      /\ from # to => home'[to] = home[from] /\ home'[from] = "none"
      /\ \A u \in Owners \ {from, to} : home'[u] = home[u]
  BY <1>3, TransferRows DEF HomeOf
<1>5. OneMove => from # to
  BY <1>1, <1>2 DEF OneMove
<1>6. OneMove => \E u \in Owners : home'[u] \in Whole
  <2>1. SUFFICES ASSUME OneMove PROVE \E u \in Owners : home'[u] \in Whole
    OBVIOUS
  <2>2. PICK u \in Owners : home[u] \in Whole
    BY <2>1 DEF OneMove
  <2>3. CASE u = from
    BY <1>4, <1>5, <2>1, <2>2, <2>3
  <2>4. CASE u # from
    BY <1>3, <1>4, <2>2, <2>4 DEF Whole
  <2>5. QED
    BY <2>3, <2>4
<1>7. OneMove /\ SmoothMove => home'[to] = "site"
  BY <1>1, <1>2, <1>4, <1>5 DEF SmoothMove
<1>8. QED
  BY <1>1, <1>2, <1>4, <1>6, <1>7, EndKeeps

(* A rename that fails, and a copy whose source is gone, change no files. *)
LEMMA NoFilesStep ==
    ASSUME TransferInv, NEW m \in Movers, RenameFails(m) \/ CopyFails(m)
    PROVE  TransferInv'
<1>1. /\ m \in Moving /\ UNCHANGED <<siteOwner, home, lone>> /\ smooth \in BOOLEAN
      /\ home' \in [Owners -> HomeOf]
  BY MoverMoves, TransferRows DEF RenameFails, CopyFails, IsAt, TransferInv, TransferTypeOK
<1>2. OneMove => \E u \in Owners : home'[u] \in Whole
  BY <1>1 DEF OneMove
<1>3. CASE RenameFails(m)
  <2>1. movers[m].pc = "rename" /\ Continue(m, "copy") /\ smooth' = smooth
    BY <1>3 DEF RenameFails, IsAt
  <2>2. PICK row : MoverWrite(m, row) /\ row.pc = "copy" /\ row.from = movers[m].from /\ row.to = movers[m].to
    BY <2>1, MoverMoves
  <2>3. SmoothMove => home'[row.from] = "site"
    BY <1>1, <2>1, <2>2 DEF SmoothMove
  <2>4. QED
    BY <1>1, <1>2, <2>1, <2>2, <2>3, MoveKeeps
<1>4. CASE CopyFails(m)
  <2>1. End(m) /\ smooth' = FALSE
    BY <1>4 DEF CopyFails
  <2>2. QED
    BY <1>1, <1>2, <2>1, EndKeeps
<1>5. QED
  BY <1>3, <1>4

(* The copy begins: a target that is not there is made. *)
LEMMA StartCopyStep ==
    ASSUME TransferInv, NEW m \in Movers, StartCopy(m)
    PROVE  TransferInv'
<1>1. movers[m].pc = "copy" /\ m \in Moving /\ UNCHANGED <<siteOwner, lone>> /\ smooth \in BOOLEAN /\ movers[m] \in MoverRow
  BY MoverMoves DEF StartCopy, IsAt, TransferInv, TransferTypeOK
<1>2. PICK from \in Owners, to \in Owners : from = movers[m].from /\ to = movers[m].to
  BY <1>1, MoverMoves
<1>3. CASE home[from] = "none"
  <2>1. End(m) /\ smooth' = FALSE /\ home' = home
    BY <1>2, <1>3 DEF StartCopy
  <2>2. QED
    BY <1>1, <2>1, EndKeeps, TransferRows DEF OneMove
<1>4. CASE home[from] # "none"
  <2>1. PICK fresh \in BOOLEAN : fresh = (home[to] = "none")
    OBVIOUS
  <2>2. PICK row : row = [movers[m] EXCEPT !.pc = "copying", !.fresh = fresh]
    OBVIOUS
  <2>3. row \in MoverRow /\ row.pc = "copying" /\ row.fresh = fresh /\ row.from = from /\ row.to = to
    BY <1>1, <1>2, <2>2 DEF MoverRow
  <2>4. MoverWrite(m, row)
    BY <1>2, <1>4, <2>1, <2>2, <2>3 DEF StartCopy, MoverWrite
  <2>5. /\ home' = [home EXCEPT ![to] = IF home[to] = "none" THEN "part" ELSE home[to]]
        /\ smooth' = (smooth /\ home[to] = "none")
    BY <1>2, <1>4 DEF StartCopy
  <2>6. /\ home' \in [Owners -> HomeOf] /\ \A u \in Owners : home[u] # "none" => home'[u] = home[u]
        /\ home[to] = "none" => home'[to] = "part"
    BY <2>5, TransferRows DEF HomeOf
  <2>7. OneMove => \E u \in Owners : home'[u] \in Whole
    BY <2>6 DEF OneMove, Whole
  <2>8. SmoothMove => home'[from] = "site"
    BY <1>1, <1>2, <2>6 DEF SmoothMove
  <2>9. row.fresh => home'[row.to] = "part"
    BY <2>1, <2>3, <2>6
  <2>10. smooth' => row.fresh
    BY <2>1, <2>3, <2>5
  <2>11. smooth' \in BOOLEAN /\ (smooth' => smooth)
    BY <2>5
  <2>12. QED
    BY <1>1, <1>2, <2>3, <2>4, <2>6, <2>7, <2>8, <2>9, <2>10, <2>11, MoveKeeps
<1>5. QED
  BY <1>3, <1>4

(* The copy is done: the target holds what the source holds, at its place or
   nested, and loses nothing. *)
LEMMA CopyDoneStep ==
    ASSUME TransferInv, NEW m \in Movers, CopyDone(m)
    PROVE  TransferInv'
<1>1. movers[m].pc = "copying" /\ m \in Moving /\ UNCHANGED <<siteOwner, lone, smooth>> /\ smooth \in BOOLEAN
  BY MoverMoves DEF CopyDone, IsAt, TransferInv, TransferTypeOK
<1>2. PICK from \in Owners, to \in Owners : from = movers[m].from /\ to = movers[m].to
  BY <1>1, MoverMoves
<1>3. PICK h : h = IF movers[m].fresh THEN home[from] ELSE Merged(home[to], home[from])
  OBVIOUS
<1>4. home' = [home EXCEPT ![to] = h]
  BY <1>2, <1>3 DEF CopyDone
<1>5. h \in HomeOf /\ (home[from] \in Whole => h \in Whole) /\ (~movers[m].fresh /\ home[to] \in Whole => h \in Whole)
  BY <1>3, TransferRows DEF Merged, HomeOf, Whole
<1>6. home' \in [Owners -> HomeOf] /\ home'[to] = h /\ \A u \in Owners \ {to} : home'[u] = home[u]
  BY <1>4, <1>5, TransferRows
<1>7. PICK row : MoverWrite(m, row) /\ row.pc = "remove" /\ row.from = from /\ row.to = to
  <2>1. Continue(m, "remove")
    BY DEF CopyDone
  <2>2. QED
    BY <1>1, <1>2, <2>1, MoverMoves
<1>8. OneMove => (home[to] \in Whole => h \in Whole) /\ from # to
  BY <1>1, <1>2, <1>5 DEF OneMove, Whole
<1>9. OneMove => \E u \in Owners : home'[u] \in Whole
  BY <1>6, <1>8 DEF OneMove
<1>10. OneMove => (home'[from] \in Whole => home'[to] \in Whole)
  BY <1>5, <1>6, <1>8
<1>11. SmoothMove => home'[to] = "site"
  BY <1>1, <1>2, <1>3, <1>6 DEF SmoothMove
<1>12. QED
  BY <1>1, <1>2, <1>6, <1>7, <1>9, <1>10, <1>11, MoveKeeps

(* The source is removed: the target has what it held. *)
LEMMA RemoveAllStep ==
    ASSUME TransferInv, NEW m \in Movers, RemoveAll(m)
    PROVE  TransferInv'
<1>1. /\ movers[m].pc = "remove" /\ m \in Moving /\ End(m) /\ UNCHANGED <<siteOwner, lone, smooth>>
      /\ smooth \in BOOLEAN
  BY MoverMoves DEF RemoveAll, IsAt, TransferInv, TransferTypeOK
<1>2. PICK from \in Owners, to \in Owners : from = movers[m].from /\ to = movers[m].to
  BY <1>1, MoverMoves
<1>3. home' = [home EXCEPT ![from] = "none"]
  BY <1>2 DEF RemoveAll
<1>4. home' \in [Owners -> HomeOf] /\ \A u \in Owners \ {from} : home'[u] = home[u]
  BY <1>3, TransferRows DEF HomeOf
<1>5. OneMove => from # to /\ (home[from] \in Whole => home[to] \in Whole)
  BY <1>1, <1>2 DEF OneMove
<1>6. OneMove => \E u \in Owners : home'[u] \in Whole
  BY <1>4, <1>5 DEF OneMove
<1>7. OneMove /\ SmoothMove => home'[to] = "site"
  BY <1>1, <1>2, <1>4, <1>5 DEF SmoothMove
<1>8. QED
  BY <1>1, <1>2, <1>4, <1>6, <1>7, EndKeeps

(* A starter page is put where nothing is. *)
LEMMA StarterPageStep ==
    ASSUME TransferInv, StarterPage
    PROVE  TransferInv'
<1>1. UNCHANGED <<siteOwner, movers, lone, smooth>> /\ home[siteOwner] = "none" /\ home' = [home EXCEPT ![siteOwner] = "stub"]
  BY DEF StarterPage
<1>2. home' \in [Owners -> HomeOf] /\ \A u \in Owners : home[u] # "none" => home'[u] = home[u]
  BY <1>1, TransferRows DEF HomeOf
<1>3. Moving' = Moving /\ \A m \in Moving : m \in Movers
  BY <1>1 DEF Moving
<1>4. TransferTypeOK'
  BY <1>1, <1>2 DEF TransferInv, TransferTypeOK
<1>5. \A m \in Moving : movers[m].from \in Owners /\ movers[m].to \in Owners
  BY <1>3, TransferRows
<1>6. ASSUME OneMove PROVE OneMove'
  <2>1. \A u \in Owners : home[u] \in Whole => home'[u] \in Whole
    BY <1>2 DEF Whole
  <2>2. \A u \in Owners : home'[u] \in Whole => home[u] \in Whole
    BY <1>1, TransferRows DEF Whole
  <2>3. QED
    BY <1>1, <1>2, <1>3, <1>5, <1>6, <2>1, <2>2 DEF OneMove
<1>7. ASSUME SmoothMove PROVE SmoothMove'
  BY <1>1, <1>2, <1>3, <1>5, <1>7, TransferRows DEF SmoothMove
<1>8. QED
  BY <1>1, <1>4, <1>6, <1>7 DEF TransferInv

(* A crash ends the moves; one that was under way was cut short. *)
LEMMA TransfersCrashStep ==
    ASSUME TransferInv, TransfersCrash
    PROVE  TransferInv'
<1>1. UNCHANGED <<siteOwner, home, lone>> /\ movers' = [m \in Movers |-> Still] /\ smooth' = (smooth /\ Moving = {})
  BY DEF TransfersCrash
<1>2. Moving' = {} /\ movers' \in [Movers -> MoverRow]
  BY <1>1, TransferRows DEF Moving
<1>3. TransferTypeOK'
  BY <1>1, <1>2 DEF TransferInv, TransferTypeOK
<1>4. OneMove => OneMove'
  BY <1>1, <1>2 DEF OneMove
<1>5. smooth' /\ SmoothMove => SmoothMove'
  BY <1>1, <1>2 DEF SmoothMove
<1>6. QED
  BY <1>1, <1>3, <1>4, <1>5 DEF TransferInv

(* Every step keeps the invariant. *)
LEMMA TransferInductive == TransferInv /\ [TransfersNext]_transferVars => TransferInv'
<1> SUFFICES ASSUME TransferInv, [TransfersNext]_transferVars PROVE TransferInv'
  OBVIOUS
<1>1. ASSUME NEW m \in Movers, NEW u \in Owners, NEW t \in Owners, transfer(m, u, t) PROVE TransferInv'
  <2>1. PICK row : row = [Still EXCEPT !.pc = "transfer", !.caller = u, !.to = t]
    OBVIOUS
  <2>2. row \in MoverRow /\ row.pc = "transfer"
    BY <2>1, TransferRows DEF MoverRow
  <2>3. MoverWrite(m, row) /\ movers[m].pc = "none"
    BY <1>1, <2>1, <2>2, TransferRows DEF transfer, MoverWrite
  <2>4. UNCHANGED <<siteOwner, home, lone, smooth>>
    BY <1>1 DEF transfer
  <2>5. QED
    BY <2>2, <2>3, <2>4, RequestStep
<1>2. ASSUME NEW m \in Movers, TransferFails(m) PROVE TransferInv'
  <2>1. MoverWrite(m, Still) /\ movers[m].pc = "transfer" /\ UNCHANGED <<siteOwner, home, lone, smooth>>
    BY <1>2, TransferRows DEF TransferFails, End, MoverWrite, IsAt
  <2>2. QED
    BY <2>1, RequestStep, TransferRows
<1>3. CASE UNCHANGED transferVars
  <2>1. UNCHANGED <<siteOwner, home, movers, lone, smooth>> /\ Moving' = Moving
    BY <1>3 DEF transferVars, Moving
  <2>2. QED
    BY <2>1 DEF TransferInv, TransferTypeOK, OneMove, SmoothMove
<1>4. CASE TransfersNext
  BY <1>1, <1>2, <1>4, TransferStep, RenameStep, NoFilesStep, StartCopyStep, CopyDoneStep, RemoveAllStep,
     StarterPageStep, TransfersCrashStep DEF TransfersNext
<1>5. QED
  BY <1>3, <1>4

(* Transfers whose moves do not overlap never lose the files of the site,
   whatever renames, copies and crashes do and wherever a starter page was put;
   and if no move failed, was cut short or found something in its way, the
   files are at the owner of the row once the move has ended. *)
THEOREM FilesFollowOwnerHolds == TransfersSpec => []FilesFollowOwner
<1>1. TransferInv => FilesFollowOwner
  BY DEF TransferInv, OneMove, SmoothMove, FilesFollowOwner, AtRoot, Whole
<1>2. QED
  BY <1>1, TransferInitial, TransferInductive, PTL DEF TransfersSpec

-----------------------------------------------------------------------------
(* Certificates *)

\* A slot; a renewal in it is queued or running.
SslJob == {job \in [state : {"free", "queued", "running"}, type : {"none", "ssl.issue", "ssl.renew"},
                    site : CertSites, attempts : Nat] : job.type = "ssl.renew" => job.state # "free"}
SweepRow == [pc : {"idle", "next", "queued", "running", "create", "done"}, todo : SUBSET CertSites,
             site : CertSites]

\* The variables that the property looks at have their types.
CertTypeOK ==
    /\ live \subseteq CertSites
    /\ sslJobs \in [CertJobs -> SslJob]
    /\ sweep \in [Sweepers -> SweepRow]
    /\ runner # 0 => runner \in CertJobs

Renewing(job) == job.type = "ssl.renew"

\* While the tick is on its way every unfinished renewal counts: so a look that
\* finds one finds a covered site.
RenewalsCount ==
    sweep["tick"].pc # "idle" => \A j \in CertJobs : Renewing(sslJobs[j]) => sslJobs[j].site \in covered

\* What the tick owes is covered, still to be looked at, or being looked at.
NothingDropped ==
    LET k == sweep["tick"] IN
    /\ k.pc # "idle" => \A s \in owed : \/ s \in covered \/ s \in k.todo
                                        \/ k.pc \in {"queued", "running", "create"} /\ s = k.site
    /\ k.pc = "done" => k.todo = {}

CertInv == CertTypeOK /\ RenewalsCount /\ NothingDropped

(* The placeholders have their types. *)
LEMMA CertPlaceholders ==
    /\ NoSslJob \in SslJob /\ ~Renewing(NoSslJob)
    /\ CertResting \in SweepRow /\ CertResting.pc = "idle" /\ CertResting.todo = {}
<1>1. (CHOOSE s \in CertSites : TRUE) \in CertSites
  BY CertAssumption
<1>2. QED
  BY <1>1 DEF NoSslJob, SslJob, Renewing, CertResting, SweepRow

(* At the start nothing was listed. *)
LEMMA CertInitial == CertInit => CertInv
<1> SUFFICES ASSUME CertInit PROVE CertInv
  OBVIOUS
<1>1. CertTypeOK
  BY CertPlaceholders DEF CertInit, CertTypeOK
<1>2. sweep["tick"].pc = "idle"
  BY CertPlaceholders, CertAssumption DEF CertInit
<1>3. QED
  BY <1>1, <1>2 DEF CertInv, RenewalsCount, NothingDropped

\* One job is written, and counts when it renews.
SslWrite(k, job) ==
    /\ sslJobs' = [sslJobs EXCEPT ![k] = job] /\ job \in SslJob
    /\ Renewing(job) => job.site \in covered'

(* Whatever slot was written at, the unfinished renewals count. *)
LEMMA SslWriteEffect ==
    ASSUME CertInv, NEW k, NEW job, SslWrite(k, job), covered \subseteq covered',
           sweep'["tick"].pc # "idle" => sweep["tick"].pc # "idle"
    PROVE  sslJobs' \in [CertJobs -> SslJob] /\ RenewalsCount'
<1>1. sslJobs \in [CertJobs -> SslJob]
  BY DEF CertInv, CertTypeOK
<1>2. sslJobs' \in [CertJobs -> SslJob] /\ \A j \in CertJobs : sslJobs'[j] = sslJobs[j] \/ sslJobs'[j] = job
  BY <1>1 DEF SslWrite
<1>3. QED
  BY <1>2 DEF SslWrite, RenewalsCount, CertInv

\* One sweeper is written.
SweepWrite(a, row) == sweep' = [sweep EXCEPT ![a] = row] /\ row \in SweepRow

(* The others stay where they are. *)
LEMMA SweepWriteEffect ==
    ASSUME CertInv, NEW a \in Sweepers, NEW row, SweepWrite(a, row)
    PROVE  /\ sweep' \in [Sweepers -> SweepRow] /\ sweep'[a] = row
           /\ \A b \in Sweepers \ {a} : sweep'[b] = sweep[b]
  BY DEF CertInv, CertTypeOK, SweepWrite

(* A job is written while all sweepers stay where they are. *)
LEMMA JobStep ==
    ASSUME CertInv, NEW k, NEW job, SslWrite(k, job), covered \subseteq covered', UNCHANGED <<sweep, owed, live, runner>>
    PROVE  CertInv'
<1>1. sslJobs' \in [CertJobs -> SslJob] /\ RenewalsCount'
  BY SslWriteEffect
<1>2. NothingDropped'
  BY DEF CertInv, NothingDropped
<1>3. QED
  BY <1>1, <1>2 DEF CertInv, CertTypeOK

\* What a sweeper that is on its way may do next: it drops no site that is not
\* covered by then.
Advances(old, new, done) ==
    /\ old.pc # "idle"
    /\ \A s \in CertSites :
          s \in old.todo \/ (old.pc \in {"queued", "running", "create"} /\ s = old.site)
             => \/ s \in done \/ s \in new.todo
                \/ new.pc \in {"queued", "running", "create"} /\ s = new.site
    /\ new.pc = "done" => new.todo = {}

(* A sweeper advances, or ends. *)
LEMMA AdvanceStep ==
    ASSUME CertInv, NEW a \in Sweepers, NEW row, SweepWrite(a, row), covered \subseteq covered',
           sslJobs' \in [CertJobs -> SslJob], RenewalsCount', UNCHANGED <<owed, live, runner>>,
           row.pc = "idle" \/ (a = "tick" => Advances(sweep[a], row, covered'))
    PROVE  CertInv'
<1>1. CertTypeOK'
  BY SweepWriteEffect DEF CertInv, CertTypeOK
<1>2. "tick" \in Sweepers
  BY CertAssumption
<1>3. CASE a # "tick"
  <2>1. sweep'["tick"] = sweep["tick"]
    BY <1>2, <1>3, SweepWriteEffect
  <2>2. NothingDropped'
    BY <2>1 DEF CertInv, NothingDropped
  <2>3. QED
    BY <1>1, <2>2 DEF CertInv
<1>4. CASE a = "tick"
  <2>1. sweep'["tick"] = row
    BY <1>4, SweepWriteEffect
  <2>2. CASE row.pc = "idle"
    BY <1>1, <2>1, <2>2 DEF CertInv, NothingDropped
  <2>3. CASE row.pc # "idle"
    <3>1. Advances(sweep["tick"], row, covered')
      BY <1>4, <2>3
    <3>2. NothingDropped'
      <4>1. row.pc = "done" => row.todo = {}
        BY <3>1 DEF Advances
      <4>2. sweep["tick"].todo \subseteq CertSites /\ sweep["tick"].site \in CertSites
        BY <1>2 DEF CertInv, CertTypeOK, SweepRow
      <4>3. SUFFICES ASSUME NEW s \in owed
                     PROVE  \/ s \in covered' \/ s \in row.todo
                            \/ row.pc \in {"queued", "running", "create"} /\ s = row.site
        BY <2>1, <4>1 DEF NothingDropped
      <4>4. \/ s \in covered \/ s \in sweep["tick"].todo
            \/ sweep["tick"].pc \in {"queued", "running", "create"} /\ s = sweep["tick"].site
        BY <3>1 DEF CertInv, NothingDropped, Advances
      <4>5. QED
        BY <3>1, <4>2, <4>4 DEF Advances
    <3>3. QED
      BY <1>1, <3>2 DEF CertInv
  <2>4. QED
    BY <2>2, <2>3
<1>5. QED
  BY <1>3, <1>4

(* A created job counts when it is a renewal. *)
LEMMA CreatedWrites ==
    ASSUME CertInv, NEW type \in {"ssl.issue", "ssl.renew"}, NEW s \in CertSites, Created(type, s)
    PROVE  covered \subseteq covered' /\ \E k, job : SslWrite(k, job)
<1>1. PICK k : k = Min(Free)
  OBVIOUS
<1>2. PICK job : job = [state |-> "queued", type |-> type, site |-> s, attempts |-> 0]
  OBVIOUS
<1>3. job \in SslJob /\ (Renewing(job) => type = "ssl.renew") /\ job.site = s
  BY <1>2 DEF SslJob, Renewing
<1>4. covered \subseteq covered' /\ (type = "ssl.renew" => s \in covered')
  BY DEF Created
<1>5. sslJobs' = [sslJobs EXCEPT ![k] = job]
  BY <1>1, <1>2 DEF Created
<1>6. SslWrite(k, job)
  BY <1>3, <1>4, <1>5 DEF SslWrite
<1>7. QED
  BY <1>4, <1>6

(* The worker moves a job on; a renewal that it claims or hands back counted
   before. *)
LEMMA WorkerStep ==
    ASSUME CertInv, NEW j \in CertJobs, UNCHANGED <<sweep, owed, live, covered>>, NEW job,
           sslJobs' = [sslJobs EXCEPT ![j] = job], job \in SslJob, runner' # 0 => runner' = j,
           ~Renewing(job) \/ (Renewing(sslJobs[j]) /\ job.site = sslJobs[j].site)
    PROVE  CertInv'
<1>1. sslJobs \in [CertJobs -> SslJob] /\ RenewalsCount
  BY DEF CertInv, CertTypeOK
<1>2. sslJobs' \in [CertJobs -> SslJob]
  BY <1>1
<1>3. \A i \in CertJobs : sslJobs'[i] = sslJobs[i] \/ (i = j /\ sslJobs'[i] = job)
  BY <1>1
<1>4. RenewalsCount'
  BY <1>1, <1>3 DEF RenewalsCount
<1>5. NothingDropped'
  BY DEF CertInv, NothingDropped
<1>6. QED
  BY <1>2, <1>4, <1>5 DEF CertInv, CertTypeOK

(* The worker claims, finishes and fails jobs. *)
LEMMA ClaimSslKeeps ==
    ASSUME CertInv, NEW j \in CertJobs, ClaimSsl(j)
    PROVE  CertInv'
<1>1. sslJobs[j] \in SslJob
  BY DEF CertInv, CertTypeOK
<1>2. PICK job : job = [sslJobs[j] EXCEPT !.state = "running", !.attempts = @ + 1]
  OBVIOUS
<1>3. job \in SslJob /\ job.site = sslJobs[j].site /\ (Renewing(job) => Renewing(sslJobs[j]))
  <2>1. PICK old \in SslJob : old = sslJobs[j]
    BY <1>1
  <2>2. PICK more \in Nat : more = old.attempts + 1
    BY DEF SslJob
  <2>3. job = [old EXCEPT !.state = "running", !.attempts = more]
    BY <1>2, <2>1, <2>2
  <2>4. job = [state |-> "running", type |-> old.type, site |-> old.site, attempts |-> more]
    BY <2>3 DEF SslJob
  <2>5. job \in SslJob /\ job.site = old.site /\ job.type = old.type
    BY <2>4 DEF SslJob
  <2>6. QED
    BY <2>1, <2>5 DEF Renewing
<1>4. sslJobs' = [sslJobs EXCEPT ![j] = job]
  BY <1>2 DEF ClaimSsl, CertInv, CertTypeOK
<1>5. QED
  BY <1>3, <1>4, WorkerStep DEF ClaimSsl

(* A finished job frees its slot. *)
LEMMA FinishSslKeeps ==
    ASSUME CertInv, FinishSsl
    PROVE  CertInv'
<1>1. PICK j \in CertJobs : j = runner
  BY DEF CertInv, CertTypeOK, FinishSsl
<1>2. PICK job : job = NoSslJob
  OBVIOUS
<1>3. job \in SslJob /\ ~Renewing(job)
  BY <1>2, CertPlaceholders
<1>4. sslJobs' = [sslJobs EXCEPT ![j] = job]
  BY <1>1, <1>2 DEF FinishSsl
<1>5. QED
  BY <1>3, <1>4, WorkerStep DEF FinishSsl

(* A failed job is queued again, with its site, or given up. *)
LEMMA FailSslKeeps ==
    ASSUME CertInv, FailSsl
    PROVE  CertInv'
<1>1. PICK j \in CertJobs : j = runner
  BY DEF FailSsl, CertInv, CertTypeOK
<1>2. sslJobs[j] \in SslJob
  BY DEF CertInv, CertTypeOK
<1>3. PICK job : job = IF sslJobs[j].attempts < Tries THEN [sslJobs[j] EXCEPT !.state = "queued"] ELSE NoSslJob
  OBVIOUS
<1>4. job \in SslJob /\ (Renewing(job) => Renewing(sslJobs[j]) /\ job.site = sslJobs[j].site)
  <2>1. CASE job = NoSslJob
    BY <2>1, CertPlaceholders
  <2>2. CASE job = [sslJobs[j] EXCEPT !.state = "queued"]
    BY <1>1, <1>2, <2>2 DEF SslJob, Renewing
  <2>3. QED
    BY <1>3, <2>1, <2>2
<1>5. sslJobs' = [sslJobs EXCEPT ![j] = job]
  BY <1>1, <1>3 DEF FailSsl, CertInv, CertTypeOK
<1>6. QED
  BY <1>4, <1>5, WorkerStep DEF FailSsl

(* The list starts the tick: all it owes is to be looked at. *)
LEMMA ListKeeps ==
    ASSUME CertInv, NEW a \in Sweepers, runSSLAutoRenew(a)
    PROVE  CertInv'
<1>1. PICK row : row = [CertResting EXCEPT !.pc = "next", !.todo = ListSSLExpiring \cap live]
  OBVIOUS
<1>2. ListSSLExpiring \cap live \subseteq CertSites
  BY DEF ListSSLExpiring
<1>3. row \in SweepRow /\ row.pc = "next" /\ row.todo = ListSSLExpiring \cap live
  BY <1>1, <1>2, CertPlaceholders DEF SweepRow
<1>4. SweepWrite(a, row)
  BY <1>1, <1>3 DEF runSSLAutoRenew, SweepWrite
<1>5. CertTypeOK'
  BY <1>4, SweepWriteEffect DEF CertInv, CertTypeOK, runSSLAutoRenew
<1>6. "tick" \in Sweepers
  BY CertAssumption
<1>7. CASE a # "tick"
  <2>1. sweep'["tick"] = sweep["tick"] /\ UNCHANGED <<owed, covered, sslJobs>>
    BY <1>4, <1>6, <1>7, SweepWriteEffect DEF runSSLAutoRenew
  <2>2. NothingDropped' /\ RenewalsCount'
    BY <2>1 DEF CertInv, NothingDropped, RenewalsCount
  <2>3. QED
    BY <1>5, <2>2 DEF CertInv
<1>8. CASE a = "tick"
  <2>1. sweep'["tick"] = row
    BY <1>4, <1>8, SweepWriteEffect
  <2>2. owed' \subseteq row.todo
    BY <1>3, <1>8 DEF runSSLAutoRenew, ListSSLExpiring, WithinWindow, CertInv, CertTypeOK
  <2>3. NothingDropped'
    BY <1>3, <2>1, <2>2 DEF NothingDropped
  <2>4. RenewalsCount'
    <3>1. \A j \in CertJobs : Renewing(sslJobs[j]) => sslJobs[j].site \in {s \in CertSites : Unfinished(s, {"queued", "running"})}
      BY DEF CertInv, CertTypeOK, SslJob, Renewing, Unfinished
    <3>2. covered' = {s \in CertSites : Unfinished(s, {"queued", "running"})} /\ UNCHANGED sslJobs
      BY <1>8 DEF runSSLAutoRenew
    <3>3. QED
      BY <3>1, <3>2 DEF RenewalsCount
  <2>5. QED
    BY <1>5, <2>3, <2>4 DEF CertInv
<1>9. QED
  BY <1>7, <1>8

(* The sweeper takes the next site of its list, or is done when there is none. *)
LEMMA NextSiteKeeps ==
    ASSUME CertInv, NEW a \in Sweepers, NextSite(a)
    PROVE  CertInv'
<1>1. sweep[a] \in SweepRow /\ sweep[a].pc = "next" /\ sslJobs' \in [CertJobs -> SslJob]
  BY DEF CertInv, CertTypeOK, NextSite
<1>2. CASE sweep[a].todo = {}
  <2>1. PICK row : row = [CertResting EXCEPT !.pc = "done"]
    OBVIOUS
  <2>2. row \in SweepRow /\ row.pc = "done" /\ row.todo = {}
    BY <2>1, CertPlaceholders DEF SweepRow
  <2>3. SweepWrite(a, row)
    BY <1>2, <2>1, <2>2 DEF NextSite, SweepWrite
  <2>4. Advances(sweep[a], row, covered')
    BY <1>1, <1>2, <2>2 DEF Advances
  <2>5. RenewalsCount'
    BY <1>1, <2>3, SweepWriteEffect, CertAssumption DEF NextSite, CertInv, RenewalsCount
  <2>6. QED
    BY <1>1, <2>3, <2>4, <2>5, AdvanceStep DEF NextSite
<1>3. CASE sweep[a].todo # {}
  <2>1. PICK s \in sweep[a].todo : sweep' = [sweep EXCEPT ![a] = [pc |-> "queued", todo |-> sweep[a].todo \ {s}, site |-> s]]
    BY <1>3 DEF NextSite, CertInv, CertTypeOK
  <2>2. PICK row : row = [pc |-> "queued", todo |-> sweep[a].todo \ {s}, site |-> s]
    OBVIOUS
  <2>3. row \in SweepRow /\ row.pc = "queued" /\ row.todo = sweep[a].todo \ {s} /\ row.site = s
    BY <1>1, <2>2 DEF SweepRow
  <2>4. SweepWrite(a, row)
    BY <2>1, <2>2, <2>3 DEF SweepWrite
  <2>5. Advances(sweep[a], row, covered')
    BY <1>1, <2>3 DEF Advances
  <2>6. RenewalsCount'
    BY <1>1, <2>4, SweepWriteEffect, CertAssumption DEF NextSite, CertInv, RenewalsCount
  <2>7. QED
    BY <1>1, <2>4, <2>5, <2>6, AdvanceStep DEF NextSite
<1>4. QED
  BY <1>2, <1>3

(* A look that finds a renewal finds a covered site; one that finds none keeps
   the site. *)
LEMMA LookKeeps ==
    ASSUME CertInv, NEW a \in Sweepers, LookQueued(a) \/ LookRunning(a)
    PROVE  CertInv'
<1>1. sweep[a] \in SweepRow /\ sweep[a].pc \in {"queued", "running"} /\ sslJobs' \in [CertJobs -> SslJob]
  BY DEF CertInv, CertTypeOK, LookQueued, LookRunning
<1>2. PICK pc \in {"next", "running", "create"} :
          /\ sweep' = [sweep EXCEPT ![a].pc = pc]
          /\ pc = "next" => \E states \in {{"queued"}, {"running"}} : Unfinished(sweep[a].site, states)
  <2>1. CASE LookQueued(a)
    BY <2>1 DEF LookQueued
  <2>2. CASE LookRunning(a)
    BY <2>2 DEF LookRunning
  <2>3. QED
    BY <2>1, <2>2
<1>3. PICK row : row = [sweep[a] EXCEPT !.pc = pc]
  OBVIOUS
<1>4. row \in SweepRow /\ row.pc = pc /\ row.todo = sweep[a].todo /\ row.site = sweep[a].site
  BY <1>1, <1>3 DEF SweepRow
<1>5. SweepWrite(a, row)
  BY <1>2, <1>3, <1>4 DEF SweepWrite, CertInv, CertTypeOK
<1>6. UNCHANGED <<covered, sslJobs, owed, live, runner>>
  BY DEF LookQueued, LookRunning
<1>7. RenewalsCount'
  BY <1>1, <1>5, <1>6, SweepWriteEffect, CertAssumption DEF CertInv, RenewalsCount
<1>8. ASSUME a = "tick" PROVE Advances(sweep[a], row, covered')
  <2>1. pc = "next" => sweep[a].site \in covered
    BY <1>1, <1>2, <1>8 DEF Unfinished, CertInv, RenewalsCount, Renewing
  <2>2. QED
    BY <1>1, <1>4, <1>6, <2>1 DEF Advances
<1>9. QED
  BY <1>1, <1>5, <1>6, <1>7, <1>8, AdvanceStep

(* The insertion covers the site, whether it succeeds or not. *)
LEMMA CreateRenewalKeeps ==
    ASSUME CertInv, NEW a \in Sweepers, CreateRenewal(a)
    PROVE  CertInv'
<1>1. sweep[a] \in SweepRow /\ sweep[a].pc = "create" /\ sweep[a].site \in CertSites
  BY DEF CertInv, CertTypeOK, CreateRenewal, SweepRow
<1>2. PICK row : row = [sweep[a] EXCEPT !.pc = "next"]
  OBVIOUS
<1>3. row \in SweepRow /\ row.pc = "next" /\ row.todo = sweep[a].todo
  BY <1>1, <1>2 DEF SweepRow
<1>4. SweepWrite(a, row)
  BY <1>2, <1>3 DEF SweepWrite, CreateRenewal, CertInv, CertTypeOK
<1>5. covered \subseteq covered' /\ sweep[a].site \in covered'
  BY DEF CreateRenewal, Created
<1>6. Advances(sweep[a], row, covered')
  BY <1>1, <1>3, <1>5 DEF Advances
<1>7. sweep'["tick"].pc # "idle" => sweep["tick"].pc # "idle"
  BY <1>1, <1>4, SweepWriteEffect, CertAssumption
<1>8. sslJobs' \in [CertJobs -> SslJob] /\ RenewalsCount'
  <2>1. CASE Created("ssl.renew", sweep[a].site)
    <3>1. PICK s \in CertSites : s = sweep[a].site
      BY <1>1
    <3>2. Created("ssl.renew", s)
      BY <2>1, <3>1
    <3>3. PICK k, job : SslWrite(k, job)
      BY <3>2, CreatedWrites
    <3>4. QED
      BY <1>5, <1>7, <3>3, SslWriteEffect
  <2>2. CASE UNCHANGED sslJobs
    BY <1>5, <1>7, <2>2 DEF CertInv, CertTypeOK, RenewalsCount
  <2>3. QED
    BY <2>1, <2>2 DEF CreateRenewal
<1>9. QED
  BY <1>4, <1>5, <1>6, <1>8, AdvanceStep DEF CreateRenewal

(* A sweep ends. *)
LEMMA SweepEndsKeeps ==
    ASSUME CertInv, NEW a \in Sweepers, SweepEnds(a)
    PROVE  CertInv'
<1>1. PICK row : row = CertResting
  OBVIOUS
<1>2. row \in SweepRow /\ row.pc = "idle"
  BY <1>1, CertPlaceholders
<1>3. SweepWrite(a, row)
  BY <1>1, <1>2 DEF SweepWrite, SweepEnds
<1>4. sweep[a].pc = "done"
  BY DEF SweepEnds
<1>5. sslJobs' \in [CertJobs -> SslJob]
  BY DEF SweepEnds, CertInv, CertTypeOK
<1>6. RenewalsCount'
  BY <1>2, <1>3, SweepWriteEffect, CertAssumption DEF SweepEnds, CertInv, RenewalsCount
<1>7. QED
  BY <1>2, <1>3, <1>5, <1>6, AdvanceStep DEF SweepEnds

(* Every step keeps the invariant. *)
LEMMA CertKeeps ==
    ASSUME CertInv, [CertNext]_certVars
    PROVE  CertInv'
<1>1. ASSUME NEW s \in CertSites, issue(s) \/ renew(s)
      PROVE  CertInv'
  <2>1. PICK type \in {"ssl.issue", "ssl.renew"} : Created(type, s)
    BY <1>1 DEF issue, renew
  <2>2. covered \subseteq covered' /\ \E k, job : SslWrite(k, job)
    BY <2>1, CreatedWrites
  <2>3. QED
    BY <1>1, <2>2, JobStep DEF issue, renew
<1>2. ASSUME NEW s \in CertSites, ToggleSite(s)
      PROVE  CertInv'
  <2>1. live' \subseteq CertSites
    BY <1>2 DEF ToggleSite, CertInv, CertTypeOK
  <2>2. QED
    BY <1>2, <2>1 DEF ToggleSite, CertInv, CertTypeOK, RenewalsCount, NothingDropped
<1>3. CASE Window \/ UNCHANGED certVars
  BY <1>3 DEF Window, certVars, CertInv, CertTypeOK, RenewalsCount, NothingDropped
<1>4. QED
  BY <1>1, <1>2, <1>3, ListKeeps, NextSiteKeeps, LookKeeps, CreateRenewalKeeps, SweepEndsKeeps,
     ClaimSslKeeps, FinishSslKeeps, FailSslKeeps
  DEF CertNext

(* For any number of sites, sweeps and jobs: a tick of runSSLAutoRenew leaves
   no live site behind whose certificate is about to expire or past its
   expiry, although the worker moves jobs between the look for a queued and
   the look for a running renewal. *)
THEOREM ExpiringCoveredHolds == CertSpec => []ExpiringCovered
<1>1. CertInit => CertInv
  BY CertInitial
<1>2. CertInv /\ [CertNext]_certVars => CertInv'
  BY CertKeeps
<1>3. CertInv => ExpiringCovered
  BY DEF CertInv, NothingDropped, ExpiringCovered
<1>4. QED
  BY <1>1, <1>2, <1>3, PTL DEF CertSpec

-----------------------------------------------------------------------------
(* Containers *)

TaskFields == {"pc", "site", "lang", "bitnami", "port", "name", "host"}
Working(t) == tasks[t].pc # "none"

\* The maps have their domains and the records their fields; a task belongs to
\* a site, and it and every container has a name.
DockerTypeOK ==
    /\ DOMAIN tasks = DTasks /\ DOMAIN settled = DSites /\ DOMAIN vhostPort = DSites
    /\ \A t \in DTasks : /\ DOMAIN tasks[t] = TaskFields
                         /\ Working(t) => tasks[t].site \in DSites /\ tasks[t].name # ""
    /\ "" \notin DOMAIN containers
    /\ \A n \in DOMAIN containers : DOMAIN containers[n] = {"site", "host", "lang", "up"}

\* A site without overlapping tasks has one task at most.
OneTask ==
    \A t, u \in DTasks :
        Working(t) /\ Working(u) /\ tasks[t].site = tasks[u].site /\ tasks[t].site \notin crossed => t = u

\* What the container of this name publishes, if it is the site's own.
Publishes(n, s, host) == n \in DOMAIN containers /\ containers[n].site = s => containers[n].host = host

\* A task about to write the vhost has the host port of the container it ran,
\* unless somebody else put another in its place.
RanHere ==
    \A t \in DTasks : tasks[t].pc = "vhost" /\ tasks[t].site \notin crossed
                         => Publishes(tasks[t].name, tasks[t].site, tasks[t].host)

\* The vhost of a site that rests passes to what its container publishes.
Settled ==
    \A s \in DSites : ~Busy(s) /\ s \notin crossed => Publishes(settled[s], s, vhostPort[s])

DockerInv == DockerTypeOK /\ OneTask /\ RanHere /\ Settled

(* At the start there are neither tasks nor containers. *)
LEMMA DockerInitial == ContainersInit => DockerInv
<1> SUFFICES ASSUME ContainersInit PROVE DockerInv
  OBVIOUS
<1>1. DOMAIN NoTask = TaskFields /\ NoTask.pc = "none"
  BY DEF NoTask, TaskFields
<1>2. DOMAIN containers = {} /\ \A t \in DTasks : tasks[t] = NoTask
  BY DEF ContainersInit
<1>3. DockerTypeOK
  BY <1>1, <1>2 DEF ContainersInit, DockerTypeOK, Working
<1>4. OneTask /\ RanHere /\ Settled
  BY <1>1, <1>2 DEF OneTask, RanHere, Settled, Publishes, Working
<1>5. QED
  BY <1>3, <1>4 DEF DockerInv

\* Every container is an old one with what it publishes, or somebody's own.
OldOrOwn ==
    /\ "" \notin DOMAIN containers'
    /\ \A n \in DOMAIN containers' :
          /\ DOMAIN containers'[n] = {"site", "host", "lang", "up"}
          /\ \/ n \in DOMAIN containers /\ containers'[n].site = containers[n].site /\ containers'[n].host = containers[n].host
             \/ containers'[n].site = 0

(* So no container comes to publish anything else for a site. *)
LEMMA OldOrOwnEffect ==
    ASSUME OldOrOwn, NEW n, NEW s \in DSites, NEW host, Publishes(n, s, host)
    PROVE  n \in DOMAIN containers' /\ containers'[n].site = s => containers'[n].host = host
  BY ContainersAssumption DEF OldOrOwn, Publishes

(* docker rm takes a container away. *)
LEMMA WithoutKeepsOld ==
    ASSUME DockerInv, NEW n, containers' = Without(n)
    PROVE  OldOrOwn
  BY DEF Without, OldOrOwn, DockerInv, DockerTypeOK

\* One task is written.
TaskWrite(t, row) == tasks' = [tasks EXCEPT ![t] = row] /\ DOMAIN row = TaskFields

(* The other tasks stay. *)
LEMMA TaskWriteEffect ==
    ASSUME DockerInv, NEW t \in DTasks, NEW row, TaskWrite(t, row)
    PROVE  /\ DOMAIN tasks' = DTasks /\ tasks'[t] = row
           /\ \A u \in DTasks \ {t} : tasks'[u] = tasks[u]
           /\ \A u \in DTasks : DOMAIN tasks'[u] = TaskFields
  BY DEF DockerInv, DockerTypeOK, TaskWrite

(* Containers are started, stopped, removed and created by hand. *)
LEMMA ByHandStep ==
    ASSUME DockerInv, OldOrOwn, UNCHANGED <<vhostPort, tasks, settled, crossed>>
    PROVE  DockerInv'
<1>1. DockerTypeOK'
  BY DEF DockerInv, DockerTypeOK, OldOrOwn, Working
<1>2. OneTask'
  BY DEF DockerInv, OneTask, Working
<1>3. RanHere'
  <2> SUFFICES ASSUME NEW t \in DTasks, tasks[t].pc = "vhost", tasks[t].site \notin crossed
               PROVE  Publishes(tasks[t].name, tasks[t].site, tasks[t].host)'
    BY DEF RanHere
  <2>1. tasks[t].site \in DSites /\ Publishes(tasks[t].name, tasks[t].site, tasks[t].host)
    BY DEF DockerInv, DockerTypeOK, RanHere, Working
  <2>2. PICK s \in DSites : s = tasks[t].site
    BY <2>1
  <2>3. PICK n, host : n = tasks[t].name /\ host = tasks[t].host
    OBVIOUS
  <2>4. QED
    BY <2>1, <2>2, <2>3, OldOrOwnEffect DEF Publishes
<1>4. Settled'
  <2> SUFFICES ASSUME NEW s \in DSites, ~Busy(s), s \notin crossed
               PROVE  Publishes(settled[s], s, vhostPort[s])'
    BY DEF Settled, Busy
  <2>1. Publishes(settled[s], s, vhostPort[s])
    BY DEF DockerInv, Settled
  <2>2. PICK n, host : n = settled[s] /\ host = vhostPort[s]
    OBVIOUS
  <2>3. QED
    BY <2>1, <2>2, OldOrOwnEffect DEF Publishes
<1>5. QED
  BY <1>1, <1>2, <1>3, <1>4 DEF DockerInv

(* A task goes on, but not to the vhost. *)
LEMMA TaskStep ==
    ASSUME DockerInv, OldOrOwn, UNCHANGED <<vhostPort, settled, crossed>>,
           NEW t \in DTasks, NEW row, TaskWrite(t, row), Working(t),
           row.pc \notin {"none", "vhost"}, row.site = tasks[t].site, row.name = tasks[t].name
    PROVE  DockerInv'
<1>1. /\ DOMAIN tasks' = DTasks /\ tasks'[t] = row
      /\ \A u \in DTasks \ {t} : tasks'[u] = tasks[u]
      /\ \A u \in DTasks : DOMAIN tasks'[u] = TaskFields
  BY TaskWriteEffect
<1>2. \A u \in DTasks : /\ (tasks'[u].pc # "none" <=> tasks[u].pc # "none")
                        /\ tasks'[u].site = tasks[u].site /\ tasks'[u].name = tasks[u].name
  BY <1>1 DEF Working
<1>3. DockerTypeOK'
  BY <1>1, <1>2 DEF DockerInv, DockerTypeOK, OldOrOwn, Working
<1>4. OneTask'
  BY <1>2 DEF DockerInv, OneTask, Working
<1>5. RanHere'
  <2> SUFFICES ASSUME NEW u \in DTasks, tasks'[u].pc = "vhost", tasks'[u].site \notin crossed
               PROVE  Publishes(tasks[u].name, tasks[u].site, tasks[u].host)'
    BY DEF RanHere
  <2>1. u # t /\ tasks'[u] = tasks[u]
    BY <1>1
  <2>2. tasks[u].site \in DSites /\ Publishes(tasks[u].name, tasks[u].site, tasks[u].host)
    BY <2>1 DEF DockerInv, DockerTypeOK, RanHere, Working
  <2>3. PICK s \in DSites : s = tasks[u].site
    BY <2>2
  <2>4. PICK n, host : n = tasks[u].name /\ host = tasks[u].host
    OBVIOUS
  <2>5. n \in DOMAIN containers' /\ containers'[n].site = s => containers'[n].host = host
    BY <2>2, <2>3, <2>4, OldOrOwnEffect
  <2>6. QED
    BY <2>1, <2>3, <2>4, <2>5 DEF Publishes
<1>6. Settled'
  <2> SUFFICES ASSUME NEW s \in DSites, ~Busy(s)', s \notin crossed
               PROVE  Publishes(settled[s], s, vhostPort[s])'
    BY DEF Settled
  <2>1. ~Busy(s)
    BY <1>2 DEF Busy, Working
  <2>2. Publishes(settled[s], s, vhostPort[s])
    BY <2>1 DEF DockerInv, Settled
  <2>3. PICK n, host : n = settled[s] /\ host = vhostPort[s]
    OBVIOUS
  <2>4. QED
    BY <2>2, <2>3, OldOrOwnEffect DEF Publishes
<1>7. QED
  BY <1>3, <1>4, <1>5, <1>6 DEF DockerInv

(* Going to another place changes nothing else of a task. *)
LEMMA GoesToWrites ==
    ASSUME DockerInv, NEW t \in DTasks, NEW pc, GoesTo(t, pc)
    PROVE  \E row : /\ TaskWrite(t, row) /\ row.pc = pc /\ row.site = tasks[t].site
                    /\ row.name = tasks[t].name /\ row.host = tasks[t].host
<1>1. DOMAIN tasks = DTasks /\ DOMAIN tasks[t] = TaskFields
  BY DEF DockerInv, DockerTypeOK
<1>2. PICK row : row = [tasks[t] EXCEPT !.pc = pc]
  OBVIOUS
<1>3. /\ DOMAIN row = TaskFields /\ row.pc = pc /\ row.site = tasks[t].site
      /\ row.name = tasks[t].name /\ row.host = tasks[t].host
  BY <1>1, <1>2 DEF TaskFields
<1>4. tasks' = [tasks EXCEPT ![t] = row]
  BY <1>1, <1>2 DEF GoesTo
<1>5. QED
  BY <1>3, <1>4 DEF TaskWrite

(* The steps up to docker run, the failures and the retries. *)
LEMMA OnTheWayKeeps ==
    ASSUME DockerInv, NEW t \in DTasks,
           \/ HelloFiles(t) \/ Pull(t) \/ PullFails(t) \/ RemoveExisting(t) \/ ChoosePort(t)
           \/ NginxTestFails(t) \/ TaskCut(t) \/ Retry(t)
    PROVE  DockerInv'
<1>1. Working(t) /\ UNCHANGED <<vhostPort, settled, crossed>>
  BY DEF HelloFiles, Pull, PullFails, RemoveExisting, ChoosePort, NginxTestFails, TaskCut, Retry, InTask, Working
<1>2. OldOrOwn
  <2>1. CASE RemoveExisting(t)
    <3>1. PICK n : n = tasks[t].name
      OBVIOUS
    <3>2. QED
      BY <2>1, <3>1, WithoutKeepsOld DEF RemoveExisting
  <2>2. CASE UNCHANGED containers
    BY <2>2 DEF OldOrOwn, DockerInv, DockerTypeOK
  <2>3. QED
    BY <2>1, <2>2 DEF HelloFiles, Pull, PullFails, ChoosePort, NginxTestFails, TaskCut, Retry
<1>3. PICK row : /\ TaskWrite(t, row) /\ row.pc \notin {"none", "vhost"}
                 /\ row.site = tasks[t].site /\ row.name = tasks[t].name
  <2>1. CASE \E pc \in {"pull", "rm", "port", "failed"} : GoesTo(t, pc)
    BY <2>1, GoesToWrites
  <2>2. CASE ChoosePort(t)
    <3>1. DOMAIN tasks = DTasks /\ DOMAIN tasks[t] = TaskFields
      BY DEF DockerInv, DockerTypeOK
    <3>2. PICK p : p = ChosenPort(tasks[t].site, tasks[t].port)
      OBVIOUS
    <3>3. PICK row : row = [tasks[t] EXCEPT !.pc = "run", !.host = p]
      OBVIOUS
    <3>4. DOMAIN row = TaskFields /\ row.pc = "run" /\ row.site = tasks[t].site /\ row.name = tasks[t].name
      BY <3>1, <3>3 DEF TaskFields
    <3>5. tasks' = [tasks EXCEPT ![t] = row]
      BY <2>2, <3>1, <3>2, <3>3 DEF ChoosePort
    <3>6. QED
      BY <3>4, <3>5 DEF TaskWrite
  <2>3. CASE Retry(t)
    <3>1. DOMAIN tasks = DTasks /\ DOMAIN tasks[t] = TaskFields
      BY DEF DockerInv, DockerTypeOK
    <3>2. PICK row : row = [tasks[t] EXCEPT !.pc = "files", !.host = Unmapped]
      OBVIOUS
    <3>3. DOMAIN row = TaskFields /\ row.pc = "files" /\ row.site = tasks[t].site /\ row.name = tasks[t].name
      BY <3>1, <3>2 DEF TaskFields
    <3>4. tasks' = [tasks EXCEPT ![t] = row]
      BY <2>3, <3>1, <3>2 DEF Retry
    <3>5. QED
      BY <3>3, <3>4 DEF TaskWrite
  <2>4. QED
    BY <2>1, <2>2, <2>3 DEF HelloFiles, Pull, PullFails, RemoveExisting, NginxTestFails, TaskCut
<1>4. QED
  BY <1>1, <1>2, <1>3, TaskStep

(* docker run: the container that it adds publishes the task's port, and no
   other task of its site is there that could be about to write the vhost. *)
LEMMA DockerRunKeeps ==
    ASSUME DockerInv, NEW t \in DTasks, DockerRun(t)
    PROVE  DockerInv'
<1>1. /\ Working(t) /\ tasks[t].pc = "run" /\ UNCHANGED <<vhostPort, settled, crossed>>
      /\ tasks[t].site \in DSites /\ tasks[t].name # ""
  BY DEF DockerRun, InTask, Working, DockerInv, DockerTypeOK
<1>2. PICK pc \in {"vhost", "failed"} : GoesTo(t, pc)
  BY DEF DockerRun
<1>3. PICK row : /\ TaskWrite(t, row) /\ row.pc = pc /\ row.site = tasks[t].site
                 /\ row.name = tasks[t].name /\ row.host = tasks[t].host
  BY <1>2, GoesToWrites
<1>4. CASE tasks[t].name \in DOMAIN containers
  <2>1. GoesTo(t, "failed") /\ UNCHANGED containers
    BY <1>4 DEF DockerRun
  <2>2. OldOrOwn
    BY <2>1 DEF OldOrOwn, DockerInv, DockerTypeOK
  <2>3. PICK r : /\ TaskWrite(t, r) /\ r.pc = "failed" /\ r.site = tasks[t].site /\ r.name = tasks[t].name
    BY <2>1, GoesToWrites
  <2>4. QED
    BY <1>1, <2>2, <2>3, TaskStep
<1>5. CASE tasks[t].name \notin DOMAIN containers
  <2>1. PICK c : /\ containers' = With(tasks[t].name, c) /\ DOMAIN c = {"site", "host", "lang", "up"}
                 /\ c.site = tasks[t].site /\ c.host = tasks[t].host
    <3>1. PICK c : c = [site |-> tasks[t].site, host |-> tasks[t].host, lang |-> tasks[t].lang,
                        up |-> isPortAvailable(tasks[t].host) /\ dockerDefaultCmd(tasks[t].lang) \subseteq rootFiles[tasks[t].site]]
      OBVIOUS
    <3>2. containers' = With(tasks[t].name, c)
      BY <1>5, <3>1 DEF DockerRun
    <3>3. QED
      BY <3>1, <3>2
  <2>2. PICK s \in DSites : s = tasks[t].site
    BY <1>1
  <2>3. PICK n : n = tasks[t].name
    OBVIOUS
  <2>4. /\ DOMAIN containers' = DOMAIN containers \cup {n} /\ containers'[n] = c
        /\ \A m \in DOMAIN containers \ {n} : containers'[m] = containers[m]
    BY <2>1, <2>2, <2>3 DEF With
  <2>5. /\ DOMAIN tasks' = DTasks /\ tasks'[t] = row
        /\ \A u \in DTasks \ {t} : tasks'[u] = tasks[u]
        /\ \A u \in DTasks : DOMAIN tasks'[u] = TaskFields
    BY <1>3, TaskWriteEffect
  <2>6. \A u \in DTasks : /\ (tasks'[u].pc # "none" <=> tasks[u].pc # "none")
                          /\ tasks'[u].site = tasks[u].site /\ tasks'[u].name = tasks[u].name
                          /\ tasks'[u].host = tasks[u].host
    BY <1>1, <1>3, <2>5 DEF Working
  <2>7. DockerTypeOK'
    <3>1. \A u \in DTasks : tasks'[u].pc # "none" => tasks'[u].site \in DSites /\ tasks'[u].name # ""
      BY <2>6 DEF DockerInv, DockerTypeOK, Working
    <3>2. "" \notin DOMAIN containers'
      BY <1>1, <2>3, <2>4 DEF DockerInv, DockerTypeOK
    <3>3. \A m \in DOMAIN containers' : DOMAIN containers'[m] = {"site", "host", "lang", "up"}
      BY <2>1, <2>4 DEF DockerInv, DockerTypeOK
    <3>4. DOMAIN settled' = DSites /\ DOMAIN vhostPort' = DSites
      BY <1>1 DEF DockerInv, DockerTypeOK
    <3>5. QED
      BY <2>5, <3>1, <3>2, <3>3, <3>4 DEF DockerTypeOK, Working
  <2>8. OneTask'
    BY <1>1, <2>6 DEF DockerInv, OneTask, Working
  <2>9. RanHere'
    <3> SUFFICES ASSUME NEW u \in DTasks, tasks'[u].pc = "vhost", tasks'[u].site \notin crossed
                 PROVE  Publishes(tasks[u].name, tasks[u].site, tasks[u].host)'
      BY <1>1 DEF RanHere
    <3>1. CASE u = t
      <4>1. containers'[tasks'[u].name].host = tasks'[u].host
        BY <2>1, <2>2, <2>3, <2>4, <2>6, <3>1
      <4>2. QED
        BY <4>1 DEF Publishes
    <3>2. CASE u # t
      <4>1. tasks[u].site # s
        BY <1>1, <2>2, <2>3, <2>5, <3>2 DEF DockerInv, OneTask, Working
      <4>2. Publishes(tasks[u].name, tasks[u].site, tasks[u].host)
        BY <2>5, <3>2 DEF DockerInv, RanHere
      <4>3. QED
        BY <2>1, <2>2, <2>3, <2>4, <2>6, <4>1, <4>2 DEF Publishes
    <3>3. QED
      BY <3>1, <3>2
  <2>10. Settled'
    <3> SUFFICES ASSUME NEW z \in DSites, ~Busy(z)', z \notin crossed
                 PROVE  Publishes(settled[z], z, vhostPort[z])'
      BY <1>1 DEF Settled
    <3>1. ~Busy(z) /\ z # s
      BY <1>1, <2>2, <2>3, <2>6 DEF Busy, Working
    <3>2. Publishes(settled[z], z, vhostPort[z])
      BY <3>1 DEF DockerInv, Settled
    <3>3. QED
      BY <1>1, <2>1, <2>2, <2>3, <2>4, <3>1, <3>2 DEF Publishes
  <2>11. QED
    BY <2>7, <2>8, <2>9, <2>10 DEF DockerInv
<1>6. QED
  BY <1>4, <1>5

(* A task ends: no site becomes busy, and the other tasks stay. *)
LEMMA TaskEndsEffect ==
    ASSUME DockerInv, NEW t \in DTasks, Working(t), tasks' = [tasks EXCEPT ![t] = NoTask],
           UNCHANGED <<containers, crossed>>, DOMAIN settled' = DSites, DOMAIN vhostPort' = DSites
    PROVE  /\ DockerTypeOK' /\ OneTask' /\ RanHere'
           /\ \A s \in DSites : s # tasks[t].site => Busy(s)' = Busy(s)
<1>1. TaskWrite(t, NoTask) /\ NoTask.pc = "none"
  BY DEF TaskWrite, NoTask, TaskFields
<1>2. /\ DOMAIN tasks' = DTasks /\ tasks'[t].pc = "none"
      /\ \A u \in DTasks \ {t} : tasks'[u] = tasks[u]
      /\ \A u \in DTasks : DOMAIN tasks'[u] = TaskFields
  <2>1. PICK row : row = NoTask
    OBVIOUS
  <2>2. TaskWrite(t, row) /\ row.pc = "none"
    BY <1>1, <2>1
  <2>3. QED
    BY <2>2, TaskWriteEffect
<1>3. DockerTypeOK'
  BY <1>2 DEF DockerInv, DockerTypeOK, Working
<1>4. OneTask'
  BY <1>2 DEF DockerInv, OneTask, Working
<1>5. RanHere'
  BY <1>2 DEF DockerInv, RanHere, Publishes
<1>6. ASSUME NEW s \in DSites, s # tasks[t].site PROVE Busy(s)' = Busy(s)
  BY <1>2, <1>6 DEF Busy
<1>7. QED
  BY <1>3, <1>4, <1>5, <1>6

(* The vhost is told what the container publishes. *)
LEMMA WriteVhostKeeps ==
    ASSUME DockerInv, NEW t \in DTasks, WriteVhost(t)
    PROVE  DockerInv'
<1>1. Working(t) /\ tasks[t].pc = "vhost" /\ tasks[t].site \in DSites
  BY DEF WriteVhost, InTask, Working, DockerInv, DockerTypeOK
<1>2. PICK z \in DSites : z = tasks[t].site
  BY <1>1
<1>3. PICK n, host : n = tasks[t].name /\ host = tasks[t].host
  OBVIOUS
<1>4. vhostPort' = [vhostPort EXCEPT ![z] = host] /\ settled' = [settled EXCEPT ![z] = n]
  BY <1>2, <1>3 DEF WriteVhost, ProxyPass
<1>5. /\ DOMAIN settled' = DSites /\ DOMAIN vhostPort' = DSites
      /\ vhostPort'[z] = host /\ settled'[z] = n
      /\ \A s \in DSites \ {z} : vhostPort'[s] = vhostPort[s] /\ settled'[s] = settled[s]
  BY <1>4 DEF DockerInv, DockerTypeOK
<1>6. /\ DockerTypeOK' /\ OneTask' /\ RanHere'
      /\ \A s \in DSites : s # tasks[t].site => Busy(s)' = Busy(s)
  BY <1>1, <1>5, TaskEndsEffect DEF WriteVhost
<1>7. UNCHANGED <<containers, crossed>>
  BY DEF WriteVhost
<1>8. Settled'
  <2> SUFFICES ASSUME NEW s \in DSites, ~Busy(s)', s \notin crossed
               PROVE  Publishes(settled[s], s, vhostPort[s])'
    BY <1>7 DEF Settled
  <2>1. CASE s = z
    <3>1. Publishes(n, s, host)
      BY <1>1, <1>2, <1>3, <2>1 DEF DockerInv, RanHere
    <3>2. QED
      BY <1>5, <1>7, <2>1, <3>1 DEF Publishes
  <2>2. CASE s # z
    <3>1. Publishes(settled[s], s, vhostPort[s])
      BY <1>2, <1>6, <2>2 DEF DockerInv, Settled
    <3>2. QED
      BY <1>5, <1>7, <2>2, <3>1 DEF Publishes
  <2>3. QED
    BY <2>1, <2>2
<1>9. QED
  BY <1>6, <1>8 DEF DockerInv

(* A site whose task is given up counts as not settled. *)
LEMMA GiveUpKeeps ==
    ASSUME DockerInv, NEW t \in DTasks, GiveUp(t)
    PROVE  DockerInv'
<1>1. Working(t) /\ tasks[t].site \in DSites
  BY DEF GiveUp, InTask, Working, DockerInv, DockerTypeOK
<1>2. PICK z \in DSites : z = tasks[t].site
  BY <1>1
<1>3. settled' = [settled EXCEPT ![z] = ""] /\ UNCHANGED vhostPort
  BY <1>2 DEF GiveUp
<1>4. /\ DOMAIN settled' = DSites /\ DOMAIN vhostPort' = DSites /\ settled'[z] = ""
      /\ \A s \in DSites \ {z} : settled'[s] = settled[s]
  BY <1>3 DEF DockerInv, DockerTypeOK
<1>5. /\ DockerTypeOK' /\ OneTask' /\ RanHere'
      /\ \A s \in DSites : s # tasks[t].site => Busy(s)' = Busy(s)
  BY <1>1, <1>4, TaskEndsEffect DEF GiveUp
<1>6. UNCHANGED <<containers, crossed>> /\ "" \notin DOMAIN containers
  BY DEF GiveUp, DockerInv, DockerTypeOK
<1>7. Settled'
  <2> SUFFICES ASSUME NEW s \in DSites, ~Busy(s)', s \notin crossed
               PROVE  Publishes(settled[s], s, vhostPort[s])'
    BY <1>6 DEF Settled
  <2>1. CASE s = z
    BY <1>4, <1>6, <2>1 DEF Publishes
  <2>2. CASE s # z
    <3>1. Publishes(settled[s], s, vhostPort[s])
      BY <1>2, <1>5, <2>2 DEF DockerInv, Settled
    <3>2. QED
      BY <1>3, <1>4, <1>6, <2>2, <3>1 DEF Publishes
  <2>3. QED
    BY <2>1, <2>2
<1>8. QED
  BY <1>5, <1>7 DEF DockerInv

(* A task is submitted: if its site has another one, the two count as
   overlapping from then on. *)
LEMMA SubmitKeeps ==
    ASSUME DockerInv, NEW t \in DTasks, NEW s \in DSites, NEW name, name # "", NEW lang, NEW bitnami, NEW port,
           Submit(t, s, name, lang, bitnami, port), UNCHANGED <<containers, vhostPort, settled>>
    PROVE  DockerInv'
<1>1. PICK row : row = [NoTask EXCEPT !.pc = "files", !.site = s, !.lang = lang,
                                      !.bitnami = bitnami, !.port = port, !.name = name]
  OBVIOUS
<1>2. DOMAIN row = TaskFields /\ row.pc = "files" /\ row.site = s /\ row.name = name
  BY <1>1 DEF NoTask, TaskFields
<1>3. TaskWrite(t, row)
  BY <1>1, <1>2 DEF Submit, TaskWrite
<1>4. /\ DOMAIN tasks' = DTasks /\ tasks'[t] = row
      /\ \A u \in DTasks \ {t} : tasks'[u] = tasks[u]
      /\ \A u \in DTasks : DOMAIN tasks'[u] = TaskFields
  BY <1>3, TaskWriteEffect
<1>5. crossed \subseteq crossed' /\ (Busy(s) => s \in crossed')
  BY DEF Submit
<1>6. DockerTypeOK'
  BY <1>2, <1>4 DEF DockerInv, DockerTypeOK, Working
<1>7. OneTask'
  <2> SUFFICES ASSUME NEW v \in DTasks, NEW u \in DTasks, tasks'[v].pc # "none", tasks'[u].pc # "none",
                      tasks'[v].site = tasks'[u].site, tasks'[v].site \notin crossed'
               PROVE  v = u
    BY DEF OneTask, Working
  <2>1. CASE v # t /\ u # t
    BY <1>4, <1>5, <2>1 DEF DockerInv, OneTask, Working
  <2>2. ASSUME NEW x \in DTasks \ {t}, tasks'[x].pc # "none", tasks'[x].site = s
        PROVE  s \in crossed'
    BY <1>4, <1>5, <2>2 DEF Busy
  <2>3. QED
    BY <1>2, <1>4, <2>1, <2>2
<1>8. RanHere'
  BY <1>2, <1>4, <1>5 DEF DockerInv, RanHere, Publishes
<1>9. Settled'
  <2> SUFFICES ASSUME NEW z \in DSites, ~Busy(z)', z \notin crossed'
               PROVE  Publishes(settled[z], z, vhostPort[z])'
    BY DEF Settled
  <2>1. ~Busy(z)
    <3>1. tasks[t] = NoTask /\ NoTask.pc = "none"
      <4>1. NoTask.pc = "none"
        BY DEF NoTask
      <4>2. QED
        BY <4>1 DEF Submit
    <3>2. QED
      BY <1>4, <3>1 DEF Busy
  <2>2. Publishes(settled[z], z, vhostPort[z])
    BY <1>5, <2>1 DEF DockerInv, Settled
  <2>3. QED
    BY <2>2 DEF Publishes
<1>10. QED
  BY <1>6, <1>7, <1>8, <1>9 DEF DockerInv

(* A deleted site is not settled. *)
LEMMA SiteDeleteKeeps ==
    ASSUME DockerInv, NEW z \in DSites, siteDelete(z)
    PROVE  DockerInv'
<1>1. /\ DOMAIN settled' = DSites /\ DOMAIN vhostPort' = DSites /\ settled'[z] = ""
      /\ \A s \in DSites \ {z} : settled'[s] = settled[s] /\ vhostPort'[s] = vhostPort[s]
  BY DEF siteDelete, DockerInv, DockerTypeOK
<1>2. UNCHANGED <<containers, tasks>> /\ crossed \subseteq crossed' /\ "" \notin DOMAIN containers
  BY DEF siteDelete, DockerInv, DockerTypeOK
<1>3. DockerTypeOK'
  BY <1>1, <1>2 DEF DockerInv, DockerTypeOK, Working
<1>4. OneTask' /\ RanHere'
  BY <1>2 DEF DockerInv, OneTask, RanHere, Working, Publishes
<1>5. Settled'
  <2> SUFFICES ASSUME NEW s \in DSites, ~Busy(s)', s \notin crossed'
               PROVE  Publishes(settled[s], s, vhostPort[s])'
    BY DEF Settled
  <2>1. CASE s = z
    BY <1>1, <1>2, <2>1 DEF Publishes
  <2>2. CASE s # z
    <3>1. Publishes(settled[s], s, vhostPort[s])
      BY <1>2 DEF DockerInv, Settled, Busy
    <3>2. QED
      BY <1>1, <1>2, <2>2, <3>1 DEF Publishes
  <2>3. QED
    BY <2>1, <2>2
<1>6. QED
  BY <1>3, <1>4, <1>5 DEF DockerInv

(* What administrators do to containers. *)
LEMMA ByHandKeeps ==
    ASSUME DockerInv,
           \/ \E n \in DOMAIN containers : \/ dockerContainerStart(n) \/ dockerContainerStop(n)
                                           \/ \E force \in BOOLEAN : dockerContainerRemove(n, force)
           \/ \E p \in AutoPorts, start \in BOOLEAN : dockerContainerCreate("own", p, start)
    PROVE  DockerInv'
<1>1. UNCHANGED <<vhostPort, tasks, settled, crossed>>
  BY DEF dockerContainerStart, dockerContainerStop, dockerContainerRemove, dockerContainerCreate
<1>2. ASSUME NEW n \in DOMAIN containers, NEW up, containers' = [containers EXCEPT ![n].up = up]
      PROVE  OldOrOwn
  BY <1>2 DEF OldOrOwn, DockerInv, DockerTypeOK
<1>3. ASSUME NEW n \in DOMAIN containers, dockerContainerStart(n) \/ dockerContainerStop(n)
      PROVE  OldOrOwn
  <2>1. PICK up : containers' = [containers EXCEPT ![n].up = up]
    <3>1. CASE dockerContainerStop(n)
      BY <3>1 DEF dockerContainerStop
    <3>2. CASE dockerContainerStart(n)
      <4>1. PICK up : up = (containers[n].up \/ isPortAvailable(containers[n].host))
        OBVIOUS
      <4>2. containers' = [containers EXCEPT ![n].up = up]
        BY <3>2, <4>1 DEF dockerContainerStart
      <4>3. QED
        BY <4>2
    <3>3. QED
      BY <1>3, <3>1, <3>2
  <2>2. QED
    BY <1>2, <2>1
<1>4. ASSUME NEW n \in DOMAIN containers, NEW force \in BOOLEAN, dockerContainerRemove(n, force)
      PROVE  OldOrOwn
  <2>1. CASE containers' = Without(n)
    BY <2>1, WithoutKeepsOld
  <2>2. CASE UNCHANGED containers
    BY <2>2 DEF OldOrOwn, DockerInv, DockerTypeOK
  <2>3. QED
    BY <1>4, <2>1, <2>2 DEF dockerContainerRemove
<1>5. ASSUME NEW p \in AutoPorts, NEW start \in BOOLEAN, dockerContainerCreate("own", p, start)
      PROVE  OldOrOwn
  <2>1. PICK c : c = [site |-> 0, host |-> p, lang |-> "static", up |-> start /\ isPortAvailable(p)]
    OBVIOUS
  <2>2. containers' = With("own", c)
    BY <1>5, <2>1 DEF dockerContainerCreate
  <2>3. DOMAIN c = {"site", "host", "lang", "up"} /\ c.site = 0
    BY <2>1
  <2>4. QED
    BY <2>2, <2>3 DEF With, OldOrOwn, DockerInv, DockerTypeOK
<1>6. OldOrOwn
  BY <1>3, <1>4, <1>5
<1>7. QED
  BY <1>1, <1>6, ByHandStep

(* Every step keeps the invariant. *)
LEMMA DockerKeeps ==
    ASSUME DockerInv, [ContainersNext]_dockerVars
    PROVE  DockerInv'
<1>1. ASSUME NEW t \in DTasks, NEW s \in DSites, NEW q \in DRequests, siteCreate(t, s, q)
      PROVE  DockerInv'
  <2>1. PICK name : name = IF q.name # "" THEN q.name ELSE SiteName[s]
    OBVIOUS
  <2>2. name # ""
    BY <2>1, ContainersAssumption
  <2>3. Submit(t, s, name, q.lang, q.bitnami, q.port) /\ UNCHANGED <<containers, vhostPort, settled>>
    BY <1>1, <2>1 DEF siteCreate
  <2>4. QED
    BY <2>2, <2>3, SubmitKeeps
<1>2. ASSUME NEW t \in DTasks, NEW s \in DSites, appUpdateConfig(t, s)
      PROVE  DockerInv'
  <2>1. SiteName[s] # ""
    BY ContainersAssumption
  <2>2. QED
    BY <1>2, <2>1, SubmitKeeps DEF appUpdateConfig
<1>3. CASE UNCHANGED dockerVars
  <2>1. UNCHANGED <<containers, vhostPort, tasks, settled, crossed>>
    BY <1>3 DEF dockerVars
  <2>2. OldOrOwn
    BY <2>1 DEF OldOrOwn, DockerInv, DockerTypeOK
  <2>3. QED
    BY <2>1, <2>2, ByHandStep
<1>4. QED
  BY <1>1, <1>2, <1>3, OnTheWayKeeps, DockerRunKeeps, WriteVhostKeeps, GiveUpKeeps, SiteDeleteKeeps, ByHandKeeps
  DEF ContainersNext

(* Only sites have rows. *)
LEMMA RowsAreSites ==
    ASSUME dockerRows \subseteq DSites, [ContainersNext]_dockerVars
    PROVE  (dockerRows \subseteq DSites)'
  BY DEF ContainersNext, dockerVars, siteCreate, appUpdateConfig, HelloFiles, Pull, PullFails, RemoveExisting,
         ChoosePort, DockerRun, WriteVhost, NginxTestFails, TaskCut, Retry, GiveUp, siteDelete,
         dockerContainerStart, dockerContainerStop, dockerContainerRemove, dockerContainerCreate

(* For any number of docker sites and tasks, with names that need not be
   unique: once the last task of a site succeeded and none overlapped another,
   its vhost passes to what its own container publishes, on the port its
   program listens on, although the port is looked up before docker run uses
   it and containers are removed and made by hand and by other sites' tasks. *)
THEOREM ServedByOwnHolds == ContainersSpec => []ServedByOwn
<1>1. ContainersInit => DockerInv
  BY DockerInitial
<1>2. DockerInv /\ [ContainersNext]_dockerVars => DockerInv'
  BY DockerKeeps
<1>3. ContainersInit => dockerRows \subseteq DSites
  BY DEF ContainersInit
<1>4. dockerRows \subseteq DSites /\ [ContainersNext]_dockerVars => (dockerRows \subseteq DSites)'
  BY RowsAreSites
<1>5. DockerInv /\ dockerRows \subseteq DSites => ServedByOwn
  <2>1. \A lang : dockerContainerPort(lang) = Listens(lang)
    BY DEF dockerContainerPort, Listens
  <2>2. DockerInv => \A s \in DSites : ~Busy(s) /\ s \notin crossed => Publishes(settled[s], s, vhostPort[s])
    BY DEF DockerInv, Settled
  <2>3. QED
    BY <2>1, <2>2 DEF ServedByOwn, Publishes
<1>6. QED
  BY <1>1, <1>2, <1>3, <1>4, <1>5, PTL DEF ContainersSpec

-----------------------------------------------------------------------------
(* SSH users *)

SshFields == {"pc", "op", "name", "row", "at", "lines", "list"}
SshShape(row) == DOMAIN row = SshFields /\ row.name \in Names

\* The site is mounted into a jail and listed for it once at most, and not at
\* all without the user.
JailInv(users, m, f) ==
    \A n \in Names :
        /\ m[n]["site"] \in {0, 1} /\ f[<<n, "site">>] \in {0, 1}
        /\ n \notin users => m[n]["site"] = 0 /\ f[<<n, "site">>] = 0

\* What holds while a request stands at a place: no mount and no line of the
\* site before its turn comes, none of them when the user is deleted.
SshAt(row, users, m, f) ==
    /\ row.pc = "mount" => /\ row.name \in users /\ row.at \in DOMAIN Dirs
                           /\ m[row.name]["site"] = 0 /\ f[<<row.name, "site">>] = 0
    /\ row.pc = "fstab" => /\ row.name \in users /\ row.at \in DOMAIN Dirs /\ row.lines = f
                           /\ f[<<row.name, "site">>] = 0
                           /\ row.at # Len(Dirs) => m[row.name]["site"] = 0
    /\ row.pc = "unfstab" => row.lines = f
    /\ row.pc = "umount" => f[<<row.name, "site">>] = 0
    /\ row.pc = "userdel" => f[<<row.name, "site">>] = 0 /\ m[row.name]["site"] = 0

OneRequest == \A q, r \in SshRequests : sshReq[q] # NoOne /\ sshReq[r] # NoOne => q = r
SshReqInv ==
    /\ DOMAIN sshReq = SshRequests /\ OneRequest
    /\ \A r \in SshRequests : SshShape(sshReq[r]) /\ SshAt(sshReq[r], passwd, mounts, fstab)
RowNames == \A i \in DOMAIN rows : rows[i] \in Names \cup {NoRow}
JailShape(m, f) ==
    /\ DOMAIN m = Names /\ \A n \in Names : DOMAIN m[n] = DirSet
    /\ DOMAIN f = Lines
SshLoneInv == JailShape(mounts, fstab) /\ JailInv(passwd, mounts, fstab) /\ RowNames /\ SshReqInv /\ siteFiles

SshInv == sshAlone => SshLoneInv

-----------------------------------------------------------------------------
LEMMA SiteIsLast ==
    /\ "site" \in DirSet /\ Len(Dirs) \in DOMAIN Dirs /\ 1 \in DOMAIN Dirs
    /\ \A n \in Names : <<n, "site">> \in Lines
    /\ \A i \in DOMAIN Dirs : Dirs[i] \in DirSet /\ (i # Len(Dirs) => i + 1 \in DOMAIN Dirs)
<1>1. Len(Dirs) \in Nat /\ Len(Dirs) # 0 /\ DOMAIN Dirs = 1..Len(Dirs)
  BY SshAssumption
<1>2. Len(Dirs) \in DOMAIN Dirs /\ 1 \in DOMAIN Dirs
  BY <1>1
<1>3. Dirs[Len(Dirs)] = "site"
  BY <1>2, SshAssumption
<1>4. "site" \in DirSet
  BY <1>2, <1>3 DEF DirSet
<1>5. \A i \in DOMAIN Dirs : Dirs[i] \in DirSet /\ (i # Len(Dirs) => i + 1 \in DOMAIN Dirs)
  BY <1>1 DEF DirSet
<1> QED BY <1>2, <1>4, <1>5 DEF Lines

LEMMA NoOneRow ==
    /\ SshShape(NoOne) /\ NoOne.pc = "idle"
    /\ \A users, m, f : SshAt(NoOne, users, m, f)
<1>1. (CHOOSE n \in Names : TRUE) \in Names
  BY SshAssumption
<1>2. SshShape(NoOne) /\ NoOne.pc = "idle"
  BY <1>1 DEF NoOne, SshShape, SshFields
<1> QED BY <1>2 DEF SshAt

LEMMA SshInitInv == SshInit => SshInv
<1> SUFFICES ASSUME SshInit PROVE SshLoneInv
  BY DEF SshInv
<1>1. JailShape(mounts, fstab) /\ JailInv(passwd, mounts, fstab)
  BY SiteIsLast DEF SshInit, JailShape, JailInv, NoLines
<1>2. RowNames
  BY DEF SshInit, RowNames
<1>3. SshReqInv /\ siteFiles
  BY NoOneRow DEF SshInit, SshReqInv, OneRequest
<1> QED BY <1>1, <1>2, <1>3 DEF SshLoneInv

\* The request in hand is the only one.
LEMMA LoneMoves ==
    ASSUME SshLoneInv, NEW r \in SshRequests, sshReq[r] # NoOne, NEW row, sshReq' = [sshReq EXCEPT ![r] = row],
           SshShape(row), SshAt(row, passwd', mounts', fstab')
    PROVE  SshReqInv'
<1>1. \A q \in SshRequests \ {r} : sshReq[q] = NoOne
  BY DEF SshLoneInv, SshReqInv, OneRequest
<1>2. DOMAIN sshReq' = SshRequests /\ \A q \in SshRequests : sshReq'[q] = IF q = r THEN row ELSE NoOne
  BY <1>1 DEF SshLoneInv, SshReqInv
<1>3. OneRequest'
  BY <1>2 DEF OneRequest
<1> QED BY <1>2, <1>3, NoOneRow DEF SshReqInv

LEMMA LoneEnds ==
    ASSUME SshLoneInv, NEW r \in SshRequests, sshReq[r] # NoOne, Done(r)
    PROVE  SshReqInv'
  BY LoneMoves, NoOneRow DEF Done

\* A request moves on, its name kept.
LEMMA LoneGoes ==
    ASSUME SshLoneInv, NEW r \in SshRequests, sshReq[r] # NoOne, NEW pc, Step(r, pc),
           LET n == sshReq[r].name IN
           /\ pc \notin {"mount", "fstab", "unfstab"}
           /\ pc = "umount" => fstab'[<<n, "site">>] = 0
           /\ pc = "userdel" => fstab'[<<n, "site">>] = 0 /\ mounts'[n]["site"] = 0
    PROVE  SshReqInv'
<1>1. PICK row : row = [sshReq[r] EXCEPT !.pc = pc]
  OBVIOUS
<1>2. SshShape(sshReq[r])
  BY DEF SshLoneInv, SshReqInv
<1>3. SshShape(row) /\ row.pc = pc /\ row.name = sshReq[r].name
  BY <1>1, <1>2 DEF SshShape, SshFields
<1>4. SshAt(row, passwd', mounts', fstab')
  BY <1>3 DEF SshAt
<1>5. sshReq' = [sshReq EXCEPT ![r] = row]
  BY <1>1 DEF Step
<1> QED BY <1>3, <1>4, <1>5, LoneMoves

LEMMA LoneBegins ==
    ASSUME SshLoneInv, NEW r \in SshRequests, NEW new, Begin(r, new), sshAlone', SshShape(new),
           new.pc \in {"useradd", "deprovision"}
    PROVE  SshReqInv'
<1>1. \A q \in SshRequests : sshReq[q] = NoOne
  BY DEF Begin
<1>2. DOMAIN sshReq' = SshRequests /\ \A q \in SshRequests : sshReq'[q] = IF q = r THEN new ELSE NoOne
  BY <1>1 DEF Begin, SshLoneInv, SshReqInv
<1>3. OneRequest'
  BY <1>2 DEF OneRequest
<1>4. SshAt(new, passwd', mounts', fstab')
  BY DEF SshAt
<1> QED BY <1>2, <1>3, <1>4, NoOneRow DEF SshReqInv

\* The Linux side stays.
LinuxStays == UNCHANGED <<passwd, mounts, fstab, siteFiles>>
LEMMA LinuxKept ==
    ASSUME SshLoneInv, LinuxStays, RowNames', SshReqInv'
    PROVE  SshLoneInv'
  BY DEF SshLoneInv, LinuxStays

-----------------------------------------------------------------------------
(* One lemma for each action: requests that do not overlap keep the invariant. *)

LEMMA createSshFtpInv ==
    ASSUME SshLoneInv, sshAlone', NEW r \in SshRequests, NEW n \in Names, createSshFtp(r, n) PROVE SshLoneInv'
<1>1. PICK new : new = [NoOne EXCEPT !.op = "create", !.pc = "useradd", !.name = n]
  OBVIOUS
<1>2. SshShape(new) /\ new.pc = "useradd"
  BY <1>1, NoOneRow DEF SshShape, SshFields
<1>3. Begin(r, new) /\ LinuxStays /\ rows' = rows
  BY <1>1 DEF createSshFtp, linux, sshDb, LinuxStays
<1>4. SshReqInv'
  BY <1>2, <1>3, LoneBegins
<1>5. RowNames'
  BY <1>3 DEF RowNames, SshLoneInv
<1> QED BY <1>3, <1>4, <1>5, LinuxKept

LEMMA deleteSshFtpInv ==
    ASSUME SshLoneInv, sshAlone', NEW r \in SshRequests, NEW i \in Rows, deleteSshFtp(r, i) PROVE SshLoneInv'
<1>1. PICK new : new = [NoOne EXCEPT !.op = "delete", !.pc = "deprovision", !.name = rows[i], !.row = i]
  OBVIOUS
<1>2. rows[i] \in Names
  BY DEF Rows, SshLoneInv, RowNames
<1>3. SshShape(new) /\ new.pc = "deprovision"
  BY <1>1, <1>2, NoOneRow DEF SshShape, SshFields
<1>4. Begin(r, new) /\ LinuxStays /\ rows' = rows
  BY <1>1 DEF deleteSshFtp, linux, sshDb, LinuxStays
<1>5. SshReqInv'
  BY <1>3, <1>4, LoneBegins
<1>6. RowNames'
  BY <1>4 DEF RowNames, SshLoneInv
<1> QED BY <1>4, <1>5, <1>6, LinuxKept

LEMMA InHand ==
    ASSUME SshLoneInv, NEW r \in SshRequests, sshReq[r].pc # "idle"
    PROVE  /\ sshReq[r] # NoOne /\ SshShape(sshReq[r]) /\ sshReq[r].name \in Names
           /\ SshAt(sshReq[r], passwd, mounts, fstab)
  BY NoOneRow DEF SshLoneInv, SshReqInv, SshShape

LEMMA UseraddInv == ASSUME SshLoneInv, NEW r \in SshRequests, Useradd(r) PROVE SshLoneInv'
<1>1. /\ sshReq[r].pc = "useradd" /\ mounts' = mounts /\ fstab' = fstab /\ siteFiles' = siteFiles /\ rows' = rows
  BY DEF Useradd, Serving, sshDb
<1>2. sshReq[r] # NoOne /\ SshShape(sshReq[r]) /\ sshReq[r].name \in Names
  BY <1>1, InHand
<1>3. RowNames'
  BY <1>1 DEF RowNames, SshLoneInv
<1>4. CASE sshReq[r].name \in passwd
  <2>1. Done(r) /\ LinuxStays
    BY <1>1, <1>4 DEF Useradd, LinuxStays
  <2> QED BY <1>2, <1>3, <2>1, LoneEnds, LinuxKept
<1>5. CASE sshReq[r].name \notin passwd
  <2>1. /\ passwd' = passwd \cup {sshReq[r].name}
        /\ sshReq' = [sshReq EXCEPT ![r].pc = "mount", ![r].at = 1]
    BY <1>5 DEF Useradd
  <2>2. PICK row : row = [sshReq[r] EXCEPT !.pc = "mount", !.at = 1]
    OBVIOUS
  <2>3. SshShape(row) /\ row.pc = "mount" /\ row.at = 1 /\ row.name = sshReq[r].name
    BY <1>2, <2>2 DEF SshShape, SshFields
  <2>4. mounts[row.name]["site"] = 0 /\ fstab[<<row.name, "site">>] = 0
    BY <1>2, <1>5, <2>3 DEF SshLoneInv, JailInv
  <2>5. SshAt(row, passwd', mounts', fstab')
    BY <1>1, <2>1, <2>3, <2>4, SiteIsLast DEF SshAt
  <2>6. SshReqInv'
    <3>1. sshReq' = [sshReq EXCEPT ![r] = row]
      BY <2>1, <2>2
    <3> QED BY <1>2, <2>3, <2>5, <3>1, LoneMoves
  <2>7. JailInv(passwd', mounts', fstab')
    BY <1>1, <2>1 DEF SshLoneInv, JailInv
  <2> QED BY <1>1, <1>3, <2>6, <2>7 DEF SshLoneInv, JailShape
<1> QED BY <1>4, <1>5

LEMMA MkdirInv == ASSUME SshLoneInv, NEW r \in SshRequests, Mkdir(r) PROVE SshLoneInv'
<1>1. sshReq[r].pc = "mount" /\ Done(r) /\ LinuxStays /\ rows' = rows
  BY DEF Mkdir, Serving, sshDb, linux, LinuxStays
<1>2. sshReq[r] # NoOne
  BY <1>1, InHand
<1>3. RowNames'
  BY <1>1 DEF RowNames, SshLoneInv
<1> QED BY <1>1, <1>2, <1>3, LoneEnds, LinuxKept

LEMMA MountInv == ASSUME SshLoneInv, NEW r \in SshRequests, Mount(r) PROVE SshLoneInv'
<1>1. /\ sshReq[r].pc = "mount" /\ passwd' = passwd /\ fstab' = fstab /\ siteFiles' = siteFiles /\ rows' = rows
      /\ mounts' = [mounts EXCEPT ![sshReq[r].name][Dir(r)] = @ + 1]
      /\ sshReq' = [sshReq EXCEPT ![r].pc = "fstab", ![r].lines = fstab]
  BY DEF Mount, Serving, sshDb
<1>2. sshReq[r] # NoOne /\ SshShape(sshReq[r]) /\ sshReq[r].name \in Names /\ SshAt(sshReq[r], passwd, mounts, fstab)
  BY <1>1, InHand
<1>3. PICK n, d : n = sshReq[r].name /\ d = Dir(r)
  OBVIOUS
<1>4. n \in Names /\ n \in passwd /\ sshReq[r].at \in DOMAIN Dirs /\ d = Dirs[sshReq[r].at] /\ d \in DirSet
      /\ mounts[n]["site"] = 0 /\ fstab[<<n, "site">>] = 0
  BY <1>1, <1>2, <1>3, SiteIsLast DEF SshAt, Dir
<1>5. d = "site" <=> sshReq[r].at = Len(Dirs)
  BY <1>4, SshAssumption
<1>6. /\ DOMAIN mounts' = Names
      /\ \A x \in Names : DOMAIN mounts'[x] = DirSet
      /\ \A x \in Names : mounts'[x]["site"] = IF x = n /\ d = "site" THEN 1 ELSE mounts[x]["site"]
  <2>1. mounts' = [mounts EXCEPT ![n][d] = @ + 1]
    BY <1>1, <1>3
  <2>2. DOMAIN mounts = Names /\ \A x \in Names : DOMAIN mounts[x] = DirSet
    BY DEF SshLoneInv, JailShape
  <2>3. PICK jail : jail = [mounts[n] EXCEPT ![d] = @ + 1]
    OBVIOUS
  <2>4. DOMAIN jail = DirSet /\ jail["site"] = IF d = "site" THEN 1 ELSE mounts[n]["site"]
    BY <1>4, <2>2, <2>3, SiteIsLast
  <2>5. mounts' = [mounts EXCEPT ![n] = jail]
    BY <2>1, <2>3
  <2> QED BY <1>4, <2>2, <2>4, <2>5
<1>7. JailShape(mounts', fstab') /\ JailInv(passwd', mounts', fstab')
  BY <1>1, <1>4, <1>6 DEF SshLoneInv, JailShape, JailInv
<1>8. PICK row : row = [sshReq[r] EXCEPT !.pc = "fstab", !.lines = fstab]
  OBVIOUS
<1>9. /\ SshShape(row) /\ row.pc = "fstab" /\ row.lines = fstab /\ row.name = n /\ row.at = sshReq[r].at
  BY <1>2, <1>3, <1>8 DEF SshShape, SshFields
<1>10. SshAt(row, passwd', mounts', fstab')
  BY <1>1, <1>4, <1>5, <1>6, <1>9 DEF SshAt
<1>11. SshReqInv'
  <2>1. sshReq' = [sshReq EXCEPT ![r] = row]
    BY <1>1, <1>8
  <2> QED BY <1>2, <1>9, <1>10, <2>1, LoneMoves
<1> QED BY <1>1, <1>7, <1>11 DEF SshLoneInv, RowNames

LEMMA writeFstabInv == ASSUME SshLoneInv, NEW r \in SshRequests, writeFstab(r) PROVE SshLoneInv'
<1>1. /\ sshReq[r].pc = "fstab" /\ passwd' = passwd /\ mounts' = mounts /\ siteFiles' = siteFiles /\ rows' = rows
      /\ fstab' = [sshReq[r].lines EXCEPT ![<<sshReq[r].name, Dir(r)>>] = @ + 1]
  BY DEF writeFstab, Serving, sshDb
<1>2. sshReq[r] # NoOne /\ SshShape(sshReq[r]) /\ sshReq[r].name \in Names /\ SshAt(sshReq[r], passwd, mounts, fstab)
  BY <1>1, InHand
<1>3. PICK n, d : n = sshReq[r].name /\ d = Dir(r)
  OBVIOUS
<1>4. n \in Names /\ n \in passwd /\ sshReq[r].at \in DOMAIN Dirs /\ d = Dirs[sshReq[r].at] /\ d \in DirSet
      /\ sshReq[r].lines = fstab /\ fstab[<<n, "site">>] = 0
      /\ (sshReq[r].at # Len(Dirs) => mounts[n]["site"] = 0)
  BY <1>1, <1>2, <1>3, SiteIsLast DEF SshAt, Dir
<1>5. d = "site" <=> sshReq[r].at = Len(Dirs)
  BY <1>4, SshAssumption
<1>6. /\ DOMAIN fstab' = Lines
      /\ \A x \in Names : fstab'[<<x, "site">>] = IF x = n /\ d = "site" THEN 1 ELSE fstab[<<x, "site">>]
  <2>1. fstab' = [fstab EXCEPT ![<<n, d>>] = @ + 1]
    BY <1>1, <1>3, <1>4
  <2>2. DOMAIN fstab = Lines /\ <<n, d>> \in Lines
    BY <1>4 DEF SshLoneInv, JailShape, Lines
  <2> QED BY <1>4, <2>1, <2>2, SiteIsLast
<1>7. JailShape(mounts', fstab') /\ JailInv(passwd', mounts', fstab')
  BY <1>1, <1>4, <1>6 DEF SshLoneInv, JailShape, JailInv
<1>8. PICK pc, at : /\ pc = (IF sshReq[r].at = Len(Dirs) THEN "insert" ELSE "mount")
                    /\ at = (IF sshReq[r].at = Len(Dirs) THEN 0 ELSE sshReq[r].at + 1)
  OBVIOUS
<1>9. PICK row : row = [sshReq[r] EXCEPT !.lines = NoLines, !.pc = pc, !.at = at]
  OBVIOUS
<1>10. SshShape(row) /\ row.pc = pc /\ row.at = at /\ row.name = n
  BY <1>2, <1>3, <1>9 DEF SshShape, SshFields
<1>11. SshAt(row, passwd', mounts', fstab')
  <2>1. CASE sshReq[r].at = Len(Dirs)
    BY <1>8, <1>10, <2>1 DEF SshAt
  <2>2. CASE sshReq[r].at # Len(Dirs)
    BY <1>1, <1>4, <1>5, <1>6, <1>8, <1>10, <2>2, SiteIsLast DEF SshAt
  <2> QED BY <2>1, <2>2
<1>12. SshReqInv'
  <2>1. sshReq' = [sshReq EXCEPT ![r] = row]
    BY <1>8, <1>9 DEF writeFstab
  <2> QED BY <1>2, <1>10, <1>11, <2>1, LoneMoves
<1> QED BY <1>1, <1>7, <1>12 DEF SshLoneInv, RowNames

LEMMA InsertRowInv == ASSUME SshLoneInv, NEW r \in SshRequests, InsertRow(r) PROVE SshLoneInv'
<1>1. sshReq[r].pc = "insert" /\ LinuxStays
  BY DEF InsertRow, Serving, linux, LinuxStays
<1>2. sshReq[r] # NoOne /\ sshReq[r].name \in Names
  BY <1>1, InHand
<1>3. RowNames'
  BY <1>2 DEF InsertRow, SshLoneInv, RowNames, sshDb
<1>4. SshReqInv'
  BY <1>2, LoneGoes DEF InsertRow
<1> QED BY <1>1, <1>3, <1>4, LinuxKept

LEMMA ReadLinesInv == ASSUME SshLoneInv, NEW r \in SshRequests, ReadLines(r) PROVE SshLoneInv'
<1>1. /\ sshReq[r].pc = "deprovision" /\ LinuxStays /\ rows' = rows
      /\ sshReq' = [sshReq EXCEPT ![r].pc = "unfstab", ![r].lines = fstab]
  BY DEF ReadLines, Serving, linux, sshDb, LinuxStays
<1>2. sshReq[r] # NoOne /\ SshShape(sshReq[r])
  BY <1>1, InHand
<1>3. PICK row : row = [sshReq[r] EXCEPT !.pc = "unfstab", !.lines = fstab]
  OBVIOUS
<1>4. SshShape(row) /\ row.pc = "unfstab" /\ row.lines = fstab
  BY <1>2, <1>3 DEF SshShape, SshFields
<1>5. SshAt(row, passwd', mounts', fstab')
  BY <1>1, <1>4 DEF SshAt, LinuxStays
<1>6. SshReqInv'
  <2>1. sshReq' = [sshReq EXCEPT ![r] = row]
    BY <1>1, <1>3
  <2> QED BY <1>2, <1>4, <1>5, <2>1, LoneMoves
<1> QED BY <1>1, <1>6, LinuxKept DEF RowNames, SshLoneInv

LEMMA RemoveLinesInv == ASSUME SshLoneInv, NEW r \in SshRequests, RemoveLines(r) PROVE SshLoneInv'
<1>1. /\ sshReq[r].pc = "unfstab" /\ passwd' = passwd /\ mounts' = mounts /\ siteFiles' = siteFiles /\ rows' = rows
      /\ fstab' = Filtered(sshReq[r].lines, sshReq[r].name)
      /\ sshReq' = [sshReq EXCEPT ![r].pc = "umount", ![r].lines = NoLines]
  BY DEF RemoveLines, Serving, sshDb
<1>2. sshReq[r] # NoOne /\ SshShape(sshReq[r]) /\ sshReq[r].name \in Names /\ SshAt(sshReq[r], passwd, mounts, fstab)
  BY <1>1, InHand
<1>3. PICK n : n = sshReq[r].name
  OBVIOUS
<1>4. fstab' = Filtered(fstab, n)
  BY <1>1, <1>2, <1>3 DEF SshAt
<1>5. /\ DOMAIN fstab' = Lines /\ fstab'[<<n, "site">>] = 0
      /\ \A x \in Names : fstab'[<<x, "site">>] \in {0, fstab[<<x, "site">>]}
  BY <1>2, <1>3, <1>4, SiteIsLast DEF Filtered
<1>6. JailShape(mounts', fstab') /\ JailInv(passwd', mounts', fstab')
  BY <1>1, <1>5 DEF SshLoneInv, JailShape, JailInv
<1>7. PICK row : row = [sshReq[r] EXCEPT !.pc = "umount", !.lines = NoLines]
  OBVIOUS
<1>8. SshShape(row) /\ row.pc = "umount" /\ row.name = n
  BY <1>2, <1>3, <1>7 DEF SshShape, SshFields
<1>9. SshAt(row, passwd', mounts', fstab')
  BY <1>5, <1>8 DEF SshAt
<1>10. SshReqInv'
  <2>1. sshReq' = [sshReq EXCEPT ![r] = row]
    BY <1>1, <1>7
  <2> QED BY <1>2, <1>8, <1>9, <2>1, LoneMoves
<1> QED BY <1>1, <1>6, <1>10 DEF SshLoneInv, RowNames

LEMMA UmountInv == ASSUME SshLoneInv, NEW r \in SshRequests, Umount(r) PROVE SshLoneInv'
<1>1. /\ sshReq[r].pc = "umount" /\ passwd' = passwd /\ fstab' = fstab /\ siteFiles' = siteFiles /\ rows' = rows
      /\ Step(r, "userdel")
  BY DEF Umount, Serving, sshDb
<1>2. sshReq[r] # NoOne /\ sshReq[r].name \in Names /\ SshAt(sshReq[r], passwd, mounts, fstab)
  BY <1>1, InHand
<1>3. PICK n : n = sshReq[r].name
  OBVIOUS
<1>4. PICK jail : jail = [d \in DirSet |-> IF mounts[n][d] = 0 THEN 0 ELSE mounts[n][d] - 1]
  OBVIOUS
<1>5. mounts' = [mounts EXCEPT ![n] = jail]
  BY <1>3, <1>4 DEF Umount
<1>6. mounts[n]["site"] \in {0, 1} /\ DOMAIN mounts = Names
  BY <1>2, <1>3 DEF SshLoneInv, JailInv, JailShape
<1>7. DOMAIN jail = DirSet /\ jail["site"] = 0
  BY <1>4, <1>6, SiteIsLast
<1>8. JailShape(mounts', fstab') /\ JailInv(passwd', mounts', fstab') /\ mounts'[n]["site"] = 0
  BY <1>1, <1>2, <1>3, <1>5, <1>6, <1>7 DEF SshLoneInv, JailShape, JailInv
<1>9. fstab'[<<n, "site">>] = 0
  BY <1>1, <1>2, <1>3 DEF SshAt
<1>10. SshReqInv'
  BY <1>1, <1>2, <1>3, <1>8, <1>9, LoneGoes
<1> QED BY <1>1, <1>8, <1>10 DEF SshLoneInv, RowNames

LEMMA UserdelInv == ASSUME SshLoneInv, NEW r \in SshRequests, Userdel(r) PROVE SshLoneInv'
<1>1. /\ sshReq[r].pc = "userdel" /\ mounts' = mounts /\ fstab' = fstab /\ rows' = rows
      /\ passwd' = passwd \ {sshReq[r].name}
      /\ siteFiles' = (siteFiles /\ (sshReq[r].name \in passwd => mounts[sshReq[r].name]["site"] = 0))
      /\ Done(r) \/ Step(r, "row")
  BY DEF Userdel, Serving, sshDb
<1>2. sshReq[r] # NoOne /\ sshReq[r].name \in Names /\ SshAt(sshReq[r], passwd, mounts, fstab)
  BY <1>1, InHand
<1>3. fstab[<<sshReq[r].name, "site">>] = 0 /\ mounts[sshReq[r].name]["site"] = 0
  BY <1>1, <1>2 DEF SshAt
<1>4. siteFiles'
  BY <1>1, <1>3 DEF SshLoneInv
<1>5. JailInv(passwd', mounts', fstab')
  BY <1>1, <1>3 DEF SshLoneInv, JailInv
<1>6. SshReqInv'
  BY <1>1, <1>2, LoneEnds, LoneGoes
<1> QED BY <1>1, <1>4, <1>5, <1>6 DEF SshLoneInv, RowNames, JailShape

LEMMA DeleteRowInv == ASSUME SshLoneInv, NEW r \in SshRequests, DeleteRow(r) PROVE SshLoneInv'
<1>1. sshReq[r].pc = "row" /\ LinuxStays /\ (Step(r, "list") \/ Done(r))
  BY DEF DeleteRow, Serving, linux, LinuxStays
<1>2. sshReq[r] # NoOne
  BY <1>1, InHand
<1>3. RowNames'
  BY DEF DeleteRow, SshLoneInv, RowNames
<1>4. SshReqInv'
  BY <1>1, <1>2, LoneGoes, LoneEnds
<1> QED BY <1>1, <1>3, <1>4, LinuxKept

LEMMA ListAllInv == ASSUME SshLoneInv, NEW r \in SshRequests, ListAll(r) PROVE SshLoneInv'
<1>1. /\ sshReq[r].pc = "list" /\ LinuxStays /\ rows' = rows
      /\ sshReq' = [sshReq EXCEPT ![r].pc = "config", ![r].list = {rows[i] : i \in Rows}]
  BY DEF ListAll, Serving, linux, sshDb, LinuxStays
<1>2. sshReq[r] # NoOne /\ SshShape(sshReq[r])
  BY <1>1, InHand
<1>3. PICK list : list = {rows[i] : i \in Rows}
  OBVIOUS
<1>4. PICK row : row = [sshReq[r] EXCEPT !.pc = "config", !.list = list]
  OBVIOUS
<1>5. SshShape(row) /\ row.pc = "config"
  BY <1>2, <1>4 DEF SshShape, SshFields
<1>6. SshAt(row, passwd', mounts', fstab')
  BY <1>5 DEF SshAt
<1>7. SshReqInv'
  <2>1. sshReq' = [sshReq EXCEPT ![r] = row]
    BY <1>1, <1>3, <1>4
  <2> QED BY <1>2, <1>5, <1>6, <2>1, LoneMoves
<1> QED BY <1>1, <1>7, LinuxKept DEF RowNames, SshLoneInv

LEMMA ConfigInv ==
    ASSUME SshLoneInv, NEW r \in SshRequests, WriteSshConfig(r) \/ Reload(r) PROVE SshLoneInv'
<1>1. sshReq[r].pc \in {"config", "reload"} /\ LinuxStays /\ rows' = rows /\ (Done(r) \/ Step(r, "reload"))
  BY DEF WriteSshConfig, Reload, Serving, linux, sshDb, LinuxStays
<1>2. sshReq[r] # NoOne
  BY <1>1, InHand
<1>3. SshReqInv'
  BY <1>1, <1>2, LoneGoes, LoneEnds
<1> QED BY <1>1, <1>3, LinuxKept DEF RowNames, SshLoneInv

LEMMA NoRequests ==
    ASSUME sshReq' = [r \in SshRequests |-> NoOne] PROVE SshReqInv'
  BY NoOneRow DEF SshReqInv, OneRequest

LEMMA SshCrashInv == ASSUME SshLoneInv, SshCrash PROVE SshLoneInv'
<1>1. LinuxStays /\ rows' = rows /\ SshReqInv'
  BY NoRequests DEF SshCrash, linux, sshDb, LinuxStays
<1> QED BY <1>1, LinuxKept DEF RowNames, SshLoneInv

LEMMA RebootInv == ASSUME SshLoneInv, Reboot PROVE SshLoneInv'
<1>1. passwd' = passwd /\ fstab' = fstab /\ siteFiles' = siteFiles /\ rows' = rows /\ SshReqInv'
  BY NoRequests DEF Reboot, sshDb
<1>2. mounts' = [n \in Names |-> [d \in DirSet |-> fstab[<<n, d>>]]]
  BY DEF Reboot
<1>3. JailShape(mounts', fstab') /\ \A n \in Names : mounts'[n]["site"] = fstab[<<n, "site">>]
  BY <1>1, <1>2, SiteIsLast DEF SshLoneInv, JailShape
<1>4. JailInv(passwd', mounts', fstab')
  BY <1>1, <1>3 DEF SshLoneInv, JailInv
<1> QED BY <1>1, <1>3, <1>4 DEF SshLoneInv, RowNames

LEMMA SshNextInv == SshInv /\ [SshNext]_sshVars => SshInv'
<1> SUFFICES ASSUME SshInv, [SshNext]_sshVars, sshAlone' PROVE SshLoneInv'
  BY DEF SshInv
<1>1. sshAlone
  BY DEF SshNext, sshVars, createSshFtp, deleteSshFtp, Begin, Useradd, Mkdir, Mount, writeFstab, InsertRow, ReadLines,
     RemoveLines, Umount, Userdel, DeleteRow, ListAll, WriteSshConfig, Reload, SshCrash, Reboot
<1>2. SshLoneInv
  BY <1>1 DEF SshInv
<1>3. ASSUME NEW r \in SshRequests,
             \/ \E n \in Names : createSshFtp(r, n)
             \/ \E i \in Rows : deleteSshFtp(r, i)
             \/ Useradd(r) \/ Mkdir(r) \/ Mount(r) \/ writeFstab(r) \/ InsertRow(r)
             \/ ReadLines(r) \/ RemoveLines(r) \/ Umount(r) \/ Userdel(r) \/ DeleteRow(r)
             \/ ListAll(r) \/ WriteSshConfig(r) \/ Reload(r)
      PROVE  SshLoneInv'
  BY <1>2, <1>3, createSshFtpInv, deleteSshFtpInv, UseraddInv, MkdirInv, MountInv, writeFstabInv, InsertRowInv,
     ReadLinesInv, RemoveLinesInv, UmountInv, UserdelInv, DeleteRowInv, ListAllInv, ConfigInv
<1>4. CASE SshCrash \/ Reboot
  BY <1>2, <1>4, SshCrashInv, RebootInv
<1>5. CASE UNCHANGED sshVars
  BY <1>2, <1>5 DEF sshVars, SshLoneInv, RowNames, SshReqInv, OneRequest
<1> QED BY <1>3, <1>4, <1>5 DEF SshNext

(* Removing an SSH user never removes the files of the site that is mounted
   in its home, across failures, crashes of the panel and reboots, as long as
   no two requests overlapped: userdel -r runs only when the site's bind
   mount is gone and no line of /etc/fstab would bring it back. *)
THEOREM SiteFilesKeptHolds == SshSpec => []SiteFilesKept
<1>1. SshInv => SiteFilesKept
  BY DEF SshInv, SshLoneInv, SiteFilesKept
<1> QED BY <1>1, SshInitInv, SshNextInv, PTL DEF SshSpec

-----------------------------------------------------------------------------
(* Files: nothing is lost that no request was told to overwrite or delete *)

Path == Seq(EntryNames)

\* What follows a prefix.
Rest(p, q) == SubSeq(q, Len(p) + 1, Len(q))

LEMMA PrefixRest ==
    ASSUME NEW S, NEW p \in Seq(S), NEW q \in Seq(S), IsPrefix(p, q)
    PROVE  Rest(p, q) \in Seq(S) /\ q = p \o Rest(p, q)
  <1>1. Len(p) \in Nat /\ Len(q) \in Nat /\ Len(p) <= Len(q) /\ \A i \in 1..Len(p) : p[i] = q[i]
    <2>1. SubSeq(p, 1, Len(p)) = SubSeq(q, 1, Len(p)) /\ Len(p) <= Len(q)
      BY DEF IsPrefix
    <2>2. \A i \in 1..Len(p) : SubSeq(p, 1, Len(p))[i] = p[i] /\ SubSeq(q, 1, Len(p))[i] = q[i]
      BY <2>1
    <2>3. QED
      BY <2>1, <2>2
  <1>2. Rest(p, q) \in Seq(S) /\ Len(Rest(p, q)) = Len(q) - Len(p)
    BY <1>1 DEF Rest
  <1>3. \A i \in 1..Len(q) - Len(p) : Rest(p, q)[i] = q[Len(p) + i]
    BY <1>1 DEF Rest
  <1>4. PICK t \in Seq(S) : t = Rest(p, q)
    BY <1>2
  <1>5. p \o t \in Seq(S) /\ Len(p \o t) = Len(q)
        /\ \A i \in 1..Len(q) : (p \o t)[i] = IF i <= Len(p) THEN p[i] ELSE t[i - Len(p)]
    BY <1>1, <1>2, <1>4, ConcatProperties
  <1>6. ASSUME NEW i \in 1..Len(q) PROVE (p \o t)[i] = q[i]
    <2>1. CASE i <= Len(p)
      BY <1>1, <1>5, <2>1
    <2>2. CASE i > Len(p)
      <3>1. i - Len(p) \in 1..Len(q) - Len(p) /\ Len(p) + (i - Len(p)) = i
        BY <1>1, <2>2
      <3>2. QED
        BY <1>1, <1>3, <1>4, <1>5, <2>2, <3>1
    <2>3. i <= Len(p) \/ i > Len(p)
      BY <1>1
    <2>4. QED
      BY <2>1, <2>2, <2>3
  <1>7. p \o t = q
    BY <1>5, <1>6, SeqEqual
  <1>8. QED
    BY <1>2, <1>4, <1>7

LEMMA PrefixOf ==
    ASSUME NEW S, NEW p \in Seq(S), NEW s \in Seq(S)
    PROVE  p \o s \in Seq(S) /\ IsPrefix(p, p \o s) /\ Rest(p, p \o s) = s
  <1>1. p \o s \in Seq(S) /\ Len(p \o s) = Len(p) + Len(s) /\ Len(p) \in Nat /\ Len(s) \in Nat
    OBVIOUS
  <1>2. \A i \in 1..Len(p) : (p \o s)[i] = p[i]
    OBVIOUS
  <1>3. \A i \in 1..Len(s) : (p \o s)[Len(p) + i] = s[i]
    OBVIOUS
  <1>4. IsPrefix(p, p \o s)
    <2>1. PICK q \in Seq(S) : q = p \o s
      BY <1>1
    <2>2. SubSeq(p, 1, Len(p)) \in Seq(S) /\ SubSeq(q, 1, Len(p)) \in Seq(S)
          /\ Len(SubSeq(p, 1, Len(p))) = Len(p) /\ Len(SubSeq(q, 1, Len(p))) = Len(p)
      BY <1>1, <2>1
    <2>3. \A i \in 1..Len(p) : SubSeq(p, 1, Len(p))[i] = SubSeq(q, 1, Len(p))[i]
      BY <1>1, <1>2, <2>1
    <2>4. SubSeq(p, 1, Len(p)) = SubSeq(q, 1, Len(p))
      BY <2>2, <2>3
    <2>5. QED
      BY <1>1, <2>1, <2>4 DEF IsPrefix
  <1>5. Rest(p, p \o s) = s
    <2>1. PICK q \in Seq(S) : q = p \o s
      BY <1>1
    <2>2. Rest(p, q) \in Seq(S) /\ Len(Rest(p, q)) = Len(s)
      BY <1>1, <2>1 DEF Rest
    <2>3. \A i \in 1..Len(s) : Rest(p, q)[i] = s[i]
      BY <1>1, <1>3, <2>1 DEF Rest
    <2>4. QED
      BY <2>1, <2>2, <2>3
  <1>6. QED
    BY <1>1, <1>4, <1>5

\* One prefix of a path is a prefix of another.
LEMMA PrefixTrans ==
    ASSUME NEW S, NEW p \in Seq(S), NEW q \in Seq(S), NEW x \in Seq(S), IsPrefix(p, q), IsPrefix(q, x)
    PROVE  IsPrefix(p, x)
  <1>1. q = p \o Rest(p, q) /\ Rest(p, q) \in Seq(S) /\ x = q \o Rest(q, x) /\ Rest(q, x) \in Seq(S)
    BY PrefixRest
  <1>2. PICK a \in Seq(S), b \in Seq(S) : q = p \o a /\ x = q \o b
    BY <1>1
  <1>3. x = p \o (a \o b) /\ a \o b \in Seq(S)
    BY <1>2
  <1>4. QED
    BY <1>3, PrefixOf

LEMMA PrefixSelf ==
    ASSUME NEW S, NEW p \in Seq(S) PROVE IsPrefix(p, p)
  BY DEF IsPrefix

LEMMA PrefixAnti ==
    ASSUME NEW S, NEW p \in Seq(S), NEW q \in Seq(S), IsPrefix(p, q), IsPrefix(q, p) PROVE p = q
  <1>1. Len(p) = Len(q) /\ SubSeq(p, 1, Len(p)) = SubSeq(q, 1, Len(q))
    BY DEF IsPrefix
  <1>2. SubSeq(p, 1, Len(p)) = p /\ SubSeq(q, 1, Len(q)) = q
    OBVIOUS
  <1>3. QED
    BY <1>1, <1>2

LEMMA PrefixBy ==
    ASSUME NEW S, NEW p \in Seq(S), NEW q \in Seq(S)
    PROVE  IsPrefix(p, q) <=> Len(p) <= Len(q) /\ \A i \in 1..Len(p) : p[i] = q[i]
  <1>1. Len(p) \in Nat /\ Len(q) \in Nat
    OBVIOUS
  <1>2. ASSUME IsPrefix(p, q) PROVE Len(p) <= Len(q) /\ \A i \in 1..Len(p) : p[i] = q[i]
    <2>1. SubSeq(p, 1, Len(p)) = SubSeq(q, 1, Len(p)) /\ Len(p) <= Len(q)
      BY <1>2 DEF IsPrefix
    <2>2. \A i \in 1..Len(p) : SubSeq(p, 1, Len(p))[i] = p[i] /\ SubSeq(q, 1, Len(p))[i] = q[i]
      BY <2>1
    <2>3. QED
      BY <2>1, <2>2
  <1>3. ASSUME Len(p) <= Len(q), \A i \in 1..Len(p) : p[i] = q[i] PROVE IsPrefix(p, q)
    <2>1. SubSeq(p, 1, Len(p)) \in Seq(S) /\ SubSeq(q, 1, Len(p)) \in Seq(S)
          /\ Len(SubSeq(p, 1, Len(p))) = Len(p) /\ Len(SubSeq(q, 1, Len(p))) = Len(p)
      BY <1>1, <1>3
    <2>2. \A i \in 1..Len(p) : SubSeq(p, 1, Len(p))[i] = SubSeq(q, 1, Len(p))[i]
      BY <1>1, <1>3
    <2>3. QED
      BY <1>3, <2>1, <2>2 DEF IsPrefix
  <1>4. QED
    BY <1>2, <1>3

LEMMA PrefixEither ==
    ASSUME NEW S, NEW p \in Seq(S), NEW q \in Seq(S), NEW x \in Seq(S), IsPrefix(p, x), IsPrefix(q, x)
    PROVE  IsPrefix(p, q) \/ IsPrefix(q, p)
  <1>1. Len(p) \in Nat /\ Len(q) \in Nat /\ Len(x) \in Nat
    OBVIOUS
  <1>2. Len(p) <= Len(x) /\ Len(q) <= Len(x)
        /\ (\A i \in 1..Len(p) : p[i] = x[i]) /\ (\A i \in 1..Len(q) : q[i] = x[i])
    BY PrefixBy
  <1>3. CASE Len(p) <= Len(q)
    <2>1. \A i \in 1..Len(p) : p[i] = q[i]
      BY <1>1, <1>2, <1>3
    <2>2. QED
      BY <1>3, <2>1, PrefixBy
  <1>4. CASE Len(q) <= Len(p)
    <2>1. \A i \in 1..Len(q) : q[i] = p[i]
      BY <1>1, <1>2, <1>4
    <2>2. QED
      BY <1>4, <2>1, PrefixBy
  <1>5. QED
    BY <1>1, <1>3, <1>4

LEMMA PrefixLonger ==
    ASSUME NEW S, NEW p \in Seq(S), NEW a \in Seq(S), NEW c \in Seq(S) PROVE IsPrefix(p \o a, p \o (a \o c))
  <1>1. (p \o a) \o c = p \o (a \o c) /\ p \o a \in Seq(S)
    OBVIOUS
  <1>2. PICK x \in Seq(S) : x = p \o a
    BY <1>1
  <1>3. IsPrefix(x, x \o c)
    BY PrefixOf
  <1>4. QED
    BY <1>1, <1>2, <1>3

\* A path moved from one place to another.
LEMMA PrefixMoved ==
    ASSUME NEW S, NEW from \in Seq(S), NEW to \in Seq(S), NEW a \in Seq(S), NEW b \in Seq(S)
    PROVE  IsPrefix(to \o a, to \o b) => IsPrefix(from \o a, from \o b)
  <1> HAVE IsPrefix(to \o a, to \o b)
  <1>0. to \o a \in Seq(S) /\ to \o b \in Seq(S)
    OBVIOUS
  <1>1. PICK p \in Seq(S), q \in Seq(S) : p = to \o a /\ q = to \o b
    BY <1>0
  <1>2. Rest(p, q) \in Seq(S) /\ q = p \o Rest(p, q)
    BY <1>1, PrefixRest
  <1>3. PICK c \in Seq(S) : to \o b = (to \o a) \o c
    BY <1>1, <1>2
  <1>4. (to \o a) \o c = to \o (a \o c) /\ a \o c \in Seq(S)
    OBVIOUS
  <1>5. Rest(to, to \o b) = b /\ Rest(to, to \o (a \o c)) = a \o c
    BY <1>4, PrefixOf
  <1>6. b = a \o c
    BY <1>3, <1>4, <1>5
  <1>7. QED
    BY <1>6, PrefixLonger

\* The paths above one that ends in a name.
LEMMA PrefixFront ==
    ASSUME NEW S, NEW p \in Seq(S), NEW q \in Seq(S), IsPrefix(q, p), q # p
    PROVE  Front(p) \in Seq(S) /\ IsPrefix(q, Front(p))
  <1>1. Len(p) \in Nat /\ Len(q) \in Nat
    OBVIOUS
  <1>2. Len(q) <= Len(p) /\ \A i \in 1..Len(q) : q[i] = p[i]
    BY PrefixBy
  <1>3. Len(q) # Len(p)
    BY <1>1, <1>2
  <1>4. Front(p) \in Seq(S) /\ Len(Front(p)) = Len(p) - 1
    <2>0. Len(p) >= 1
      BY <1>1, <1>2, <1>3
    <2>1. Len(p) - 1 \in Nat /\ \A i \in 1..Len(p) - 1 : p[i] \in S
      BY <1>1, <2>0
    <2>2. Front(p) \in Seq(S)
      BY <1>1, <2>0, <2>1 DEF Front
    <2>3. Len(Front(p)) = Len(p) - 1
      <3>1. PICK n \in Nat : n = Len(p) - 1
        BY <2>1
      <3>2. n <= Len(p)
        BY <1>1, <3>1
      <3>3. Len(SubSeq(p, 1, n)) = n
        BY <1>1, <3>2
      <3>4. QED
        BY <3>1, <3>3 DEF Front
    <2>4. QED
      BY <2>2, <2>3
  <1>5. \A i \in 1..Len(q) : Front(p)[i] = p[i]
    BY <1>1, <1>2, <1>3 DEF Front
  <1>6. QED
    BY <1>1, <1>2, <1>3, <1>4, <1>5, PrefixBy

LEMMA AncestorsArePrefixes ==
    ASSUME NEW S, NEW p \in Seq(S), NEW q
    PROVE  q \in Ancestors(p) <=> q \in Seq(S) /\ q # p /\ IsPrefix(q, p)
  <1>1. Len(p) \in Nat
    OBVIOUS
  <1>2. ASSUME q \in Ancestors(p) PROVE q \in Seq(S) /\ q # p /\ IsPrefix(q, p)
    <2>1. PICK n \in 0..Len(p) - 1 : q = SubSeq(p, 1, n)
      BY <1>2 DEF Ancestors
    <2>2. q \in Seq(S) /\ Len(q) = n /\ \A i \in 1..n : q[i] = p[i]
      BY <1>1, <2>1
    <2>3. n <= Len(p) /\ n # Len(p)
      BY <1>1, <2>1
    <2>4. IsPrefix(q, p)
      BY <2>1, <2>2, <2>3, PrefixBy
    <2>5. QED
      BY <2>2, <2>3, <2>4
  <1>3. ASSUME q \in Seq(S), q # p, IsPrefix(q, p) PROVE q \in Ancestors(p)
    <2>1. Len(q) \in Nat /\ Len(q) <= Len(p) /\ \A i \in 1..Len(q) : q[i] = p[i]
      BY <1>3, PrefixBy
    <2>2. Len(q) # Len(p)
      BY <1>1, <1>3, <2>1
    <2>3. Len(q) \in 0..Len(p) - 1
      BY <1>1, <2>1, <2>2
    <2>4. SubSeq(p, 1, Len(q)) = q
      BY <1>1, <1>3, <2>1
    <2>5. QED
      BY <2>3, <2>4 DEF Ancestors
  <1>4. QED
    BY <1>2, <1>3

\* A tree holds every directory above what it holds.
TreeInv(t) ==
    /\ DOMAIN t \subseteq Path
    /\ \A p \in DOMAIN t : t[p] \in Nat
    /\ \A p \in DOMAIN t : \A q \in Path : IsPrefix(q, p) => q \in DOMAIN t

\* The contents of tree t are in tree u, those in lost aside.
KeptIn(t, u, lost) ==
    \A q \in DOMAIN t : t[q] \in 1..MaxContent /\ t[q] \notin lost => \E p \in DOMAIN u : u[p] = t[q]

LEMMA StoredTree ==
    ASSUME TreeInv(tree), NEW p \in Path, NEW c \in Nat, NEW t, t = Stored(p, c)
    PROVE  /\ TreeInv(t)
           /\ p \in DOMAIN t /\ t[p] = c
           /\ \A q \in DOMAIN tree \ {p} : q \in DOMAIN t /\ t[q] = tree[q]
           /\ \A q \in Path : IsPrefix(p, q) /\ q # p /\ q \in DOMAIN t => q \in DOMAIN tree
  <1>1. DOMAIN t = DOMAIN tree \cup Ancestors(p) \cup {p}
    BY DEF Stored
  <1>2. \A q \in DOMAIN t : t[q] = IF q = p THEN c ELSE IF q \in DOMAIN tree THEN tree[q] ELSE 0
    BY DEF Stored, IsThere, Directory
  <1>3. \A q : q \in Ancestors(p) <=> q \in Path /\ q # p /\ IsPrefix(q, p)
    BY AncestorsArePrefixes DEF Path
  <1>4. DOMAIN t \subseteq Path
    BY <1>1, <1>3 DEF TreeInv
  <1>5. \A q \in DOMAIN t : t[q] \in Nat
    BY <1>2 DEF TreeInv
  <1>6. ASSUME NEW q \in DOMAIN t, NEW x \in Path, IsPrefix(x, q) PROVE x \in DOMAIN t
    <2>1. CASE q \in DOMAIN tree
      BY <1>1, <1>6, <2>1 DEF TreeInv
    <2>2. CASE q = p
      BY <1>1, <1>3, <1>6, <2>2
    <2>3. CASE q \in Ancestors(p)
      <3>1. q \in Path /\ IsPrefix(q, p)
        BY <1>3, <2>3
      <3>2. IsPrefix(x, p)
        BY <1>6, <3>1, PrefixTrans DEF Path
      <3>3. QED
        BY <1>1, <1>3, <3>2
    <2>4. QED
      BY <1>1, <2>1, <2>2, <2>3
  <1>7. TreeInv(t)
    BY <1>4, <1>5, <1>6 DEF TreeInv
  <1>8. p \in DOMAIN t /\ t[p] = c /\ \A q \in DOMAIN tree \ {p} : q \in DOMAIN t /\ t[q] = tree[q]
    BY <1>1, <1>2
  <1>9. ASSUME NEW q \in Path, IsPrefix(p, q), q # p, q \in DOMAIN t PROVE q \in DOMAIN tree
    <2>1. q \notin Ancestors(p)
      BY <1>3, <1>9, PrefixAnti DEF Path
    <2>2. QED
      BY <1>1, <1>9, <2>1
  <1>10. QED
    BY <1>7, <1>8, <1>9

LEMMA RemovedTree ==
    ASSUME TreeInv(tree), NEW p \in Path, NEW t, t = RemovedAll(p)
    PROVE  TreeInv(t) /\ DOMAIN t = DOMAIN tree \ Below(p) /\ \A q \in DOMAIN t : t[q] = tree[q]
  <1>1. DOMAIN t = DOMAIN tree \ Below(p) /\ \A q \in DOMAIN t : t[q] = tree[q]
    BY DEF RemovedAll
  <1>2. ASSUME NEW q \in DOMAIN t, NEW x \in Path, IsPrefix(x, q) PROVE x \in DOMAIN t
    <2>1. q \in DOMAIN tree /\ ~IsPrefix(p, q) /\ x \in DOMAIN tree /\ q \in Path
      BY <1>1, <1>2 DEF TreeInv, Below
    <2>2. ~IsPrefix(p, x)
      BY <1>2, <2>1, PrefixTrans DEF Path
    <2>3. QED
      BY <1>1, <2>1, <2>2 DEF Below
  <1>3. QED
    BY <1>1, <1>2 DEF TreeInv

\* os.Rename: what lies below the old path is below the new one, and nothing
\* else is lost but what had the new path.
LEMMA RenamedTree ==
    ASSUME TreeInv(tree), NEW from \in Path, NEW to \in Path, CanRename(from, to), NEW t, t = Renamed(from, to)
    PROVE  TreeInv(t) /\ \A q \in DOMAIN tree \ {to} : \E p \in DOMAIN t : t[p] = tree[q]
  <1> DEFINE moved == {to \o Rest(from, q) : q \in Below(from)}
  <1>1. /\ DOMAIN t = (DOMAIN tree \ (Below(from) \cup {to})) \cup moved
        /\ \A q \in DOMAIN t : t[q] = IF q \in moved THEN tree[from \o Rest(to, q)] ELSE tree[q]
    BY DEF Renamed, Rest
  <1>2. \A q \in DOMAIN tree : q \in Path /\ tree[q] \in Nat
    BY DEF TreeInv
  <1>3. ASSUME NEW q \in Below(from)
        PROVE  /\ Rest(from, q) \in Path /\ q = from \o Rest(from, q)
               /\ to \o Rest(from, q) \in Path /\ IsPrefix(to, to \o Rest(from, q))
               /\ from \o Rest(to, to \o Rest(from, q)) = q
    <2>1. q \in Path /\ IsPrefix(from, q)
      BY <1>2 DEF Below
    <2>2. Rest(from, q) \in Path /\ q = from \o Rest(from, q)
      BY <2>1, PrefixRest DEF Path
    <2>3. PICK s \in Path : s = Rest(from, q)
      BY <2>2
    <2>4. to \o s \in Path /\ IsPrefix(to, to \o s) /\ Rest(to, to \o s) = s
      BY PrefixOf DEF Path
    <2>5. QED
      BY <2>2, <2>3, <2>4
  <1>4. \A q \in DOMAIN tree : IsPrefix(to, q) => q = to
    <2>1. CASE to \in DOMAIN tree
      BY <2>1 DEF CanRename, IsThere, Below
    <2>2. CASE to \notin DOMAIN tree
      BY <2>2 DEF TreeInv
    <2>3. QED
      BY <2>1, <2>2
  <1>5. DOMAIN t \subseteq Path
    <2>1. \A q \in moved : q \in Path
      BY <1>3
    <2>2. QED
      BY <1>1, <1>2, <2>1
  <1>6. \A q \in DOMAIN t : t[q] \in Nat
    <2> SUFFICES ASSUME NEW q \in DOMAIN t PROVE t[q] \in Nat
      OBVIOUS
    <2>1. CASE q \in moved
      <3>1. PICK x \in Below(from) : q = to \o Rest(from, x)
        BY <2>1
      <3>2. t[q] = tree[x] /\ x \in DOMAIN tree
        BY <1>1, <1>3, <2>1, <3>1 DEF Below
      <3>3. QED
        BY <1>2, <3>2
    <2>2. CASE q \notin moved
      BY <1>1, <1>2, <2>2
    <2>3. QED
      BY <2>1, <2>2
  <1>7. ASSUME NEW q \in DOMAIN t, NEW x \in Path, IsPrefix(x, q) PROVE x \in DOMAIN t
    <2>1. CASE q \notin moved
      <3>1. q \in DOMAIN tree /\ q # to /\ ~IsPrefix(from, q) /\ q \in Path /\ x \in DOMAIN tree
        BY <1>1, <1>2, <1>7, <2>1 DEF Below, TreeInv
      <3>2. ~IsPrefix(from, x)
        BY <1>7, <3>1, PrefixTrans DEF Path
      <3>3. x # to
        BY <1>4, <1>7, <3>1
      <3>4. QED
        BY <1>1, <3>1, <3>2, <3>3 DEF Below
    <2>2. CASE q \in moved
      <3>1. PICK y \in Below(from) : q = to \o Rest(from, y)
        BY <2>2
      <3>2. q \in Path /\ IsPrefix(to, q) /\ y \in DOMAIN tree /\ y \in Path
        BY <1>2, <1>3, <3>1 DEF Below
      <3>3. IsPrefix(x, to) \/ IsPrefix(to, x)
        BY <1>7, <3>2, PrefixEither DEF Path
      <3>4. CASE IsPrefix(to, x)
        <4>1. Rest(to, x) \in Path /\ x = to \o Rest(to, x)
          BY <3>4, PrefixRest DEF Path
        <4>2. PICK a \in Path, b \in Path : a = Rest(to, x) /\ b = Rest(from, y)
          BY <1>3, <3>1, <4>1
        <4>3. IsPrefix(to \o a, to \o b)
          BY <1>7, <3>1, <4>1, <4>2
        <4>4. IsPrefix(from \o a, from \o b) /\ from \o b = y
          BY <1>3, <3>1, <4>2, <4>3, PrefixMoved DEF Path
        <4>5. from \o a \in Path /\ IsPrefix(from, from \o a) /\ Rest(from, from \o a) = a
          BY PrefixOf DEF Path
        <4>6. from \o a \in Below(from)
          BY <3>2, <4>4, <4>5 DEF Below, TreeInv
        <4>7. x \in moved
          BY <4>1, <4>2, <4>5, <4>6
        <4>8. QED
          BY <1>1, <4>7
      <3>5. CASE IsPrefix(x, to) /\ x # to
        <4>1. Front(to) \in Path /\ IsPrefix(x, Front(to)) /\ Front(to) \in DOMAIN tree
          BY <3>5, PrefixFront DEF Path, CanRename, IsDir, IsThere
        <4>2. x \in DOMAIN tree
          BY <4>1 DEF TreeInv
        <4>3. ~IsPrefix(from, x)
          BY <3>5, PrefixTrans DEF Path, CanRename
        <4>4. QED
          BY <1>1, <3>5, <4>2, <4>3 DEF Below
      <3>6. QED
        BY <3>3, <3>4, <3>5, PrefixSelf DEF Path
    <2>3. QED
      BY <2>1, <2>2
  <1>8. TreeInv(t)
    BY <1>5, <1>6, <1>7 DEF TreeInv
  <1>9. ASSUME NEW q \in DOMAIN tree \ {to} PROVE \E p \in DOMAIN t : t[p] = tree[q]
    <2>1. CASE q \in Below(from)
      <3>1. PICK p : p = to \o Rest(from, q)
        OBVIOUS
      <3>2. p \in moved /\ p \in DOMAIN t
        BY <1>1, <2>1, <3>1
      <3>3. t[p] = tree[from \o Rest(to, p)]
        BY <1>1, <3>2
      <3>4. from \o Rest(to, p) = q
        BY <1>3, <2>1, <3>1
      <3>5. QED
        BY <3>2, <3>3, <3>4
    <2>2. CASE q \notin Below(from)
      <3>1. q \in DOMAIN t
        BY <1>1, <2>2
      <3>2. \A x \in moved : IsPrefix(to, x)
        BY <1>3
      <3>3. q \notin moved
        BY <1>4, <3>2
      <3>4. QED
        BY <1>1, <3>1, <3>3
    <2>3. QED
      BY <2>1, <2>2
  <1>10. QED
    BY <1>8, <1>9

\* What a request keeps is typed, and one about to rename has an entry below the root.
FileRequestFields == {"pc", "op", "paths", "dest", "content"}
RequestInv(req) ==
    /\ DOMAIN req = FileRequestFields
    /\ req.paths \in Seq(Path) /\ req.dest \in Path /\ req.content \in Nat
    /\ req.pc = "rename" => req.paths # <<>> /\ Head(req.paths) # Root

\* What a request has looked at is still so: nothing has the name it is about to
\* take, and an archive that is being filled is a file with the archive's content.
Looked(t, req) ==
    /\ req.pc = "rename" => Append(req.dest, Last(Head(req.paths))) \notin DOMAIN t
    /\ req.pc = "create" => Archive(req.dest) \notin DOMAIN t
    /\ req.pc = "adding" =>
          /\ Archive(req.dest) \in DOMAIN t /\ t[Archive(req.dest)] = req.content
          /\ req.content \in 1..MaxContent
          /\ \A q \in DOMAIN t : IsPrefix(Archive(req.dest), q) => q = Archive(req.dest)

FilesInv ==
    /\ TreeInv(tree)
    /\ written \in 2..MaxContent
    /\ DOMAIN fileRequests = FileRequests /\ \A r \in FileRequests : RequestInv(fileRequests[r])
    /\ disturbed \in BOOLEAN
    /\ ~disturbed => \A r \in FileRequests : Looked(tree, fileRequests[r])
    /\ ContentKept

LEMMA NoRequestFits ==
    RequestInv(NoRequest) /\ NoRequest.pc = "none" /\ \A t : Looked(t, NoRequest)
  <1>1. <<>> \in Path /\ <<>> \in Seq(Path)
    BY DEF Path
  <1>2. PICK e : e = <<>> /\ e \in Path /\ e \in Seq(Path)
    BY <1>1
  <1>3. NoRequest = [pc |-> "none", op |-> "", paths |-> e, dest |-> e, content |-> 0]
    BY <1>2 DEF NoRequest, Root, Directory
  <1>4. QED
    BY <1>2, <1>3 DEF RequestInv, Looked, FileRequestFields

\* A request that is neither about to rename nor at an archive has looked at nothing.
LEMMA LooksAtNothing ==
    ASSUME NEW t, NEW req, req.pc \notin Looking PROVE Looked(t, req)
  BY DEF Looked, Looking

\* A step that changes the tree tells the requests that have looked.
LEMMA ChangeStep ==
    ASSUME FilesInv, NEW r \in FileRequests, Disturbs(r), TreeInv(tree'), written' \in 2..MaxContent,
           DOMAIN fileRequests' = FileRequests, \A q \in FileRequests \ {r} : fileRequests'[q] = fileRequests[q],
           RequestInv(fileRequests'[r]),
           ~disturbed => Looked(tree', fileRequests'[r]) /\ ContentKept'
    PROVE  FilesInv'
  <1>1. disturbed \in BOOLEAN /\ disturbed' \in BOOLEAN
    BY DEF FilesInv, Disturbs
  <1>2. ASSUME ~disturbed' PROVE ~disturbed /\ \A q \in FileRequests \ {r} : fileRequests[q].pc \notin Looking
    BY <1>2 DEF Disturbs
  <1>3. \A q \in FileRequests : RequestInv(fileRequests'[q])
    BY DEF FilesInv
  <1>4. ASSUME ~disturbed', NEW q \in FileRequests PROVE Looked(tree', fileRequests'[q])
    <2>1. CASE q = r
      BY <1>2, <1>4, <2>1
    <2>2. CASE q # r
      BY <1>2, <1>4, <2>2, LooksAtNothing
    <2>3. QED
      BY <2>1, <2>2
  <1>5. ContentKept'
    BY <1>2 DEF ContentKept
  <1>6. QED
    BY <1>1, <1>3, <1>4, <1>5 DEF FilesInv

\* A step that leaves the tree as it is.
LEMMA QuietStep ==
    ASSUME FilesInv, NEW r \in FileRequests, UNCHANGED <<tree, written, doomed, disturbed>>,
           DOMAIN fileRequests' = FileRequests, \A q \in FileRequests \ {r} : fileRequests'[q] = fileRequests[q],
           RequestInv(fileRequests'[r]), ~disturbed => Looked(tree, fileRequests'[r])
    PROVE  FilesInv'
  <1>1. TreeInv(tree') /\ written' \in 2..MaxContent /\ disturbed' \in BOOLEAN
    BY DEF FilesInv
  <1>2. \A q \in FileRequests : RequestInv(fileRequests'[q])
    BY DEF FilesInv
  <1>3. ~disturbed' => \A q \in FileRequests : Looked(tree', fileRequests'[q])
    BY DEF FilesInv
  <1>4. ContentKept'
    BY DEF FilesInv, ContentKept
  <1>5. QED
    BY <1>1, <1>2, <1>3, <1>4 DEF FilesInv

LEMMA KeptStep ==
    ASSUME FilesInv, ~disturbed, written' = written, doomed \subseteq doomed', KeptIn(tree, tree', doomed')
    PROVE  ContentKept'
  <1>1. written \in 2..MaxContent /\ MaxContent \in Nat
    BY FilesAssumption DEF FilesInv
  <1>2. ASSUME NEW c \in 1..written PROVE c \in doomed' \/ \E p \in DOMAIN tree' : tree'[p] = c
    <2>1. c \in 1..MaxContent
      BY <1>1
    <2>2. c \in doomed \/ \E p \in DOMAIN tree : tree[p] = c
      BY DEF FilesInv, ContentKept
    <2>3. CASE c \in doomed
      BY <2>3
    <2>4. CASE c \notin doomed' /\ \E p \in DOMAIN tree : tree[p] = c
      BY <2>1, <2>4 DEF KeptIn
    <2>5. QED
      BY <2>2, <2>3, <2>4
  <1>3. QED
    BY <1>2 DEF ContentKept

LEMMA OneName == ASSUME NEW S, NEW a \in S, NEW s \in Seq(S), Len(s) = 1, s[1] = a PROVE s = <<a>>
  OBVIOUS

LEMMA ShortPaths ==
    ASSUME NEW S, NEW a \in S, NEW b \in S
    PROVE  <<>> \in Seq(S) /\ <<a>> \in Seq(S) /\ <<a, b>> \in Seq(S) /\ SubSeq(<<a, b>>, 1, 1) = <<a>>
  <1>1. <<>> \in Seq(S) /\ <<a>> \in Seq(S)
    OBVIOUS
  <1>2. <<a, b>> \in Seq(S)
    OBVIOUS
  <1>3. PICK w \in Seq(S) : w = <<a, b>>
    BY <1>2
  <1>4. Len(w) = 2 /\ w[1] = a
    BY <1>3
  <1>5. PICK v \in Seq(S) : v = SubSeq(w, 1, 1) /\ Len(v) = 1 /\ v[1] = a
    <2>1. SubSeq(w, 1, 1) \in Seq(S)
      BY <1>4
    <2>2. Len(SubSeq(w, 1, 1)) = 1
      BY <1>4
    <2>3. SubSeq(w, 1, 1)[1] = a
      BY <1>4
    <2>4. QED
      BY <2>1, <2>2, <2>3
  <1>6. SubSeq(w, 1, 1) = <<a>>
    BY <1>5, OneName
  <1>7. QED
    BY <1>1, <1>2, <1>3, <1>6

LEMMA FilesInvInit == FilesInit => FilesInv
  <1> SUFFICES ASSUME FilesInit PROVE FilesInv
    OBVIOUS
  <1>1. DOMAIN tree = {<<>>, <<"d">>, <<"a">>, <<"d", "b">>}
    BY DEF FilesInit, Root
  <1>2. tree[<<>>] = 0 /\ tree[<<"d">>] = 0 /\ tree[<<"a">>] = 1 /\ tree[<<"d", "b">>] = 2
    BY DEF FilesInit, Root, Directory
  <1>3. DOMAIN tree \subseteq Path /\ \A p \in DOMAIN tree : tree[p] \in Nat
    <2>1. <<>> \in Path /\ <<"d">> \in Path /\ <<"a">> \in Path /\ <<"d", "b">> \in Path
      <3>1. "a" \in EntryNames /\ "b" \in EntryNames /\ "d" \in EntryNames
        BY DEF EntryNames
      <3>2. QED
        BY <3>1, ShortPaths DEF Path
    <2>2. \A p \in DOMAIN tree : tree[p] \in Nat
      BY <1>1, <1>2
    <2>3. QED
      BY <1>1, <2>1, <2>2
  <1>4. ASSUME NEW p \in DOMAIN tree, NEW q \in Path, IsPrefix(q, p) PROVE q \in DOMAIN tree
    <2>1. p \in Path
      BY <1>3
    <2>2. q = p \/ q \in Ancestors(p)
      BY <1>4, <2>1, AncestorsArePrefixes DEF Path
    <2>3. Len(p) = 0 => Ancestors(p) = {}
      BY DEF Ancestors
    <2>4. Len(p) = 1 => Ancestors(p) = {SubSeq(p, 1, 0)}
      BY DEF Ancestors
    <2>5. Len(p) = 2 => Ancestors(p) = {SubSeq(p, 1, 0), SubSeq(p, 1, 1)}
      BY DEF Ancestors
    <2>6. SubSeq(p, 1, 0) = <<>> /\ (p = <<"d", "b">> => SubSeq(p, 1, 1) = <<"d">>)
      <3>1. SubSeq(p, 1, 0) = <<>>
        BY <2>1 DEF Path
      <3>2. SubSeq(<<"d", "b">>, 1, 1) = <<"d">>
        <4>1. "b" \in EntryNames /\ "d" \in EntryNames
          BY DEF EntryNames
        <4>2. QED
          BY <4>1, ShortPaths DEF Path
      <3>3. QED
        BY <3>1, <3>2
    <2>7. Len(<<>>) = 0 /\ Len(<<"d">>) = 1 /\ Len(<<"a">>) = 1 /\ Len(<<"d", "b">>) = 2
      OBVIOUS
    <2>8. QED
      BY <1>1, <2>2, <2>3, <2>4, <2>5, <2>6, <2>7
  <1>5. TreeInv(tree)
    BY <1>3, <1>4 DEF TreeInv
  <1>6. written \in 2..MaxContent /\ disturbed \in BOOLEAN
    <2>1. written \in 2..MaxContent
      BY FilesAssumption DEF FilesInit
    <2>2. disturbed \in BOOLEAN
      BY DEF FilesInit
    <2>3. QED
      BY <2>1, <2>2
  <1>7. RequestInv(NoRequest) /\ Looked(tree, NoRequest)
    BY NoRequestFits
  <1>8. DOMAIN fileRequests = FileRequests /\ \A r \in FileRequests : fileRequests[r] = NoRequest
    BY DEF FilesInit
  <1>9. ContentKept
    <2>1. written = 2
      BY DEF FilesInit
    <2>2. \A c \in 1..2 : c = 1 \/ c = 2
      OBVIOUS
    <2>3. QED
      BY <1>1, <1>2, <2>1, <2>2 DEF ContentKept
  <1>10. QED
    BY <1>5, <1>6, <1>7, <1>8, <1>9 DEF FilesInv

LEMMA FrontIsPath ==
    ASSUME NEW p \in Path, p # <<>> PROVE Front(p) \in Path
  <1>1. p \in Seq(EntryNames) /\ Len(p) \in Nat /\ Len(p) # 0
    BY DEF Path
  <1>2. Len(p) - 1 \in Nat /\ \A i \in 1..Len(p) - 1 : p[i] \in EntryNames
    BY <1>1
  <1>3. QED
    BY <1>1, <1>2 DEF Front, Path

LEMMA OwnContent ==
    ASSUME NEW p \in Path, p \in DOMAIN tree, tree[p] \in 1..MaxContent PROVE tree[p] \in ContentsBelow(p)
  <1>1. p \in Below(p)
    BY PrefixSelf DEF Below, Path
  <1>2. QED
    BY <1>1 DEF ContentsBelow

\* A write loses what the file held, and nothing when there was no file.
LEMMA StoredKeeps ==
    ASSUME TreeInv(tree), NEW p \in Path, NEW c \in Nat, NEW t, t = Stored(p, c), NEW lost,
           p \notin DOMAIN tree \/ ContentsBelow(p) \subseteq lost
    PROVE  KeptIn(tree, t, lost)
  <1> SUFFICES ASSUME NEW q \in DOMAIN tree, tree[q] \in 1..MaxContent, tree[q] \notin lost
               PROVE  \E x \in DOMAIN t : t[x] = tree[q]
    BY DEF KeptIn
  <1>1. q # p
    BY OwnContent
  <1>2. q \in DOMAIN t /\ t[q] = tree[q]
    BY <1>1, StoredTree
  <1>3. QED
    BY <1>2

\* A request that writes the row of its slot leaves the others' alone.
LEMMA RowWritten ==
    ASSUME FilesInv, NEW r \in FileRequests, NEW row, RequestInv(row),
           fileRequests' = [fileRequests EXCEPT ![r] = row]
    PROVE  /\ DOMAIN fileRequests' = FileRequests
           /\ \A q \in FileRequests \ {r} : fileRequests'[q] = fileRequests[q]
           /\ fileRequests'[r] = row /\ RequestInv(fileRequests'[r])
  BY DEF FilesInv

LEMMA RequestEnds ==
    ASSUME FilesInv, NEW r \in FileRequests, EndsRequest(r)
    PROVE  /\ DOMAIN fileRequests' = FileRequests
           /\ \A q \in FileRequests \ {r} : fileRequests'[q] = fileRequests[q]
           /\ fileRequests'[r] = NoRequest /\ RequestInv(fileRequests'[r])
           /\ \A t : Looked(t, fileRequests'[r])
  BY RowWritten, NoRequestFits DEF EndsRequest

LEMMA NoRowWritten ==
    ASSUME FilesInv, NEW r \in FileRequests, fileRequests[r] = NoRequest, fileRequests' = fileRequests
    PROVE  /\ DOMAIN fileRequests' = FileRequests
           /\ \A q \in FileRequests \ {r} : fileRequests'[q] = fileRequests[q]
           /\ RequestInv(fileRequests'[r])
           /\ \A t : Looked(t, fileRequests'[r])
  BY NoRequestFits DEF FilesInv

LEMMA TargetsArePaths == Targets \subseteq Path
  BY FilesAssumption DEF Path

LEMMA writeFileKeeps ==
    ASSUME FilesInv, NEW r \in FileRequests, NEW op, NEW p \in Targets, writeFile(r, op, p) PROVE FilesInv'
  <1>1. TreeInv(tree) /\ p \in Path /\ r \in Nat /\ MaxContent \in Nat /\ written' \in 2..MaxContent
    BY TargetsArePaths, FilesAssumption DEF FilesInv, writeFile
  <1>2. CASE CanWrite(p)
    <2>1. /\ doomed' = doomed \cup ContentsBelow(p) /\ tree' = Stored(p, Truncated(r)) /\ Disturbs(r)
          /\ fileRequests' = [fileRequests EXCEPT ![r] = [NoRequest EXCEPT !.pc = "fill"]]
          /\ written' = written
      BY <1>2 DEF writeFile
    <2>2. PICK row : row = [NoRequest EXCEPT !.pc = "fill"]
      OBVIOUS
    <2>3. RequestInv(row) /\ row.pc = "fill"
      BY <2>2, NoRequestFits DEF RequestInv, FileRequestFields
    <2>4. /\ DOMAIN fileRequests' = FileRequests
          /\ \A q \in FileRequests \ {r} : fileRequests'[q] = fileRequests[q]
          /\ fileRequests'[r] = row /\ RequestInv(fileRequests'[r])
      BY <2>1, <2>2, <2>3, RowWritten
    <2>5. PICK t : t = Stored(p, Truncated(r))
      OBVIOUS
    <2>6. Truncated(r) \in Nat
      BY <1>1 DEF Truncated
    <2>7. TreeInv(t) /\ KeptIn(tree, t, doomed')
      BY <1>1, <2>1, <2>5, <2>6, StoredTree, StoredKeeps
    <2>8. ~disturbed => ContentKept'
      BY <2>1, <2>5, <2>7, KeptStep
    <2>9. Looked(tree', fileRequests'[r])
      BY <2>3, <2>4, LooksAtNothing DEF Looking
    <2>10. QED
      BY <1>1, <2>1, <2>4, <2>5, <2>7, <2>8, <2>9, ChangeStep
  <1>3. CASE ~CanWrite(p)
    <2>1. UNCHANGED <<tree, written, doomed, disturbed>> /\ fileRequests' = fileRequests
      BY <1>3 DEF writeFile
    <2>2. fileRequests[r] = NoRequest
      BY DEF writeFile
    <2>3. QED
      BY <2>1, <2>2, NoRowWritten, QuietStep
  <1>4. QED
    BY <1>2, <1>3

LEMMA createEntryKeeps ==
    ASSUME FilesInv, NEW r \in FileRequests, NEW p \in Targets, NEW isDir \in BOOLEAN, createEntry(r, p, isDir)
    PROVE  FilesInv'
  <1>1. TreeInv(tree) /\ p \in Path /\ MaxContent \in Nat /\ written' \in 2..MaxContent /\ written' = written
    BY TargetsArePaths, FilesAssumption DEF FilesInv, createEntry
  <1>2. Disturbs(r) /\ fileRequests[r] = NoRequest /\ fileRequests' = fileRequests
    BY DEF createEntry
  <1>3. /\ DOMAIN fileRequests' = FileRequests
        /\ \A q \in FileRequests \ {r} : fileRequests'[q] = fileRequests[q]
        /\ RequestInv(fileRequests'[r]) /\ Looked(tree', fileRequests'[r])
    BY <1>2, NoRowWritten
  <1>4. TreeInv(tree') /\ doomed \subseteq doomed' /\ KeptIn(tree, tree', doomed')
    <2>1. CASE CanWrite(p) /\ ~(isDir /\ IsThere(p))
      <3>1. PICK c \in Nat : c = IF isDir THEN Directory ELSE Empty
        BY <1>1 DEF Directory, Empty
      <3>2. tree' = Stored(p, c) /\ doomed' = IF isDir THEN doomed ELSE doomed \cup ContentsBelow(p)
        BY <2>1, <3>1 DEF createEntry
      <3>3. p \notin DOMAIN tree \/ ContentsBelow(p) \subseteq doomed'
        BY <2>1, <3>2 DEF IsThere
      <3>4. PICK t : t = Stored(p, c)
        OBVIOUS
      <3>5. TreeInv(t) /\ KeptIn(tree, t, doomed')
        BY <1>1, <3>3, <3>4, StoredTree, StoredKeeps
      <3>6. QED
        BY <3>2, <3>4, <3>5
    <2>2. CASE ~(CanWrite(p) /\ ~(isDir /\ IsThere(p)))
      <3>1. tree' = tree /\ doomed' = doomed
        BY <2>2 DEF createEntry
      <3>2. QED
        BY <1>1, <3>1 DEF KeptIn
    <2>3. QED
      BY <2>1, <2>2
  <1>5. ~disturbed => ContentKept'
    BY <1>1, <1>4, KeptStep
  <1>6. QED
    BY <1>1, <1>2, <1>3, <1>4, <1>5, ChangeStep

LEMMA deleteEntryKeeps ==
    ASSUME FilesInv, NEW r \in FileRequests, NEW p \in Targets, deleteEntry(r, p) PROVE FilesInv'
  <1>1. TreeInv(tree) /\ p \in Path /\ written' \in 2..MaxContent /\ written' = written
    BY TargetsArePaths DEF FilesInv, deleteEntry
  <1>2. /\ Disturbs(r) /\ fileRequests[r] = NoRequest /\ fileRequests' = fileRequests
        /\ doomed' = doomed \cup ContentsBelow(p) /\ tree' = RemovedAll(p)
    BY DEF deleteEntry
  <1>3. /\ DOMAIN fileRequests' = FileRequests
        /\ \A q \in FileRequests \ {r} : fileRequests'[q] = fileRequests[q]
        /\ RequestInv(fileRequests'[r]) /\ Looked(tree', fileRequests'[r])
    BY <1>2, NoRowWritten
  <1>4. PICK t : t = RemovedAll(p)
    OBVIOUS
  <1>5. TreeInv(t) /\ DOMAIN t = DOMAIN tree \ Below(p) /\ \A q \in DOMAIN t : t[q] = tree[q]
    BY <1>1, <1>4, RemovedTree
  <1>6. KeptIn(tree, t, doomed')
    BY <1>2, <1>5 DEF KeptIn, ContentsBelow
  <1>7. ~disturbed => ContentKept'
    BY <1>1, <1>2, <1>4, <1>6, KeptStep
  <1>8. QED
    BY <1>1, <1>2, <1>3, <1>4, <1>5, <1>7, ChangeStep

LEMMA renameEntryKeeps ==
    ASSUME FilesInv, NEW r \in FileRequests, NEW p \in Targets, NEW name \in NewNames, renameEntry(r, p, name)
    PROVE  FilesInv'
  <1>1. TreeInv(tree) /\ p \in Path /\ written' \in 2..MaxContent /\ written' = written
    BY TargetsArePaths DEF FilesInv, renameEntry
  <1>2. PICK to : to = Append(Front(p), name)
    OBVIOUS
  <1>3. to \in Path
    <2>1. p # <<>> /\ name \in EntryNames
      BY DEF renameEntry, Root, EntryNames
    <2>2. Front(p) \in Path
      BY <1>1, <2>1, FrontIsPath
    <2>3. QED
      BY <1>2, <2>1, <2>2, AppendProperties DEF Path
  <1>4. /\ Disturbs(r) /\ fileRequests[r] = NoRequest /\ fileRequests' = fileRequests /\ CanRename(p, to)
        /\ doomed' = doomed \cup ContentsBelow(to) /\ tree' = Renamed(p, to)
    BY <1>2 DEF renameEntry
  <1>5. /\ DOMAIN fileRequests' = FileRequests
        /\ \A q \in FileRequests \ {r} : fileRequests'[q] = fileRequests[q]
        /\ RequestInv(fileRequests'[r]) /\ Looked(tree', fileRequests'[r])
    BY <1>4, NoRowWritten
  <1>6. PICK t : t = Renamed(p, to)
    OBVIOUS
  <1>7. TreeInv(t) /\ \A q \in DOMAIN tree \ {to} : \E x \in DOMAIN t : t[x] = tree[q]
    BY <1>1, <1>3, <1>4, <1>6, RenamedTree
  <1>8. KeptIn(tree, t, doomed')
    <2>1. to \in DOMAIN tree /\ tree[to] \in 1..MaxContent => tree[to] \in doomed'
      BY <1>3, <1>4, OwnContent
    <2>2. QED
      BY <1>7, <2>1 DEF KeptIn
  <1>9. ~disturbed => ContentKept'
    BY <1>1, <1>4, <1>6, <1>8, KeptStep
  <1>10. QED
    BY <1>1, <1>4, <1>5, <1>6, <1>7, <1>9, ChangeStep

LEMMA LastAppended ==
    ASSUME NEW p \in Path, p # <<>>, NEW d \in Path PROVE Append(d, Last(p)) \in Path
  <1>1. p \in Seq(EntryNames) /\ Len(p) \in Nat /\ Len(p) # 0 /\ d \in Seq(EntryNames)
    BY DEF Path
  <1>2. PICK e \in EntryNames : e = Last(p)
    BY <1>1 DEF Last
  <1>3. Append(d, e) \in Seq(EntryNames)
    BY <1>1
  <1>4. QED
    BY <1>2, <1>3 DEF Path

LEMMA ListsArePaths == \A x \in Lists : x \in Seq(Path)
  <1> SUFFICES ASSUME NEW x \in Lists PROVE x \in Seq(Path)
    OBVIOUS
  <1>1. CASE \E p \in Targets : x = <<p>>
    BY <1>1, TargetsArePaths, ShortPaths
  <1>2. CASE \E p, q \in Targets : x = <<p, q>>
    BY <1>2, TargetsArePaths, ShortPaths
  <1>3. QED
    BY <1>1, <1>2 DEF Lists

LEMMA moveEntriesKeeps ==
    ASSUME FilesInv, NEW r \in FileRequests, NEW paths \in Lists, NEW dest \in Targets, moveEntries(r, paths, dest)
    PROVE  FilesInv'
  <1>1. paths \in Seq(Path) /\ dest \in Path
    BY ListsArePaths, TargetsArePaths
  <1>2. PICK row : row = [NoRequest EXCEPT !.pc = "look", !.op = "move", !.paths = paths, !.dest = dest]
    OBVIOUS
  <1>3. RequestInv(row) /\ row.pc = "look"
    BY <1>1, <1>2, NoRequestFits DEF RequestInv, FileRequestFields
  <1>4. fileRequests' = [fileRequests EXCEPT ![r] = row] /\ UNCHANGED <<tree, written, doomed, disturbed>>
    BY <1>2 DEF moveEntries
  <1>5. /\ DOMAIN fileRequests' = FileRequests
        /\ \A q \in FileRequests \ {r} : fileRequests'[q] = fileRequests[q]
        /\ fileRequests'[r] = row /\ RequestInv(fileRequests'[r])
    BY <1>3, <1>4, RowWritten
  <1>6. Looked(tree, fileRequests'[r])
    BY <1>3, <1>5, LooksAtNothing DEF Looking
  <1>7. QED
    BY <1>4, <1>5, <1>6, QuietStep

LEMMA compressEntriesKeeps ==
    ASSUME FilesInv, NEW r \in FileRequests, NEW paths \in Lists, NEW dest \in Targets, compressEntries(r, paths, dest)
    PROVE  FilesInv'
  <1>1. paths \in Seq(Path) /\ dest \in Path
    BY ListsArePaths, TargetsArePaths
  <1>2. PICK row : row = [NoRequest EXCEPT !.pc = "create", !.op = "zip", !.paths = paths, !.dest = dest]
    OBVIOUS
  <1>3. RequestInv(row) /\ row.pc = "create" /\ row.dest = dest
    BY <1>1, <1>2, NoRequestFits DEF RequestInv, FileRequestFields
  <1>4. fileRequests' = [fileRequests EXCEPT ![r] = row] /\ UNCHANGED <<tree, written, doomed, disturbed>>
    BY <1>2 DEF compressEntries
  <1>5. /\ DOMAIN fileRequests' = FileRequests
        /\ \A q \in FileRequests \ {r} : fileRequests'[q] = fileRequests[q]
        /\ fileRequests'[r] = row /\ RequestInv(fileRequests'[r])
    BY <1>3, <1>4, RowWritten
  <1>6. Looked(tree, row)
    BY <1>3 DEF Looked, compressEntries, IsThere
  <1>7. QED
    BY <1>4, <1>5, <1>6, QuietStep

\* A request at one of its entries.
LEMMA AtEntry ==
    ASSUME FilesInv, NEW r \in FileRequests, fileRequests[r].paths # <<>>
    PROVE  Entry(r) \in Path /\ Tail(fileRequests[r].paths) \in Seq(Path)
  <1>1. PICK s \in Seq(Path) : s = fileRequests[r].paths
    BY DEF FilesInv, RequestInv
  <1>2. Head(s) \in Path /\ Tail(s) \in Seq(Path)
    BY <1>1
  <1>3. QED
    BY <1>1, <1>2 DEF Entry

LEMMA NextEntryKeeps ==
    ASSUME FilesInv, NEW r \in FileRequests, fileRequests[r].paths # <<>>, NextEntry(r)
    PROVE  /\ DOMAIN fileRequests' = FileRequests
           /\ \A q \in FileRequests \ {r} : fileRequests'[q] = fileRequests[q]
           /\ RequestInv(fileRequests'[r])
           /\ \A t : Looked(t, fileRequests'[r])
  <1>1. PICK req : req = fileRequests[r]
    OBVIOUS
  <1>2. RequestInv(req) /\ DOMAIN fileRequests = FileRequests
    BY <1>1 DEF FilesInv
  <1>3. PICK row : row = [req EXCEPT !.paths = Tail(req.paths), !.pc = "look"]
    OBVIOUS
  <1>4. row.paths = Tail(req.paths) /\ row.pc = "look" /\ row.dest = req.dest /\ row.content = req.content
        /\ DOMAIN row = FileRequestFields
    BY <1>2, <1>3 DEF RequestInv, FileRequestFields
  <1>5. Tail(req.paths) \in Seq(Path)
    BY <1>1, AtEntry
  <1>6. RequestInv(row)
    BY <1>2, <1>4, <1>5 DEF RequestInv
  <1>7. fileRequests' = [fileRequests EXCEPT ![r] = row]
    BY <1>1, <1>2, <1>3 DEF NextEntry
  <1>8. \A t : Looked(t, row)
    BY <1>4, LooksAtNothing DEF Looking
  <1>9. QED
    BY <1>6, <1>7, <1>8, RowWritten

LEMMA LookEntryKeeps ==
    ASSUME FilesInv, NEW r \in FileRequests, LookEntry(r) PROVE FilesInv'
  <1>1. UNCHANGED <<tree, written, doomed, disturbed>> /\ fileRequests[r].paths # <<>>
    BY DEF LookEntry
  <1>2. \/ EndsRequest(r)
        \/ NextEntry(r)
        \/ Entry(r) # Root /\ ~Taken(r) /\ Turns(r, "rename")
    BY DEF LookEntry
  <1>3. CASE EndsRequest(r)
    BY <1>1, <1>3, RequestEnds, QuietStep
  <1>4. CASE NextEntry(r)
    BY <1>1, <1>4, NextEntryKeeps, QuietStep
  <1>5. CASE Entry(r) # Root /\ ~Taken(r) /\ Turns(r, "rename")
    <2>1. PICK req : req = fileRequests[r]
      OBVIOUS
    <2>2. RequestInv(req) /\ DOMAIN fileRequests = FileRequests
      BY <2>1 DEF FilesInv
    <2>3. PICK row : row = [req EXCEPT !.pc = "rename"]
      OBVIOUS
    <2>4. row.paths = req.paths /\ row.pc = "rename" /\ row.dest = req.dest /\ row.content = req.content
          /\ DOMAIN row = FileRequestFields
      BY <2>2, <2>3 DEF RequestInv, FileRequestFields
    <2>5. RequestInv(row)
      BY <1>1, <1>5, <2>1, <2>2, <2>4 DEF RequestInv, Entry
    <2>6. fileRequests' = [fileRequests EXCEPT ![r] = row]
      BY <1>5, <2>1, <2>2, <2>3 DEF Turns
    <2>7. Looked(tree, row)
      BY <1>5, <2>1, <2>4 DEF Looked, Taken, IsThere, Moved, Entry
    <2>8. QED
      BY <1>1, <2>5, <2>6, <2>7, RowWritten, QuietStep
  <1>6. QED
    BY <1>2, <1>3, <1>4, <1>5

LEMMA RenameToKeeps ==
    ASSUME FilesInv, NEW r \in FileRequests, RenameTo(r) PROVE FilesInv'
  <1>1. TreeInv(tree) /\ written' \in 2..MaxContent /\ written' = written /\ doomed' = doomed /\ Disturbs(r)
    BY DEF FilesInv, RenameTo
  <1>2. PICK req : req = fileRequests[r]
    OBVIOUS
  <1>3. RequestInv(req) /\ req.pc = "rename"
    BY <1>2 DEF FilesInv, RenameTo, Does
  <1>4. req.paths # <<>> /\ Head(req.paths) # <<>> /\ req.dest \in Path
    BY <1>3 DEF RequestInv, Root
  <1>5. CASE CanRename(Entry(r), Moved(r))
    <2>1. tree' = Renamed(Entry(r), Moved(r)) /\ NextEntry(r)
      BY <1>5 DEF RenameTo
    <2>2. PICK from \in Path : from = Entry(r) /\ from # <<>>
      BY <1>2, <1>4, AtEntry DEF Entry
    <2>3. PICK to : to = Moved(r) /\ to = Append(req.dest, Last(from))
      BY <1>2, <2>2 DEF Moved
    <2>4. to \in Path
      BY <1>4, <2>2, <2>3, LastAppended
    <2>5. PICK t : t = Renamed(from, to)
      OBVIOUS
    <2>6. TreeInv(t) /\ \A q \in DOMAIN tree \ {to} : \E x \in DOMAIN t : t[x] = tree[q]
      <3>1. CanRename(from, to)
        BY <1>5, <2>2, <2>3
      <3>2. QED
        BY <1>1, <2>4, <2>5, <3>1, RenamedTree
    <2>7. ASSUME ~disturbed PROVE ContentKept'
      <3>1. Looked(tree, req)
        BY <1>2, <2>7 DEF FilesInv
      <3>2. to \notin DOMAIN tree
        BY <1>2, <1>3, <2>2, <2>3, <3>1 DEF Looked, Entry
      <3>3. KeptIn(tree, t, doomed')
        BY <2>6, <3>2 DEF KeptIn
      <3>4. QED
        BY <1>1, <2>1, <2>2, <2>3, <2>5, <2>7, <3>3, KeptStep
    <2>8. TreeInv(tree')
      BY <2>1, <2>2, <2>3, <2>5, <2>6
    <2>9. /\ DOMAIN fileRequests' = FileRequests
          /\ \A q \in FileRequests \ {r} : fileRequests'[q] = fileRequests[q]
          /\ RequestInv(fileRequests'[r]) /\ Looked(tree', fileRequests'[r])
      BY <1>2, <1>4, <2>1, NextEntryKeeps
    <2>10. QED
      BY <1>1, <2>7, <2>8, <2>9, ChangeStep
  <1>6. CASE ~CanRename(Entry(r), Moved(r))
    <2>1. EndsRequest(r) /\ tree' = tree
      BY <1>6 DEF RenameTo
    <2>2. KeptIn(tree, tree', doomed')
      BY <2>1 DEF KeptIn
    <2>3. ~disturbed => ContentKept'
      BY <1>1, <2>2, KeptStep
    <2>4. QED
      BY <1>1, <2>1, <2>3, RequestEnds, ChangeStep
  <1>7. QED
    BY <1>5, <1>6

LEMMA MoveDoneKeeps ==
    ASSUME FilesInv, NEW r \in FileRequests, MoveDone(r) PROVE FilesInv'
  BY RequestEnds, QuietStep DEF MoveDone

LEMMA ArchiveIsPath == ASSUME NEW d \in Path PROVE Archive(d) \in Path
  <1>1. "zip" \in EntryNames
    BY DEF EntryNames
  <1>2. QED
    BY <1>1, AppendProperties DEF Archive, Path

\* A step that changes no content but those of open files: what requests have
\* looked at stays so.
LEMMA FilledStep ==
    ASSUME FilesInv, DOMAIN tree' = DOMAIN tree, \A p \in DOMAIN tree : tree'[p] \in Nat,
           \A p \in DOMAIN tree : tree[p] <= MaxContent => tree'[p] = tree[p],
           UNCHANGED <<doomed, disturbed>>, written' \in 2..MaxContent,
           written' = written \/ (written' = written + 1 /\ \E p \in DOMAIN tree : tree'[p] = written + 1),
           DOMAIN fileRequests' = FileRequests,
           \A q \in FileRequests : fileRequests'[q] = fileRequests[q] \/ fileRequests'[q] = NoRequest
    PROVE  FilesInv'
  <1>1. TreeInv(tree')
    BY DEF FilesInv, TreeInv
  <1>2. \A q \in FileRequests : RequestInv(fileRequests'[q])
    BY NoRequestFits DEF FilesInv
  <1>3. MaxContent \in Nat /\ written \in 2..MaxContent /\ disturbed' \in BOOLEAN
    BY FilesAssumption DEF FilesInv
  <1>4. ASSUME ~disturbed', NEW q \in FileRequests PROVE Looked(tree', fileRequests'[q])
    <2>1. CASE fileRequests'[q] = NoRequest
      BY <2>1, NoRequestFits
    <2>2. CASE fileRequests'[q] = fileRequests[q]
      <3>1. PICK req : req = fileRequests[q]
        OBVIOUS
      <3>2. Looked(tree, req)
        BY <1>4, <3>1 DEF FilesInv
      <3>3. req.pc = "adding" => tree'[Archive(req.dest)] = req.content
        <4> HAVE req.pc = "adding"
        <4>1. PICK a : a = Archive(req.dest)
          OBVIOUS
        <4>2. a \in DOMAIN tree /\ tree[a] = req.content /\ req.content \in 1..MaxContent
          BY <3>2, <4>1 DEF Looked
        <4>3. tree[a] <= MaxContent
          BY <1>3, <4>2
        <4>4. QED
          BY <4>1, <4>2, <4>3
      <3>4. Looked(tree', req)
        BY <3>2, <3>3 DEF Looked
      <3>5. QED
        BY <2>2, <3>1, <3>4
    <2>3. QED
      BY <2>1, <2>2
  <1>5. ASSUME ~disturbed, NEW c \in 1..written' PROVE c \in doomed' \/ \E p \in DOMAIN tree' : tree'[p] = c
    <2>1. CASE c \in 1..written
      <3>1. c \in doomed \/ \E p \in DOMAIN tree : tree[p] = c
        BY <1>5, <2>1 DEF FilesInv, ContentKept
      <3>2. c <= MaxContent
        BY <1>3, <2>1
      <3>3. QED
        BY <3>1, <3>2
    <2>2. CASE c \notin 1..written
      <3>1. written' = written + 1 /\ c = written + 1
        BY <1>3, <2>2
      <3>2. QED
        BY <3>1
    <2>3. QED
      BY <2>1, <2>2
  <1>6. ContentKept'
    BY <1>5 DEF ContentKept
  <1>7. QED
    BY <1>1, <1>2, <1>3, <1>4, <1>6 DEF FilesInv

LEMMA FillKeeps ==
    ASSUME FilesInv, NEW r \in FileRequests, Fill(r) PROVE FilesInv'
  <1>1. PICK open : open = {p \in DOMAIN tree : tree[p] = Truncated(r)}
    OBVIOUS
  <1>2. /\ EndsRequest(r) /\ written < MaxContent
        /\ written' = IF open = {} THEN written ELSE written + 1
        /\ tree' = [p \in DOMAIN tree |-> IF p \in open THEN written + 1 ELSE tree[p]]
        /\ UNCHANGED <<doomed, disturbed>>
    BY <1>1 DEF Fill
  <1>3. MaxContent \in Nat /\ written \in 2..MaxContent /\ r \in Nat /\ \A p \in DOMAIN tree : tree[p] \in Nat
    BY FilesAssumption DEF FilesInv, TreeInv
  <1>4. written' \in 2..MaxContent
    BY <1>2, <1>3
  <1>5. \A p \in open : ~(tree[p] <= MaxContent)
    BY <1>1, <1>3 DEF Truncated
  <1>6. DOMAIN tree' = DOMAIN tree /\ \A p \in DOMAIN tree : tree'[p] = IF p \in open THEN written + 1 ELSE tree[p]
    BY <1>2
  <1>7. \A p \in DOMAIN tree : tree'[p] \in Nat /\ (tree[p] <= MaxContent => tree'[p] = tree[p])
    BY <1>3, <1>5, <1>6
  <1>8. written' = written \/ (written' = written + 1 /\ \E p \in DOMAIN tree : tree'[p] = written + 1)
    BY <1>1, <1>2, <1>6
  <1>9. DOMAIN fileRequests' = FileRequests
        /\ \A q \in FileRequests : fileRequests'[q] = fileRequests[q] \/ fileRequests'[q] = NoRequest
    BY <1>2, RequestEnds
  <1>10. QED
    BY <1>2, <1>4, <1>6, <1>7, <1>8, <1>9, FilledStep

LEMMA FillFailsKeeps ==
    ASSUME FilesInv, NEW r \in FileRequests, FillFails(r) PROVE FilesInv'
  <1>1. /\ EndsRequest(r) /\ written' = written
        /\ tree' = [p \in DOMAIN tree |-> IF tree[p] = Truncated(r) THEN Empty ELSE tree[p]]
        /\ UNCHANGED <<doomed, disturbed>>
    BY DEF FillFails
  <1>2. MaxContent \in Nat /\ written \in 2..MaxContent /\ r \in Nat /\ \A p \in DOMAIN tree : tree[p] \in Nat
    BY FilesAssumption DEF FilesInv, TreeInv
  <1>3. DOMAIN tree' = DOMAIN tree
    BY <1>1
  <1>4. \A p \in DOMAIN tree : tree'[p] \in Nat /\ (tree[p] <= MaxContent => tree'[p] = tree[p])
    BY <1>1, <1>2 DEF Truncated, Empty
  <1>5. DOMAIN fileRequests' = FileRequests
        /\ \A q \in FileRequests : fileRequests'[q] = fileRequests[q] \/ fileRequests'[q] = NoRequest
    BY <1>1, RequestEnds
  <1>6. QED
    BY <1>1, <1>2, <1>3, <1>4, <1>5, FilledStep

LEMMA PanelStopsKeeps ==
    ASSUME FilesInv, PanelStops PROVE FilesInv'
  <1>1. /\ written' = written /\ UNCHANGED <<doomed, disturbed>>
        /\ tree' = [p \in DOMAIN tree |-> IF tree[p] > MaxContent THEN Empty ELSE tree[p]]
        /\ fileRequests' = [r \in FileRequests |-> NoRequest]
    BY DEF PanelStops
  <1>2. MaxContent \in Nat /\ written \in 2..MaxContent /\ \A p \in DOMAIN tree : tree[p] \in Nat
    BY FilesAssumption DEF FilesInv, TreeInv
  <1>3. DOMAIN tree' = DOMAIN tree
    BY <1>1
  <1>4. \A p \in DOMAIN tree : tree'[p] \in Nat /\ (tree[p] <= MaxContent => tree'[p] = tree[p])
    BY <1>1, <1>2 DEF Empty
  <1>5. QED
    BY <1>1, <1>2, <1>3, <1>4, FilledStep

LEMMA CreateArchiveKeeps ==
    ASSUME FilesInv, NEW r \in FileRequests, CreateArchive(r) PROVE FilesInv'
  <1>1. TreeInv(tree) /\ doomed' = doomed /\ Disturbs(r) /\ written < MaxContent
    BY DEF FilesInv, CreateArchive
  <1>2. MaxContent \in Nat /\ written \in 2..MaxContent
    BY FilesAssumption DEF FilesInv
  <1>3. PICK req : req = fileRequests[r]
    OBVIOUS
  <1>4. RequestInv(req) /\ req.pc = "create" /\ DOMAIN fileRequests = FileRequests
    BY <1>3 DEF FilesInv, CreateArchive, Does
  <1>5. PICK a \in Path : a = Archive(req.dest)
    BY <1>4, ArchiveIsPath DEF RequestInv
  <1>6. CASE CanWrite(Archive(fileRequests[r].dest)) /\ IsDir(fileRequests[r].dest)
    <2>1. /\ tree' = Stored(a, written + 1) /\ written' = written + 1
          /\ fileRequests' = [fileRequests EXCEPT ![r].pc = "adding", ![r].content = written + 1]
      BY <1>3, <1>5, <1>6 DEF CreateArchive
    <2>2. PICK row : row = [req EXCEPT !.pc = "adding", !.content = written + 1]
      OBVIOUS
    <2>3. row.paths = req.paths /\ row.pc = "adding" /\ row.dest = req.dest /\ row.content = written + 1
          /\ DOMAIN row = FileRequestFields
      BY <1>4, <2>2 DEF RequestInv, FileRequestFields
    <2>4. written + 1 \in Nat /\ written + 1 \in 1..MaxContent /\ written' \in 2..MaxContent
      BY <1>1, <1>2, <2>1
    <2>5. RequestInv(row)
      BY <1>4, <2>3, <2>4 DEF RequestInv
    <2>6. fileRequests' = [fileRequests EXCEPT ![r] = row]
      BY <1>3, <1>4, <2>1, <2>2
    <2>7. PICK t : t = Stored(a, written + 1)
      OBVIOUS
    <2>8. /\ TreeInv(t) /\ a \in DOMAIN t /\ t[a] = written + 1
          /\ \A q \in Path : IsPrefix(a, q) /\ q # a /\ q \in DOMAIN t => q \in DOMAIN tree
      BY <1>1, <2>4, <2>7, StoredTree
    <2>9. ASSUME ~disturbed PROVE Looked(t, row) /\ ContentKept'
      <3>1. a \notin DOMAIN tree
        BY <1>3, <1>4, <1>5, <2>9 DEF FilesInv, Looked
      <3>2. \A q \in DOMAIN t : IsPrefix(a, q) => q = a
        BY <1>1, <2>8, <3>1 DEF TreeInv
      <3>3. Looked(t, row)
        BY <1>5, <2>3, <2>4, <2>8, <3>2 DEF Looked
      <3>4. KeptIn(tree, t, doomed)
        BY <1>1, <2>4, <2>7, <3>1, StoredKeeps
      <3>5. ASSUME NEW c \in 1..written' PROVE c \in doomed' \/ \E p \in DOMAIN t : t[p] = c
        <4>1. CASE c = written + 1
          BY <2>8, <4>1
        <4>2. CASE c # written + 1
          <5>1. c \in 1..written /\ c \in 1..MaxContent
            BY <1>2, <2>1, <4>2
          <5>2. c \in doomed \/ \E p \in DOMAIN tree : tree[p] = c
            BY <2>9, <5>1 DEF FilesInv, ContentKept
          <5>3. QED
            BY <1>1, <3>4, <5>1, <5>2 DEF KeptIn
        <4>3. QED
          BY <4>1, <4>2
      <3>6. ContentKept'
        BY <2>1, <2>7, <3>5 DEF ContentKept
      <3>7. QED
        BY <3>3, <3>6
    <2>10. /\ DOMAIN fileRequests' = FileRequests
           /\ \A q \in FileRequests \ {r} : fileRequests'[q] = fileRequests[q]
           /\ fileRequests'[r] = row /\ RequestInv(fileRequests'[r])
      BY <2>5, <2>6, RowWritten
    <2>11. QED
      BY <1>1, <2>1, <2>4, <2>7, <2>8, <2>9, <2>10, ChangeStep
  <1>7. CASE ~(CanWrite(Archive(fileRequests[r].dest)) /\ IsDir(fileRequests[r].dest))
    <2>1. EndsRequest(r) /\ tree' = tree /\ written' = written
      BY <1>7 DEF CreateArchive
    <2>2. KeptIn(tree, tree', doomed')
      BY <2>1 DEF KeptIn
    <2>3. ~disturbed => ContentKept'
      BY <1>1, <2>1, <2>2, KeptStep
    <2>4. QED
      BY <1>1, <1>2, <2>1, <2>3, RequestEnds, ChangeStep
  <1>8. QED
    BY <1>6, <1>7

LEMMA AddToZipKeeps ==
    ASSUME FilesInv, NEW r \in FileRequests, AddToZip(r) PROVE FilesInv'
  <1>1. UNCHANGED <<tree, written, doomed, disturbed>> /\ fileRequests[r].paths # <<>>
    BY DEF AddToZip
  <1>2. PICK req : req = fileRequests[r]
    OBVIOUS
  <1>3. RequestInv(req) /\ req.pc = "adding" /\ DOMAIN fileRequests = FileRequests
    BY <1>2 DEF FilesInv, AddToZip, Does
  <1>4. PICK row : row = [req EXCEPT !.paths = Tail(req.paths)]
    OBVIOUS
  <1>5. row.paths = Tail(req.paths) /\ row.pc = "adding" /\ row.dest = req.dest /\ row.content = req.content
        /\ DOMAIN row = FileRequestFields
    BY <1>3, <1>4 DEF RequestInv, FileRequestFields
  <1>6. Tail(req.paths) \in Seq(Path)
    BY <1>1, <1>2, AtEntry
  <1>7. RequestInv(row)
    BY <1>3, <1>5, <1>6 DEF RequestInv
  <1>8. fileRequests' = [fileRequests EXCEPT ![r] = row]
    BY <1>2, <1>3, <1>4 DEF AddToZip
  <1>9. ~disturbed => Looked(tree, row)
    <2> HAVE ~disturbed
    <2>1. Looked(tree, req)
      BY <1>2 DEF FilesInv
    <2>2. QED
      BY <1>3, <1>5, <2>1 DEF Looked
  <1>10. QED
    BY <1>1, <1>7, <1>8, <1>9, RowWritten, QuietStep

LEMMA AddFailsKeeps ==
    ASSUME FilesInv, NEW r \in FileRequests, AddFails(r) PROVE FilesInv'
  <1>1. /\ TreeInv(tree) /\ written' \in 2..MaxContent /\ written' = written /\ Disturbs(r) /\ EndsRequest(r)
        /\ doomed' = doomed \cup {fileRequests[r].content}
    BY DEF FilesInv, AddFails
  <1>2. PICK req : req = fileRequests[r]
    OBVIOUS
  <1>3. RequestInv(req) /\ req.pc = "adding"
    BY <1>2 DEF FilesInv, AddFails, Does
  <1>4. PICK a \in Path : a = Archive(req.dest)
    BY <1>3, ArchiveIsPath DEF RequestInv
  <1>5. tree' = IF IsDir(a) THEN tree ELSE RemovedAll(a)
    BY <1>2, <1>4 DEF AddFails
  <1>6. PICK t : t = RemovedAll(a)
    OBVIOUS
  <1>7. TreeInv(t) /\ DOMAIN t = DOMAIN tree \ Below(a) /\ \A q \in DOMAIN t : t[q] = tree[q]
    BY <1>1, <1>6, RemovedTree
  <1>8. TreeInv(tree')
    BY <1>1, <1>5, <1>6, <1>7
  <1>9. ASSUME ~disturbed PROVE ContentKept'
    <2>1. Looked(tree, req)
      BY <1>2, <1>9 DEF FilesInv
    <2>2. tree[a] = req.content /\ \A q \in DOMAIN tree : IsPrefix(a, q) => q = a
      BY <1>3, <1>4, <2>1 DEF Looked
    <2>3. KeptIn(tree, t, doomed')
      BY <1>1, <1>2, <1>7, <2>2 DEF KeptIn, Below
    <2>4. KeptIn(tree, tree, doomed')
      BY DEF KeptIn
    <2>5. KeptIn(tree, tree', doomed')
      BY <1>5, <1>6, <2>3, <2>4
    <2>6. QED
      BY <1>1, <1>9, <2>5, KeptStep
  <1>10. QED
    BY <1>1, <1>8, <1>9, RequestEnds, ChangeStep

LEMMA FinalizeKeeps ==
    ASSUME FilesInv, NEW r \in FileRequests, Finalize(r) PROVE FilesInv'
  BY RequestEnds, QuietStep DEF Finalize

LEMMA FilesInvNext == FilesInv /\ [FilesNext]_fileVars => FilesInv'
  <1> SUFFICES ASSUME FilesInv, [FilesNext]_fileVars PROVE FilesInv'
    OBVIOUS
  <1>1. CASE UNCHANGED fileVars
    BY <1>1 DEF FilesInv, TreeInv, Looked, RequestInv, ContentKept, fileVars
  <1>2. CASE PanelStops
    BY <1>2, PanelStopsKeeps
  <1>3. ASSUME NEW r \in FileRequests, NEW p \in Targets,
               \/ \E op \in {"write", "upload"} : writeFile(r, op, p)
               \/ \E isDir \in BOOLEAN : createEntry(r, p, isDir)
               \/ deleteEntry(r, p)
               \/ \E name \in NewNames : renameEntry(r, p, name)
        PROVE  FilesInv'
    BY <1>3, writeFileKeeps, createEntryKeeps, deleteEntryKeeps, renameEntryKeeps
  <1>4. ASSUME NEW r \in FileRequests, NEW paths \in Lists, NEW dest \in Targets,
               moveEntries(r, paths, dest) \/ compressEntries(r, paths, dest)
        PROVE  FilesInv'
    BY <1>4, moveEntriesKeeps, compressEntriesKeeps
  <1>5. ASSUME NEW r \in FileRequests,
               \/ Fill(r) \/ FillFails(r) \/ LookEntry(r) \/ RenameTo(r) \/ MoveDone(r)
               \/ CreateArchive(r) \/ AddToZip(r) \/ AddFails(r) \/ Finalize(r)
        PROVE  FilesInv'
    BY <1>5, FillKeeps, FillFailsKeeps, LookEntryKeeps, RenameToKeeps, MoveDoneKeeps,
       CreateArchiveKeeps, AddToZipKeeps, AddFailsKeeps, FinalizeKeeps
  <1>6. QED
    BY <1>1, <1>2, <1>3, <1>4, <1>5 DEF FilesNext

\* Moves, archives, renames and failed writes lose nothing that no request was told
\* to overwrite or delete, for any number of requests, paths and contents, unless
\* something changed between a request's look and its step.  As long as nothing did,
\* the os.Rename of a move meets no file at its target, and what a failed archive
\* removes is that archive.
THEOREM ContentKeptHolds == FilesSpec => []ContentKept
  <1>1. FilesInv => ContentKept
    BY DEF FilesInv
  <1>2. QED
    BY <1>1, FilesInvInit, FilesInvNext, PTL DEF FilesSpec

=============================================================================
