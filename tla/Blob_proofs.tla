----------------------------- MODULE Blob_proofs -----------------------------
(***************************************************************************)
(* A file's row never turns up without its blob.  Nearly every step only   *)
(* moves rows about (Moves); the four that do not are StartBlob,           *)
(* FinishBlob, Persist and the acceptance of a new file.                   *)
(***************************************************************************)
EXTENDS Javka_proofs

\* A step that writes no blob, draws no id and brings in no file row: rows
\* only move, and whoever still has a save to do goes on with the same one.
Moves ==
    /\ FileRows' \subseteq FileRows
    /\ UNCHANGED <<disk, used>>
    /\ \A v \in Workers : job'[v].op = "save" =>
          job'[v] = job[v] /\ (Uploading(v)' <=> Uploading(v))

\* A step that only moves rows keeps BlobInv.
LEMMA BlobMoves ==
  ASSUME BlobInv, Moves
  PROVE  BlobInv'
  <1>1. \A r \in FileRows' : r \in FileRows
    BY DEF Moves
  <1>2. RowHasBlob'
    BY <1>1 DEF BlobInv, RowHasBlob, FileRows, Moves
  <1>3. \A r \in FileRows' : r.id \in used'
    BY <1>1 DEF BlobInv, Moves
  <1>4. ASSUME NEW w \in Workers, job'[w].op = "save"
        PROVE  /\ job'[w].row.id \in used'
               /\ IF Uploading(w)'
                  THEN \A r \in FileRows' : r.id # job'[w].row.id
                  ELSE ~job'[w].row.folder => disk'[job'[w].row.id] = "complete"
               /\ \A v \in Workers : v # w /\ job'[v].op = "save" =>
                     job'[v].row.id # job'[w].row.id
    BY <1>1, <1>4 DEF BlobInv, Moves
  <1>. QED BY <1>2, <1>3, <1>4 DEF BlobInv

\* The file rows after a step on the connection, the EntityManager untouched.
LEMMA RowsConn ==
  ASSUME TypeOK
  PROVE  /\ UNCHANGED <<conn, unit>> => FileRows' = FileRows
         /\ Fail /\ UNCHANGED unit => FileRows' = FileRows
         /\ Mark /\ pending' \subseteq pending /\ context' \subseteq context =>
                FileRows' \subseteq FileRows
         /\ \A rows : /\ Write(rows)
                      /\ \A r \in rows : r.table = "files" => r \in FileRows
                      /\ pending' \subseteq pending /\ context' \subseteq context \cup FileRows
                      => FileRows' \subseteq FileRows
  BY DEF FileRows, conn, unit, Fail, Mark, Write

\* A step to the next call is such a step, unless it leads to or from a blob;
LEMMA MovesGoto ==
  ASSUME TypeOK, NEW w \in Workers, NEW l, Goto(w, l), FileRows' \subseteq FileRows,
         UNCHANGED <<disk, used>>,
         pc[w] \notin {"saveFile", "writing"}, l \notin {"saveFile", "writing"}
  PROVE  Moves
  BY DEF Moves, Goto, Uploading, TypeOK, ProcOK

\* so is an answer,
LEMMA MovesAnswer ==
  ASSUME TypeOK, NEW w \in Workers, NEW rows, Answer(w, rows), FileRows' \subseteq FileRows,
         UNCHANGED <<disk, used>>
  PROVE  Moves
  BY DEF Moves, Answer, Uploading, TypeOK, ProcOK, NoJob

\* isActive(), begin() and commit(), which moves the queued rows,
LEMMA MovesBracket ==
  ASSUME TypeOK, NEW w \in Workers, UNCHANGED <<disk, used>>,
         NEW body, body \notin {"saveFile", "writing"}, NEW effect,
         \/ IsActive(w, body) /\ pc[w] = "isActive"
         \/ Begin(w, body) /\ pc[w] = "begin"
         \/ Commit(w, effect)
  PROVE  Moves
  <1>1. CASE IsActive(w, body) /\ pc[w] = "isActive"
    BY <1>1, MovesGoto, RowsConn DEF IsActive
  <1>2. CASE Begin(w, body) /\ pc[w] = "begin"
    <2>1. FileRows' = FileRows
      BY <1>2 DEF Begin, FileRows, unit
    <2>. QED BY <1>2, <2>1, MovesGoto, MovesAnswer DEF Begin, Refuse
  <1>3. CASE Commit(w, effect)
    <2>1. FileRows' \subseteq FileRows
      BY <1>3 DEF Commit, Rollback, FileRows, conn, unit
    <2>. QED BY <1>3, <2>1, MovesAnswer DEF Commit, Refuse
  <1>. QED BY <1>1, <1>2, <1>3

\* and an executeUpdate, whose rows are shares and memberships.
LEMMA MovesExecute ==
  ASSUME TypeOK, NEW w \in Workers, NEW rows, NEW valid,
         Execute(w, rows, valid, "commit"), pc[w] \notin {"saveFile", "writing"},
         \A r \in rows : r.table # "files", UNCHANGED <<unit, disk, used>>
  PROVE  Moves
  <1>1. FileRows' \subseteq FileRows
    BY RowsConn DEF Execute, unit
  <1>. QED BY <1>1, MovesGoto, MovesAnswer DEF Execute, Refuse

\* A handler that only reads writes nothing.
LEMMA BlobQuery ==
  ASSUME TypeOK, BlobInv, NEW w \in Workers, NEW op, Query(w, op), UNCHANGED <<disk, used>>
  PROVE  BlobInv'
  <1>1. FileRows' \subseteq FileRows
    BY RowsConn DEF Query, unit
  <1>. QED BY <1>1, MovesAnswer, BlobMoves DEF Query, At

\* signUp writes a users row and no file row.
LEMMA BlobSignUp ==
  ASSUME TypeOK, BlobInv, NEW w \in Workers, UserStep(w), UNCHANGED <<disk, used>>
  PROVE  BlobInv'
  <1>1. CASE LogIn(w) \/ SaveUser(w)
    <2>1. \A r \in {User(nextUser, job[w])} : r.table # "files"
      BY DEF User
    <2>2. FileRows' \subseteq FileRows
      BY <1>1, <2>1, RowsConn DEF LogIn, SaveUser, unit
    <2>. QED BY <1>1, <2>2, MovesGoto, MovesAnswer, BlobMoves
         DEF LogIn, SaveUser, At, Refuse
  <1>2. CASE ListUsers(w) \/ (Query(w, "current") /\ CurrentUser(w))
    BY <1>2, BlobQuery DEF ListUsers
  <1>3. CASE At(w, "query", "current") /\ Answer(w, {}) /\ UNCHANGED <<conn, unit>>
    <2>1. FileRows' \subseteq FileRows
      BY <1>3, RowsConn DEF unit
    <2>. QED BY <1>3, <2>1, MovesAnswer, BlobMoves DEF At
  <1>. QED BY <1>1, <1>2, <1>3 DEF UserStep, CurrentUser

\* createGroup writes a group and memberships.
LEMMA BlobGroup ==
  ASSUME TypeOK, BlobInv, NEW w \in Workers, GroupStep(w), UNCHANGED <<disk, used>>
  PROVE  BlobInv'
  <1>1. CASE GroupIsActive(w) \/ GroupBegin(w) \/ GroupCommit(w)
    BY <1>1, MovesBracket, BlobMoves DEF GroupIsActive, GroupBegin, GroupCommit, At
  <1>2. CASE InsertGroup(w)
    <2> DEFINE row == [job[w].row EXCEPT !.id = nextGroup]
    <2>0. job[w] \in GroupJob
      BY <1>2, JobType DEF InsertGroup, At, TypeOK
    <2>1. \A r \in {row} : r.table # "files"
      BY <2>0 DEF GroupJob, GroupRow
    <2>2. CASE Fail /\ Refuse(w)
      BY <1>2, <2>2, RowsConn, MovesAnswer, BlobMoves DEF InsertGroup, Refuse
    <2>3. CASE /\ Write({row}) /\ job' = [job EXCEPT ![w].row = row]
               /\ pc' = [pc EXCEPT ![w] = "insertMembers"]
      <3>1. FileRows' \subseteq FileRows
        BY <1>2, <2>1, <2>3, RowsConn DEF InsertGroup, unit
      <3>2. job'[w].op = "group"
        BY <2>0, <2>3 DEF GroupJob, TypeOK, ProcOK
      <3>3. Moves
        BY <2>3, <3>1, <3>2 DEF Moves, Uploading, TypeOK, ProcOK
      <3>. QED BY <3>3, BlobMoves
    <2>. QED BY <1>2, <2>2, <2>3 DEF InsertGroup
  <1>3. CASE InsertMembers(w)
    <2>1. \A r \in Members(job[w]) : r.table # "files"
      BY DEF Members, UserGroup
    <2>2. CASE Refuse(w) /\ UNCHANGED conn
      BY <1>3, <2>2, RowsConn, MovesAnswer, BlobMoves DEF InsertMembers, Refuse
    <2>. QED BY <1>3, <2>1, <2>2, MovesExecute, BlobMoves DEF InsertMembers, At
  <1>4. CASE ListGroups(w)
    BY <1>4, BlobQuery DEF ListGroups
  <1>. QED BY <1>1, <1>2, <1>3, <1>4 DEF GroupStep

\* The blob is written before anything refers to it.
LEMMA BlobUpload ==
  ASSUME TypeOK, BlobInv, NEW w \in Workers, StartBlob(w) \/ FinishBlob(w), UNCHANGED used
  PROVE  BlobInv'
  <1> DEFINE id == job[w].row.id
  <1>0. /\ Uploading(w) /\ job[w].op = "save" /\ id \in FileIds
        /\ FileRows' = FileRows
    BY JobType DEF StartBlob, FinishBlob, At, Uploading, TypeOK, SaveJob, FileRow,
                   FileRows, conn, unit
  <1>1. \A r \in FileRows : r.id # id
    BY <1>0 DEF BlobInv
  <1>2. CASE Refuse(w) /\ UNCHANGED disk
    BY <1>0, <1>2, MovesAnswer, BlobMoves DEF Refuse
  <1>3. ASSUME NEW b, NEW l, Blob(id, b), Goto(w, l), l # "writing" => b = "complete",
               l # "saveFile"
        PROVE  BlobInv'
    <2>1. /\ disk'[id] = b /\ \A f \in FileIds : f # id => disk'[f] = disk[f]
          /\ job' = job /\ pc'[w] = l
          /\ \A v \in Workers : v # w => pc'[v] = pc[v]
      BY <1>0, <1>3 DEF Blob, Goto, TypeOK, StoreOK, ProcOK
    <2>2. RowHasBlob'
      <3>1. \A r \in FileRows : r.id \in FileIds
        BY FileRowType DEF FileRows, TypeOK, ConnOK, UnitOK, FileRow
      <3>2. \A r \in FileRows' : ~r.folder => disk[r.id] = "complete"
        BY <1>0 DEF BlobInv, RowHasBlob, FileRows
      <3>. QED BY <1>0, <1>1, <2>1, <3>1, <3>2 DEF RowHasBlob, FileRows
    <2>3. ASSUME NEW v \in Workers, job'[v].op = "save"
          PROVE  /\ job'[v].row.id \in used'
                 /\ IF Uploading(v)'
                    THEN \A r \in FileRows' : r.id # job'[v].row.id
                    ELSE ~job'[v].row.folder => disk'[job'[v].row.id] = "complete"
                 /\ \A u \in Workers : u # v /\ job'[u].op = "save" =>
                       job'[u].row.id # job'[v].row.id
      <3>1. job[v].row.id \in FileIds
        BY <2>1, <2>3, JobType DEF TypeOK, SaveJob, FileRow
      <3>2. CASE v = w
        BY <1>0, <1>1, <1>3, <2>1, <2>3, <3>2 DEF BlobInv, Uploading
      <3>3. CASE v # w
        BY <1>0, <2>1, <2>3, <3>1, <3>3 DEF BlobInv, Uploading
      <3>. QED BY <3>2, <3>3
    <2>. QED BY <1>0, <2>2, <2>3 DEF BlobInv
  <1>. QED BY <1>2, <1>3 DEF StartBlob, FinishBlob

\* The one step that brings in a file row: its blob is complete by then.
LEMMA BlobPersist ==
  ASSUME TypeOK, BlobInv, NEW w \in Workers, Persist(w), UNCHANGED used
  PROVE  BlobInv'
  <1> DEFINE row == job[w].row
  <1>0. /\ job[w].op = "save" /\ ~Uploading(w) /\ row.table = "files"
        /\ ~Uploading(w)' /\ job' = job /\ disk' = disk
        /\ \A v \in Workers : v # w => pc'[v] = pc[v]
    BY JobType DEF Persist, At, Goto, Uploading, TypeOK, ProcOK, SaveJob, FileRow
  <1>1. FileRows' = FileRows \cup {row}
    BY <1>0 DEF Persist, FileRows, conn
  <1>2. row.id \in used /\ (~row.folder => disk[row.id] = "complete")
    BY <1>0 DEF BlobInv
  <1>3. RowHasBlob'
    <2>1. \A r \in FileRows' : ~r.folder => disk[r.id] = "complete"
      BY <1>1, <1>2 DEF BlobInv, RowHasBlob, FileRows
    <2>. QED BY <1>0, <2>1 DEF RowHasBlob, FileRows
  <1>4. ASSUME NEW v \in Workers, job'[v].op = "save"
        PROVE  /\ job'[v].row.id \in used'
               /\ IF Uploading(v)'
                  THEN \A r \in FileRows' : r.id # job'[v].row.id
                  ELSE ~job'[v].row.folder => disk'[job'[v].row.id] = "complete"
               /\ \A u \in Workers : u # v /\ job'[u].op = "save" =>
                     job'[u].row.id # job'[v].row.id
    BY <1>0, <1>1, <1>4 DEF BlobInv, Uploading
  <1>. QED BY <1>1, <1>2, <1>3, <1>4 DEF BlobInv

\* Every step of upload, share, download and listing keeps BlobInv.
LEMMA BlobFile ==
  ASSUME TypeOK, BlobInv, NEW w \in Workers, FileStep(w), UNCHANGED used
  PROVE  BlobInv'
  <1>1. CASE CheckCreator(w) \/ FindDownload(w)
    <2>1. PICK f : Find(f)
      BY <1>1 DEF CheckCreator, FindDownload
    <2>2. FindOne(f) \subseteq FileRows
      BY DEF FindOne, FileRows
    <2>3. FileRows' \subseteq FileRows
      BY <2>1, <2>2 DEF Find, FileRows, Fail, conn
    <2>. QED BY <1>1, <2>3, MovesGoto, MovesAnswer, BlobMoves
         DEF CheckCreator, FindDownload, At, Refuse
  <1>2. CASE ShareIsActive(w) \/ ShareBegin(w) \/ SaveIsActive(w) \/ SaveBegin(w)
             \/ ShareCommit(w) \/ SaveCommit(w)
    BY <1>2, MovesBracket, BlobMoves
    DEF ShareIsActive, ShareBegin, SaveIsActive, SaveBegin, ShareCommit, SaveCommit, At
  <1>3. CASE InsertShare(w)
    <2>1. \A r \in {job[w].row} : r.table # "files"
      BY <1>3, JobType
      DEF InsertShare, At, TypeOK, ShareJob, ShareRow, UserFileRow, GroupFileRow
    <2>. QED BY <1>3, <2>1, MovesExecute, BlobMoves DEF InsertShare, At
  <1>4. CASE StartBlob(w) \/ FinishBlob(w)
    BY <1>4, BlobUpload
  <1>5. CASE Persist(w)
    BY <1>5, BlobPersist
  <1>6. CASE Flush(w)
    <2>1. \A r \in pending : r.table = "files" => r \in FileRows
      BY DEF FileRows
    <2>2. FileRows' \subseteq FileRows
      BY <1>6, <2>1, RowsConn DEF Flush, unit
    <2>. QED BY <1>6, <2>2, MovesGoto, MovesAnswer, BlobMoves DEF Flush, At, Refuse
  <1>7. CASE Refresh(w)
    <2>1. FileRows' \subseteq FileRows
      BY <1>7 DEF Refresh, FileRows, conn, Fail, Mark
    <2>. QED BY <1>7, <2>1, MovesGoto, MovesAnswer, BlobMoves DEF Refresh, At, Refuse
  <1>8. CASE CheckAccess(w) \/ ReadBlob(w)
    <2>1. FileRows' \subseteq FileRows
      BY <1>8, RowsConn DEF CheckAccess, ReadBlob, unit
    <2>. QED BY <1>8, <2>1, MovesGoto, MovesAnswer, BlobMoves
         DEF CheckAccess, ReadBlob, At, Refuse
  <1>9. CASE ListFiles(w)
    <2> DEFINE flushed == IF tx = "open" THEN pending ELSE {}
               listed == Listing(work \cup flushed, job[w].uid, job[w].dir)
    <2>1. listed \subseteq FileRows /\ \A r \in flushed : r.table = "files" => r \in FileRows
      BY DEF Listing, FileRows
    <2>2. FileRows' \subseteq FileRows
      BY <1>9, <2>1, RowsConn DEF ListFiles
    <2>. QED BY <1>9, <2>2, MovesAnswer, BlobMoves DEF ListFiles
  <1>. QED BY <1>1, <1>2, <1>3, <1>4, <1>5, <1>6, <1>7, <1>8, <1>9 DEF FileStep

\* An upload starts with an id of its own, a folder with nothing to write.
LEMMA BlobNewFile ==
  ASSUME TypeOK, BlobInv, NEW w \in Workers, NEW t \in tokens, NEW f \in FileIds \ used,
         NEW parent, NEW folder \in BOOLEAN, NEW fits, NEW op, NEW label,
         Accept(w, op, NewFile(f, t, parent, folder, fits), label),
         used' = used \cup {f}, folder \/ label = "saveFile"
  PROVE  BlobInv'
  <1> DEFINE j == NewFile(f, t, parent, folder, fits)
  <1>0. /\ j.op = "save" /\ j.row.id = f /\ j.row.folder = folder
        /\ job'[w] = j /\ pc'[w] = label
        /\ \A v \in Workers : v # w => job'[v] = job[v] /\ pc'[v] = pc[v]
        /\ FileRows' = FileRows /\ disk' = disk
    BY DEF NewFile, Accept, TypeOK, ProcOK, FileRows, conn, unit
  <1>1. \A r \in FileRows : r.id \in used
    BY DEF BlobInv
  <1>2. RowHasBlob'
    BY <1>0 DEF Accept, conn, unit, BlobInv, RowHasBlob
  <1>3. ASSUME NEW v \in Workers, job'[v].op = "save"
        PROVE  /\ job'[v].row.id \in used'
               /\ IF Uploading(v)'
                  THEN \A r \in FileRows' : r.id # job'[v].row.id
                  ELSE ~job'[v].row.folder => disk'[job'[v].row.id] = "complete"
               /\ \A u \in Workers : u # v /\ job'[u].op = "save" =>
                     job'[u].row.id # job'[v].row.id
    <2>1. CASE v = w
      BY <1>0, <1>1, <1>3, <2>1 DEF BlobInv, Uploading
    <2>2. CASE v # w
      BY <1>0, <1>3, <2>2 DEF BlobInv, Uploading
    <2>. QED BY <2>1, <2>2
  <1>. QED BY <1>0, <1>1, <1>2, <1>3 DEF BlobInv

\* So does every request,
LEMMA BlobRequest ==
  ASSUME TypeOK, BlobInv, NEW w \in Workers, Request(w)
  PROVE  BlobInv'
  <1>1. CASE AcceptUpload(w) \/ AcceptFolder(w)
    <2>1. PICK t \in tokens, f \in FileIds \ used, parent \in FileIds \cup {NoFile},
               fits \in BOOLEAN, folder \in BOOLEAN, op \in Operations, label \in FirstLabels :
             /\ Accept(w, op, NewFile(f, t, parent, folder, fits), label)
             /\ used' = used \cup {f} /\ (folder \/ label = "saveFile")
      <3>1. CASE AcceptUpload(w)
        BY <3>1, Zenon DEF AcceptUpload, Operations, FirstLabels
      <3>2. CASE AcceptFolder(w)
        BY <3>2, Zenon DEF AcceptFolder, Operations, FirstLabels
      <3>. QED BY <1>1, <3>1, <3>2
    <2>. QED BY <2>1, BlobNewFile
  <1>2. ASSUME NEW op, NEW j, NEW label, Accept(w, op, j, label), j.op # "save",
               UNCHANGED used
        PROVE  BlobInv'
    <2>1. FileRows' = FileRows
      BY <1>2 DEF Accept, FileRows, conn, unit
    <2>2. Moves
      BY <1>2, <2>1 DEF Accept, Moves, Uploading, TypeOK, ProcOK
    <2>. QED BY <2>2, BlobMoves
  <1>3. CASE AcceptSignUp(w) \/ AcceptShare(w) \/ AcceptGroup(w)
             \/ AcceptDownload(w) \/ AcceptList(w) \/ AcceptUsers(w) \/ AcceptQuery(w)
    <2>1. PICK op, j, label : Accept(w, op, j, label) /\ j.op # "save" /\ UNCHANGED used
      <3>1. CASE AcceptSignUp(w)
        BY <3>1 DEF AcceptSignUp
      <3>2. CASE AcceptShare(w)
        BY <3>2 DEF AcceptShare
      <3>3. CASE AcceptGroup(w)
        BY <3>3 DEF AcceptGroup
      <3>4. CASE AcceptDownload(w)
        BY <3>4 DEF AcceptDownload
      <3>5. CASE AcceptList(w)
        BY <3>5 DEF AcceptList
      <3>6. CASE AcceptUsers(w)
        BY <3>6 DEF AcceptUsers
      <3>7. CASE AcceptQuery(w)
        <4>1. PICK t \in tokens, op \in {"groups", "current"} :
                 Accept(w, op, [op |-> op, uid |-> t.uid], "query")
          BY <3>7 DEF AcceptQuery
        <4>. QED BY <3>7, <4>1 DEF AcceptQuery
      <3>. QED BY <1>3, <3>1, <3>2, <3>3, <3>4, <3>5, <3>6, <3>7
    <2>. QED BY <1>2, <2>1
  <1>. QED BY <1>1, <1>3 DEF Request

\* and a crash: the blob of an upload that died is a blob without a row.
LEMMA BlobCrash == TypeOK /\ BlobInv /\ Crash => BlobInv'
  <1> SUFFICES ASSUME TypeOK, BlobInv, Crash PROVE BlobInv'
    OBVIOUS
  <1>1. FileRows' \subseteq FileRows
    BY DEF Crash, FileRows
  <1>2. Moves
    BY <1>1 DEF Crash, Moves, NoJob
  <1>. QED BY <1>2, BlobMoves

\* BlobInv holds: it is inductive.
THEOREM BlobInvariant == Spec => []BlobInv
  <1>1. Init => BlobInv
    <2> SUFFICES ASSUME Init PROVE BlobInv
      OBVIOUS
    <2>1. FileRows \subseteq Stored
      BY DEF Init, FileRows, User
    <2>2. \A r \in Stored : r.table = "files" /\ r.id \in FileIds /\ r.id \in used
      BY JavkaAssumption DEF Init, FileRow
    <2>3. RowHasBlob
      <3>1. \A r \in FileRows : ~r.folder => disk[r.id] = "complete"
        BY <2>1, <2>2 DEF Init
      <3>. QED BY <3>1 DEF RowHasBlob, FileRows
    <2>. QED BY <2>1, <2>2, <2>3 DEF Init, BlobInv, NoJob
  <1>2. TypeOK /\ BlobInv /\ [Next]_vars => BlobInv'
    <2> SUFFICES ASSUME TypeOK, BlobInv, [Next]_vars PROVE BlobInv'
      OBVIOUS
    <2>1. CASE UNCHANGED vars
      <3>1. FileRows' = FileRows
        BY <2>1 DEF vars, conn, unit, FileRows
      <3>2. Moves
        BY <2>1, <3>1 DEF vars, clients, Moves, Uploading
      <3>. QED BY <3>2, BlobMoves
    <2>2. ASSUME NEW w \in Workers, Handle(w) PROVE BlobInv'
      BY <2>2, BlobSignUp, BlobFile, BlobGroup DEF Handle, clients
    <2>. QED BY <2>1, <2>2, BlobRequest, BlobCrash DEF Next
  <1>. QED BY <1>1, <1>2, TypeCorrect, PTL DEF Spec

\* No file row anywhere without its complete blob.
THEOREM BlobBeforeRow == Spec => []RowHasBlob
  <1>1. BlobInv => RowHasBlob
    BY DEF BlobInv
  <1>. QED BY <1>1, BlobInvariant, PTL
=============================================================================
