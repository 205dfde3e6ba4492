-------------------------------- MODULE Files --------------------------------
(***************************************************************************)
(* FileServiceImpl over FileRepositoryImpl and LocalFileStorage: upload,   *)
(* create a folder, share, download, list.  A file is two things kept in   *)
(* two places, a blob on disk and a row, written in that order and never   *)
(* cleaned up.                                                             *)
(***************************************************************************)
EXTENDS PersistenceUnit

VARIABLE disk   \* the blob of each id: "absent", "partial" or "complete"

ShareJob    == [op : {"share"}, uid : Nat, row : ShareRow]
SaveJob     == [op : {"save"}, row : FileRow]
DownloadJob == [op : {"download"}, uid : Nat, file : FileIds]
ListJob     == [op : {"list"}, uid : Nat, dir : FileIds \cup {NoFile}]

Blob(f, b) == disk' = [disk EXCEPT ![f] = b]

\* fileRepository.findOne: a row it reads becomes a managed entity.  A missing
\* file is a null that its callers run into (NullPointerException).
Find(f) ==
    /\ context' = context \cup FindOne(f)
    /\ IF FindOne(f) = {} /\ tx = "aborted" THEN Fail ELSE UNCHANGED conn
    /\ UNCHANGED pending

----------------------------------------------------------------------------
\* shareWithUser and shareWithGroup: one shape, two tables.

\* Mutant: anybody who knows the id may share.
AnyoneShares(w) ==
    /\ At(w, "findOne", "share")
    /\ Find(job[w].row.file)
    /\ IF FindOne(job[w].row.file) # {} THEN Goto(w, "isActive") ELSE Refuse(w)
    /\ UNCHANGED disk

\* Mutant: a refused share rolls back a transaction that is not its own.
RefusalRollsBack(w) ==
    /\ At(w, "findOne", "share")
    /\ \/ /\ FindOne(job[w].row.file) # {} \/ tx = "none"
          /\ Goto(w, "isActive")
          /\ UNCHANGED conn
       \/ /\ FindOne(job[w].row.file) = {} /\ tx # "none"
          /\ Rollback /\ UNCHANGED hurt
          /\ Refuse(w)
    /\ UNCHANGED <<unit, disk>>

\* Only the creator may share.
CheckCreator(w) ==
    /\ At(w, "findOne", "share")
    /\ Find(job[w].row.file)
    /\ IF \E file \in FindOne(job[w].row.file) : file.creator = job[w].uid
       THEN Goto(w, "isActive") ELSE Refuse(w)
    /\ UNCHANGED disk

ShareIsActive(w) ==
    At(w, "isActive", "share") /\ IsActive(w, "insertShare") /\ UNCHANGED disk

\* Mutant: begin waits for the transaction to be over instead of throwing.
ShareBeginWaits(w) ==
    At(w, "begin", "share") /\ tx = "none" /\ Begin(w, "insertShare") /\ UNCHANGED disk

ShareBegin(w) ==
    At(w, "begin", "share") /\ Begin(w, "insertShare") /\ UNCHANGED disk

\* Mutant: the failure of the INSERT is swallowed, the commit goes ahead.
InsertShareSwallows(w) ==
    /\ At(w, "insertShare", "share")
    /\ IF tx = "open" /\ Accepts(work, job[w].row) THEN Write({job[w].row}) ELSE Fail
    /\ Goto(w, "commit")
    /\ UNCHANGED <<unit, disk>>

InsertShare(w) ==
    /\ At(w, "insertShare", "share")
    /\ Execute(w, {job[w].row}, Accepts(work, job[w].row), "commit")
    /\ UNCHANGED <<unit, disk>>

\* Mutant: the commit is forgotten.
ShareForgetsCommit(w) ==
    At(w, "commit", "share") /\ Answer(w, {}) /\ UNCHANGED <<conn, unit, disk>>

ShareCommit(w) ==
    At(w, "commit", "share") /\ Commit(w, {job[w].row}) /\ UNCHANGED disk

----------------------------------------------------------------------------
\* addFile: the blob first, then save.  createDirectory starts at save.

\* Files.write opens and truncates the file, or throws at once.
StartBlob(w) ==
    /\ At(w, "saveFile", "save")
    /\ \/ Blob(job[w].row.id, "partial") /\ Goto(w, "writing")
       \/ Refuse(w) /\ UNCHANGED disk
    /\ UNCHANGED <<conn, unit>>

\* Mutant: an IOException is ignored.
FinishBlobIgnoresError(w) ==
    /\ At(w, "writing", "save")
    /\ Blob(job[w].row.id, "complete") \/ UNCHANGED disk
    /\ Goto(w, "isActive")
    /\ UNCHANGED <<conn, unit>>

\* Its bytes are all written, or an IOException leaves what there is.
FinishBlob(w) ==
    /\ At(w, "writing", "save")
    /\ \/ Blob(job[w].row.id, "complete") /\ Goto(w, "isActive")
       \/ Refuse(w) /\ UNCHANGED disk
    /\ UNCHANGED <<conn, unit>>

SaveIsActive(w) ==
    At(w, "isActive", "save") /\ IsActive(w, "persist") /\ UNCHANGED disk

SaveBegin(w) ==
    At(w, "begin", "save") /\ Begin(w, "persist") /\ UNCHANGED disk

\* persist only queues the INSERT, with or without a transaction.
Persist(w) ==
    /\ At(w, "persist", "save")
    /\ pending' = pending \cup {job[w].row}
    /\ context' = context \cup {job[w].row}
    /\ Goto(w, "flush")
    /\ UNCHANGED <<conn, disk>>

\* flush runs every queued INSERT, of every request; a queue that failed is
\* kept and tried again by the next flush.
Flush(w) ==
    /\ At(w, "flush", "save")
    /\ \/ /\ tx # "none" /\ Flushable
          /\ Write(pending) /\ pending' = {}
          /\ Goto(w, "refresh")
       \/ /\ tx # "none" /\ ~Flushable
          /\ Fail /\ Refuse(w)
          /\ UNCHANGED pending
       \/ /\ tx = "none"
          /\ Refuse(w)
          /\ UNCHANGED <<conn, pending>>
    /\ UNCHANGED <<context, disk>>

\* refresh reads the row back.  An entity another request's rollback detached
\* is an IllegalArgumentException; a row that is gone is an
\* EntityNotFoundException, which marks the transaction.
Refresh(w) ==
    /\ At(w, "refresh", "save")
    /\ LET row == job[w].row IN
       \/ /\ row \notin context
          /\ Refuse(w)
          /\ UNCHANGED <<conn, context>>
       \/ /\ row \in context
          /\ tx # "aborted" /\ row \in work
          /\ Goto(w, "commit")
          /\ UNCHANGED <<conn, context>>
       \/ /\ row \in context
          /\ tx = "aborted" \/ row \notin work
          /\ IF tx = "aborted" THEN Fail ELSE Mark
          /\ context' = context \ {row}
          /\ Refuse(w)
    /\ UNCHANGED <<pending, disk>>

SaveCommit(w) ==
    At(w, "commit", "save") /\ Commit(w, {job[w].row}) /\ UNCHANGED disk

----------------------------------------------------------------------------
\* getFile: the check, the lookup and the read are three separate steps.

CheckAccess(w) ==
    /\ At(w, "isFileAccessible", "download")
    /\ IF tx = "aborted" THEN Fail ELSE UNCHANGED conn
    /\ IF tx # "aborted" /\ IsFileAccessible(work, job[w].uid, job[w].file)
       THEN Goto(w, "findOne") ELSE Refuse(w)
    /\ UNCHANGED <<unit, disk>>

FindDownload(w) ==
    /\ At(w, "findOne", "download")
    /\ Find(job[w].file)
    /\ IF FindOne(job[w].file) # {} THEN Goto(w, "readBlob") ELSE Refuse(w)
    /\ UNCHANGED disk

\* readAllBytes: the bytes, or a GetFileException (a folder has no blob).
ReadBlob(w) ==
    /\ At(w, "readBlob", "download")
    /\ Answer(w, {})
    /\ UNCHANGED <<conn, unit, disk>>

\* getAvailableFiles and getDirectoryContent: a query for File entities first
\* flushes the queue when a transaction is open, and manages what it returns.
ListFiles(w) ==
    /\ At(w, "list", "list")
    /\ \/ /\ tx = "aborted" \/ (tx = "open" /\ ~Flushable)
          /\ Fail
          /\ UNCHANGED unit
       \/ /\ tx = "none" \/ (tx = "open" /\ Flushable)
          /\ LET flushed == IF tx = "open" THEN pending ELSE {} IN
             /\ Write(flushed)
             /\ pending' = pending \ flushed
             /\ context' = context \cup
                    Listing(work \cup flushed, job[w].uid, job[w].dir)
    /\ Answer(w, {})
    /\ UNCHANGED disk

----------------------------------------------------------------------------
FileStep(w) ==
    \/ CheckCreator(w) \/ ShareIsActive(w) \/ ShareBegin(w)
    \/ InsertShare(w) \/ ShareCommit(w)
    \/ StartBlob(w) \/ FinishBlob(w) \/ SaveIsActive(w) \/ SaveBegin(w)
    \/ Persist(w) \/ Flush(w) \/ Refresh(w) \/ SaveCommit(w)
    \/ CheckAccess(w) \/ FindDownload(w) \/ ReadBlob(w) \/ ListFiles(w)
=============================================================================
