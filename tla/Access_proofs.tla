----------------------------- MODULE Access_proofs -----------------------------
(***************************************************************************)
(* Bytes of a file go to those its creator meant, although the check of    *)
(* the creator, the INSERT of the share, the check of the access and the   *)
(* read are steps of their own, in transactions that come and go.  A token *)
(* stands for the user it was issued to, although registrations run in     *)
(* transactions of others and may be rolled back after the token went out; *)
(* and a user is listed the groups that are the user's.                    *)
(***************************************************************************)
EXTENDS Durability_proofs, FiniteSetTheorems

Handler(w) == UserStep(w) \/ FileStep(w) \/ GroupStep(w)

\* A handler goes on with the job it has, has none any more, or learns the id
\* of its group; the other handlers go on with theirs, and no confirmation is
\* taken back.
LEMMA HandlerFrame ==
  ASSUME TypeOK, NEW w \in Workers, Handler(w)
  PROVE  /\ \A v \in Workers : v # w => pc'[v] = pc[v] /\ job'[v] = job[v]
         /\ job'[w] = job[w] \/ job'[w].op \in {"none", "group"}
         /\ acked \subseteq acked'
  <1>1. ASSUME (\E l : Goto(w, l)) \/ (\E rows : Answer(w, rows))
        PROVE  /\ \A v \in Workers : v # w => pc'[v] = pc[v] /\ job'[v] = job[v]
               /\ job'[w] = job[w] \/ job'[w].op \in {"none", "group"}
               /\ acked \subseteq acked'
    BY <1>1, FrameGoto, FrameAnswer DEF NoJob
  <1>2. CASE UserStep(w)
    BY <1>1, <1>2 DEF UserStep, LogIn, SaveUser, ListUsers, CurrentUser, Query, Refuse
  <1>3. CASE FileStep(w)
    <2>1. CASE CheckCreator(w) \/ FindDownload(w) \/ StartBlob(w) \/ FinishBlob(w) \/ Persist(w)
               \/ Flush(w) \/ Refresh(w) \/ CheckAccess(w) \/ ReadBlob(w) \/ ListFiles(w)
      BY <1>1, <2>1
      DEF CheckCreator, FindDownload, StartBlob, FinishBlob, Persist, Flush, Refresh,
          CheckAccess, ReadBlob, ListFiles, Refuse
    <2>2. CASE ShareIsActive(w) \/ SaveIsActive(w) \/ ShareBegin(w) \/ SaveBegin(w)
      BY <1>1, <2>2 DEF ShareIsActive, SaveIsActive, ShareBegin, SaveBegin, IsActive, Begin, Refuse
    <2>3. CASE InsertShare(w) \/ ShareCommit(w) \/ SaveCommit(w)
      BY <1>1, <2>3 DEF InsertShare, ShareCommit, SaveCommit, Execute, Commit, Refuse
    <2>. QED BY <1>3, <2>1, <2>2, <2>3 DEF FileStep
  <1>4. CASE GroupStep(w)
    <2>1. CASE GroupIsActive(w) \/ GroupBegin(w) \/ GroupCommit(w) \/ ListGroups(w) \/ InsertMembers(w)
      BY <1>1, <2>1
      DEF GroupIsActive, GroupBegin, GroupCommit, ListGroups, InsertMembers, IsActive, Begin,
          Commit, Execute, Query, Refuse
    <2>2. CASE InsertGroup(w)
      <3>1. job[w] \in GroupJob
        BY <2>2, JobType DEF InsertGroup, At, TypeOK
      <3>2. CASE Refuse(w)
        BY <1>1, <3>2 DEF Refuse
      <3>3. ASSUME NEW row, job' = [job EXCEPT ![w].row = row],
                   pc' = [pc EXCEPT ![w] = "insertMembers"], UNCHANGED acked
            PROVE  /\ \A v \in Workers : v # w => pc'[v] = pc[v] /\ job'[v] = job[v]
                   /\ job'[w] = job[w] \/ job'[w].op \in {"none", "group"}
                   /\ acked \subseteq acked'
        BY <3>1, <3>3 DEF TypeOK, ProcOK, GroupJob
      <3>. QED BY <2>2, <3>2, <3>3 DEF InsertGroup
    <2>. QED BY <1>4, <2>1, <2>2 DEF GroupStep
  <1>. QED BY <1>2, <1>3, <1>4 DEF Handler

\* What the connection has had, it still has or has lost; only its open rows
\* are lost.
Remembered == Kept /\ lost' \subseteq lost \cup work

\* Every operation on the connection does that,
LEMMA RememberedConn ==
  ASSUME ConnInv
  PROVE  /\ UNCHANGED conn \/ Fail \/ Mark \/ Rollback => Remembered
         /\ \A rows : Write(rows) => Remembered
         /\ \A w, body : IsActive(w, body) \/ Begin(w, body) => Remembered
         /\ \A w, effect : Commit(w, effect) => Remembered
         /\ \A w, rows, valid, next : Execute(w, rows, valid, next) => Remembered
  <1>1. UNCHANGED conn \/ Fail \/ Mark \/ Rollback => Remembered
    BY ConnKept DEF Remembered, conn, Fail, Mark, Rollback
  <1>2. \A rows : Write(rows) => Remembered
    BY ConnKept DEF Remembered, Write
  <1>3. \A w, body : IsActive(w, body) \/ Begin(w, body) => Remembered
    BY <1>1 DEF IsActive, Begin, Remembered, Kept, ConnInv
  <1>4. ASSUME NEW w, NEW effect, Commit(w, effect) PROVE Remembered
    <2>1. CASE /\ tx = "open" /\ work' = work \cup pending /\ db' = work' /\ tx' = "none"
               /\ UNCHANGED lost
      BY <2>1 DEF Remembered, Kept, ConnInv
    <2>. QED BY <1>1, <1>4, <2>1 DEF Commit
  <1>5. \A w, rows, valid, next : Execute(w, rows, valid, next) => Remembered
    BY <1>1, <1>2 DEF Execute
  <1>. QED BY <1>1, <1>2, <1>3, <1>4, <1>5

\* and so every step of a handler.
LEMMA HandlerRemembers ==
  ASSUME TypeOK, AckInv, NEW w \in Workers, Handler(w)
  PROVE  Remembered
  <1>0. ConnInv
    BY DEF AckInv, ConnInv
  <1>1. CASE UserStep(w)
    BY <1>0, <1>1, RememberedConn DEF UserStep, LogIn, SaveUser, ListUsers, CurrentUser, Query
  <1>2. CASE GroupStep(w)
    BY <1>0, <1>2, RememberedConn
    DEF GroupStep, GroupIsActive, GroupBegin, InsertGroup, InsertMembers, GroupCommit,
        ListGroups, Query
  <1>3. CASE FileStep(w)
    <2>1. CASE CheckCreator(w) \/ FindDownload(w)
      BY <1>0, <2>1, RememberedConn DEF CheckCreator, FindDownload, Find
    <2>2. CASE ShareIsActive(w) \/ ShareBegin(w) \/ SaveIsActive(w) \/ SaveBegin(w)
      BY <1>0, <2>2, RememberedConn DEF ShareIsActive, ShareBegin, SaveIsActive, SaveBegin
    <2>3. CASE InsertShare(w) \/ ShareCommit(w) \/ SaveCommit(w)
      BY <1>0, <2>3, RememberedConn DEF InsertShare, ShareCommit, SaveCommit
    <2>4. CASE StartBlob(w) \/ FinishBlob(w) \/ Persist(w) \/ ReadBlob(w)
      BY <1>0, <2>4, RememberedConn DEF StartBlob, FinishBlob, Persist, ReadBlob
    <2>5. CASE Flush(w) \/ Refresh(w) \/ CheckAccess(w) \/ ListFiles(w)
      BY <1>0, <2>5, RememberedConn DEF Flush, Refresh, CheckAccess, ListFiles
    <2>. QED BY <1>3, <2>1, <2>2, <2>3, <2>4, <2>5 DEF FileStep
  <1>. QED BY <1>1, <1>2, <1>3 DEF Handler

\* The EntityManager manages and queues files that are there, or about to be
\* saved by the handler that brings them.
LEMMA HandlerUnit ==
  ASSUME TypeOK, NEW w \in Workers, Handler(w)
  PROVE  pending' \cup context' \subseteq pending \cup context \cup Drawn
  <1>1. CASE UserStep(w)
    BY <1>1 DEF UserStep, LogIn, SaveUser, ListUsers, CurrentUser, Query, unit
  <1>2. CASE GroupStep(w)
    BY <1>2
    DEF GroupStep, GroupIsActive, GroupBegin, InsertGroup, InsertMembers, GroupCommit,
        ListGroups, Query, IsActive, Begin, Commit, unit
  <1>3. CASE FileStep(w)
    <2>1. CASE CheckCreator(w) \/ FindDownload(w)
      <3>1. \A f : FindOne(f) \subseteq Drawn
        BY DEF FindOne, Drawn
      <3>. QED BY <2>1, <3>1 DEF CheckCreator, FindDownload, Find
    <2>2. CASE ShareIsActive(w) \/ ShareBegin(w) \/ SaveIsActive(w) \/ SaveBegin(w)
               \/ InsertShare(w) \/ ShareCommit(w) \/ SaveCommit(w)
      BY <2>2
      DEF ShareIsActive, ShareBegin, SaveIsActive, SaveBegin, InsertShare, ShareCommit,
          SaveCommit, IsActive, Begin, Commit, unit
    <2>3. CASE StartBlob(w) \/ FinishBlob(w) \/ ReadBlob(w) \/ CheckAccess(w)
      BY <2>3 DEF StartBlob, FinishBlob, ReadBlob, CheckAccess, unit
    <2>4. CASE Persist(w)
      BY <2>4 DEF Persist, At, Drawn
    <2>5. CASE Flush(w) \/ Refresh(w)
      BY <2>5 DEF Flush, Refresh
    <2>6. CASE ListFiles(w)
      <3>1. \A u, dir : /\ Listing(work \cup pending, u, dir) \subseteq Drawn
                        /\ Listing(work \cup {}, u, dir) \subseteq Drawn
        BY DEF Listing, Drawn
      <3>. QED BY <2>6, <3>1 DEF ListFiles, unit
    <2>. QED BY <1>3, <2>1, <2>2, <2>3, <2>4, <2>5, <2>6 DEF FileStep
  <1>. QED BY <1>1, <1>2, <1>3 DEF Handler

\* So no handler comes by a file that was not drawn for an upload.
LEMMA HandlerDraws ==
  ASSUME TypeOK, AckInv, NEW w \in Workers, Handler(w)
  PROVE  Drawn' \subseteq Drawn
  <1>1. \A r \in work' : r.table = "files" => r \in Drawn
    <2>1. CASE UserStep(w)
      <3>1. \A r \in work' : r \in work \/ r.table = "users"
        BY <2>1 DEF UserStep, LogIn, SaveUser, ListUsers, CurrentUser, Query, Fail, Write,
                    User, conn
      <3>. QED BY <3>1 DEF Drawn
    <2>2. CASE FileStep(w)
      BY <2>2, FileWork DEF Drawn
    <2>3. CASE GroupStep(w)
      BY <2>3, GroupWork DEF Drawn
    <2>. QED BY <2>1, <2>2, <2>3 DEF Handler
  <1>2. db' \subseteq work' /\ lost' \subseteq lost \cup work
    BY HandlerRemembers DEF Remembered, Kept, ConnInv
  <1>3. ASSUME NEW r \in db' \cup work' \cup pending' \cup context' \cup lost', r.table = "files"
        PROVE  r \in Drawn
    <2>1. r \in work' \/ r \in pending \cup context \cup lost \cup work \/ r \in Drawn
      BY <1>2, HandlerUnit
    <2>. QED BY <1>1, <1>3, <2>1 DEF Drawn
  <1>4. ASSUME NEW v \in Workers, job'[v].op = "save" PROVE job'[v].row \in Drawn
    <2>1. job'[v] = job[v]
      BY <1>4, HandlerFrame
    <2>. QED BY <1>4, <2>1 DEF Drawn
  <1>. QED BY <1>3, <1>4 DEF Drawn

----------------------------------------------------------------------------
\* What was granted stays granted while ids are drawn only once,
LEMMA GrantKept ==
  ASSUME used \subseteq used', asked \subseteq asked',
         \A r \in Drawn' : r \in Drawn \/ r.id \notin used
  PROVE  /\ \A u, id : CreatedBy(u, id) => CreatedBy(u, id)'
         /\ \A s : Granted(s) => Granted(s)'
  <1>1. ASSUME NEW u, NEW id, CreatedBy(u, id) PROVE CreatedBy(u, id)'
    BY <1>1 DEF CreatedBy
  <1>2. ASSUME NEW s, Granted(s) PROVE Granted(s)'
    BY <1>2 DEF Granted, CreatedBy
  <1>. QED BY <1>1, <1>2

\* and so does what a user may read while nothing is forgotten.
Readable(u, id) ==
    \E file \in db \cup work \cup lost :
        file.table = "files" /\ file.id = id /\ Authorised(u, file)

\* A handler's step takes no permission away: rows go nowhere but to lost.
LEMMA ReadableKept ==
  ASSUME asked \subseteq asked', ConnInv, Remembered, NEW u, NEW id, Readable(u, id)
  PROVE  Readable(u, id)'
  <1>1. \A r \in db \cup work \cup lost : r \in db' \cup work' \cup lost'
    BY DEF Remembered, Kept, ConnInv
  <1>2. ASSUME NEW file, Authorised(u, file) PROVE Authorised(u, file)'
    BY <1>1, <1>2 DEF Authorised
  <1>. QED BY <1>1, <1>2 DEF Readable

\* The access query finds a file only for those its creator meant.
LEMMA ReachesAuthorised ==
  ASSUME TypeOK, AccessInv, NEW u, NEW f, IsFileAccessible(work, u, f)
  PROVE  Readable(u, f)
  <1>1. PICK r \in work : r.table = "files" /\ r.id = f /\ Reaches(work, u, r)
    BY DEF IsFileAccessible
  <1>2. r \in Drawn
    BY <1>1 DEF Drawn
  <1>3. ASSUME NEW s \in work, s.table \in {"user_files", "group_files"}, s.file = f
        PROVE  \E q \in asked : q.row = s /\ q.uid = r.creator
    BY <1>1, <1>2, <1>3 DEF AccessInv, Granted, CreatedBy
  <1>4. Authorised(u, r)
    <2>1. CASE UserFile(u, f) \in work
      <3>1. PICK q \in asked : q.row = UserFile(u, f) /\ q.uid = r.creator
        BY <1>3, <2>1 DEF UserFile
      <3>. QED BY <1>1, <3>1 DEF Authorised, UserFile
    <2>2. ASSUME NEW m \in work, m.table = "user_groups", m.user = u,
                 GroupFile(m.group, f) \in work
          PROVE  Authorised(u, r)
      <3>1. PICK q \in asked : q.row = GroupFile(m.group, f) /\ q.uid = r.creator
        BY <1>3, <2>2 DEF GroupFile
      <3>2. m = UserGroup(u, m.group)
        BY <2>2 DEF TypeOK, ConnOK, UserGroup, Row, UserRow, FileRow, GroupRow, UserGroupRow,
                    ShareRow, UserFileRow, GroupFileRow
      <3>. QED BY <1>1, <2>2, <3>1, <3>2 DEF Authorised, GroupFile
    <2>3. CASE r.creator = u
      BY <2>3 DEF Authorised
    <2>. QED BY <1>1, <2>1, <2>2, <2>3 DEF Reaches
  <1>. QED BY <1>1, <1>4 DEF Readable

\* A share gets past findOne only for the creator.
LEMMA ShareChecks ==
  ASSUME TypeOK, AccessInv, NEW w \in Workers, Handler(w), job'[w] = job[w],
         job[w].op = "share", pc[w] = "findOne", pc'[w] # "findOne"
  PROVE  CreatedBy(job[w].uid, job[w].row.file)
  <1>1. CheckCreator(w)
    BY DEF Handler, UserStep, LogIn, SaveUser, ListUsers, CurrentUser, Query, GroupStep,
           GroupIsActive, GroupBegin, InsertGroup, InsertMembers, GroupCommit, ListGroups,
           FileStep, ShareIsActive, ShareBegin, InsertShare, ShareCommit, StartBlob,
           FinishBlob, SaveIsActive, SaveBegin, Persist, Flush, Refresh, SaveCommit,
           CheckAccess, FindDownload, ReadBlob, ListFiles, At
  <1>2. ~Refuse(w)
    BY FrameAnswer DEF Refuse, NoJob
  <1>3. PICK file \in FindOne(job[w].row.file) : file.creator = job[w].uid
    BY <1>1, <1>2 DEF CheckCreator
  <1>4. file \in Drawn /\ file.id = job[w].row.file
    BY DEF FindOne, Drawn
  <1>. QED BY <1>3, <1>4 DEF AccessInv, CreatedBy

\* A download gets past isFileAccessible only for those who may read.
LEMMA DownloadChecks ==
  ASSUME TypeOK, AccessInv, NEW w \in Workers, Handler(w), job'[w] = job[w],
         job[w].op = "download", pc'[w] \in {"findOne", "readBlob"}
  PROVE  Readable(job[w].uid, job[w].file)
  <1>1. CheckAccess(w) \/ FindDownload(w) \/ ReadBlob(w)
    BY DEF Handler, UserStep, LogIn, SaveUser, ListUsers, CurrentUser, Query, GroupStep,
           GroupIsActive, GroupBegin, InsertGroup, InsertMembers, GroupCommit, ListGroups,
           FileStep, CheckCreator, ShareIsActive, ShareBegin, InsertShare, ShareCommit,
           StartBlob, FinishBlob, SaveIsActive, SaveBegin, Persist, Flush, Refresh,
           SaveCommit, ListFiles, At
  <1>2. ~Refuse(w) /\ ~Answer(w, {})
    BY FrameAnswer DEF Refuse, NoJob
  <1>3. CASE CheckAccess(w)
    BY <1>2, <1>3, ReachesAuthorised DEF CheckAccess
  <1>4. CASE FindDownload(w)
    BY <1>4 DEF FindDownload, At, AccessInv, Readable
  <1>. QED BY <1>1, <1>2, <1>3, <1>4 DEF ReadBlob

\* A share's row is in the transaction only after the check.
LEMMA SharesGranted ==
  ASSUME TypeOK, AckInv, AccessInv, NEW w \in Workers, Handler(w),
         NEW s \in work', s.table \in {"user_files", "group_files"}
  PROVE  Granted(s)
  <1>1. CASE s \in work
    BY <1>1 DEF AccessInv
  <1>2. CASE At(w, "insertShare", "share") /\ s = job[w].row
    BY <1>2 DEF At, AccessInv, Granted
  <1>3. CASE UserStep(w)
    <2>1. s \in work
      BY <1>3 DEF UserStep, LogIn, SaveUser, ListUsers, CurrentUser, Query, Fail, Write, User,
                  conn
    <2>. QED BY <1>1, <2>1
  <1>. QED BY <1>1, <1>2, <1>3, FileWork, GroupWork DEF Handler

\* Every step of a handler keeps AccessInv.
LEMMA AccessHandler ==
  ASSUME TypeOK, AckInv, AccessInv, NEW w \in Workers, Handler(w), UNCHANGED <<used, asked>>
  PROVE  AccessInv'
  <1>0. Drawn' \subseteq Drawn /\ Remembered /\ ConnInv
    BY HandlerDraws, HandlerRemembers DEF AckInv, ConnInv
  <1>1. /\ \A u, id : CreatedBy(u, id) => CreatedBy(u, id)'
        /\ \A s : Granted(s) => Granted(s)'
    BY <1>0, GrantKept
  <1>2. /\ \A r \in Drawn' : r.id \in used'
        /\ \A r, s \in Drawn' : r.id = s.id => r = s
    BY <1>0 DEF AccessInv
  <1>3. \A s \in work' : s.table \in {"user_files", "group_files"} => Granted(s)'
    BY <1>1, SharesGranted
  <1>4. ASSUME NEW v \in Workers, job'[v].op = "share"
        PROVE  /\ job'[v] \in asked'
               /\ pc'[v] # "findOne" => CreatedBy(job[v].uid, job[v].row.file)'
               /\ job'[v] = job[v]
    <2>1. job'[v] = job[v] /\ (v # w => pc'[v] = pc[v])
      BY <1>4, HandlerFrame
    <2>2. pc'[v] # "findOne" => CreatedBy(job[v].uid, job[v].row.file)
      BY <1>4, <2>1, ShareChecks DEF AccessInv
    <2>3. ASSUME CreatedBy(job[v].uid, job[v].row.file), job'[v] = job[v]
          PROVE  CreatedBy(job[v].uid, job[v].row.file)'
      BY <1>0, <2>3 DEF CreatedBy
    <2>. QED BY <1>4, <2>1, <2>2, <2>3 DEF AccessInv
  <1>5. ASSUME NEW v \in Workers, job'[v].op = "download", pc'[v] \in {"findOne", "readBlob"}
        PROVE  Readable(job[v].uid, job[v].file)' /\ job'[v] = job[v]
    <2>1. job'[v] = job[v] /\ (v # w => pc'[v] = pc[v])
      BY <1>5, HandlerFrame
    <2>2. Readable(job[v].uid, job[v].file)
      BY <1>5, <2>1, DownloadChecks DEF AccessInv, Readable
    <2>3. ASSUME NEW u, NEW id, Readable(u, id) PROVE Readable(u, id)'
      BY <1>0, <2>3, ReadableKept
    <2>. DEFINE u == job[v].uid
                f == job[v].file
    <2>4. u' = u /\ f' = f
      BY <2>1
    <2>5. ASSUME NEW a, NEW b, a = job[v].uid, b = job[v].file, a = job'[v].uid, b = job'[v].file
          PROVE  Readable(job[v].uid, job[v].file)'
      <3>1. Readable(a, b)'
        BY <2>2, <2>3, <2>5
      <3>. QED BY <2>5, <3>1 DEF Readable, Authorised
    <2>. QED BY <2>1, <2>5
  <1>6. \A v \in Workers : job'[v].op = "share" =>
           /\ job'[v] \in asked'
           /\ pc'[v] # "findOne" => CreatedBy(job[v].uid, job[v].row.file)'
    BY <1>4
  <1>7. \A v \in Workers : job'[v].op = "download" /\ pc'[v] \in {"findOne", "readBlob"} =>
           Readable(job[v].uid, job[v].file)'
    BY <1>5
  <1>. QED BY <1>2, <1>3, <1>6, <1>7 DEF AccessInv, Readable

\* A new request draws an id nobody has, or asks for what it will be checked for.
LEMMA AccessRequest ==
  ASSUME TypeOK, AckInv, AccessInv, NEW w \in Workers, Request(w)
  PROVE  AccessInv'
  <1>1. PICK op, j, label :
           /\ Accept(w, op, j, label)
           /\ asked' \in {asked, asked \cup {j}}
           /\ j.op = "share" => label = "findOne" /\ j \in asked'
           /\ j.op = "download" => label = "isFileAccessible"
           /\ j.op = "save" => j.row.id \notin used /\ used' = used \cup {j.row.id}
           /\ j.op # "save" => used' = used
    <2>1. CASE AcceptShare(w)
      BY <2>1, Zenon DEF AcceptShare
    <2>2. CASE AcceptUpload(w)
      BY <2>2 DEF AcceptUpload, NewFile
    <2>3. CASE AcceptFolder(w)
      BY <2>3 DEF AcceptFolder, NewFile
    <2>4. CASE AcceptSignUp(w) \/ AcceptGroup(w) \/ AcceptDownload(w)
      BY <2>4 DEF AcceptSignUp, AcceptGroup, AcceptDownload
    <2>5. CASE AcceptList(w) \/ AcceptUsers(w) \/ AcceptQuery(w)
      BY <2>5 DEF AcceptList, AcceptUsers, AcceptQuery
    <2>. QED BY <2>1, <2>2, <2>3, <2>4, <2>5 DEF Request
  <1>2. /\ UNCHANGED <<conn, unit>>
        /\ \A v \in Workers : v # w => pc'[v] = pc[v] /\ job'[v] = job[v]
        /\ pc'[w] = label /\ job'[w] = j
    BY <1>1 DEF Accept, TypeOK, ProcOK
  <1>3. \A r \in Drawn' : r \in Drawn \/ (j.op = "save" /\ r = j.row)
    <2>1. ASSUME NEW v \in Workers, job'[v].op = "save"
          PROVE  job'[v].row \in Drawn \/ (j.op = "save" /\ job'[v].row = j.row)
      BY <1>2, <2>1 DEF Drawn
    <2>2. \A r \in db \cup work \cup pending \cup context \cup lost :
             r.table = "files" => r \in Drawn
      BY DEF Drawn
    <2>. QED BY <1>2, <2>1, <2>2 DEF Drawn, conn, unit
  <1>4. used \subseteq used' /\ asked \subseteq asked'
    BY <1>1
  <1>5. /\ \A u, id : CreatedBy(u, id) => CreatedBy(u, id)'
        /\ \A s : Granted(s) => Granted(s)'
    BY <1>1, <1>3, <1>4, GrantKept
  <1>6. /\ \A r \in Drawn' : r.id \in used'
        /\ \A r, s \in Drawn' : r.id = s.id => r = s
    BY <1>1, <1>3 DEF AccessInv
  <1>7. \A s \in work' : s.table \in {"user_files", "group_files"} => Granted(s)'
    BY <1>2, <1>5 DEF AccessInv, conn
  <1>8. ASSUME NEW v \in Workers, job'[v].op = "share"
        PROVE  /\ job'[v] \in asked'
               /\ pc'[v] # "findOne" => CreatedBy(job[v].uid, job[v].row.file)'
    <2>1. CASE v = w
      BY <1>1, <1>2, <1>8, <2>1
    <2>2. CASE v # w
      <3>1. job'[v] = job[v] /\ pc'[v] = pc[v]
        BY <1>2, <2>2
      <3>2. pc[v] # "findOne" => CreatedBy(job[v].uid, job[v].row.file)
        BY <1>8, <3>1 DEF AccessInv
      <3>3. \A r \in Drawn' : r \in Drawn \/ r.id \notin used
        BY <1>1, <1>3
      <3>. QED BY <1>4, <1>8, <3>1, <3>2, <3>3 DEF AccessInv, CreatedBy
    <2>. QED BY <2>1, <2>2
  <1>9. ASSUME NEW v \in Workers, job'[v].op = "download", pc'[v] \in {"findOne", "readBlob"}
        PROVE  Readable(job[v].uid, job[v].file)'
    <2>1. v # w /\ job'[v] = job[v] /\ pc'[v] = pc[v]
      BY <1>1, <1>2, <1>9
    <2>. QED BY <1>2, <1>4, <1>9, <2>1 DEF AccessInv, Readable, Authorised, conn
  <1>. QED BY <1>6, <1>7, <1>8, <1>9 DEF AccessInv, Readable

\* A crash leaves no handler and nothing that was not committed.
LEMMA AccessCrash == AckInv /\ AccessInv /\ Crash => AccessInv'
  <1> SUFFICES ASSUME AckInv, AccessInv, Crash PROVE AccessInv'
    OBVIOUS
  <1>1. Drawn' \subseteq Drawn /\ work' \subseteq work
    BY DEF Crash, Drawn, AckInv, NoJob
  <1>2. \A s : Granted(s) => Granted(s)'
    BY <1>1, GrantKept DEF Crash
  <1>. QED BY <1>1, <1>2 DEF AccessInv, Crash, NoJob

\* The inductive invariant of sharing: one file per id, one check per share.
THEOREM AccessInvariant == Spec => []AccessInv
  <1>1. Init => AccessInv
    <2> SUFFICES ASSUME Init PROVE AccessInv
      OBVIOUS
    <2>1. /\ Drawn \subseteq Stored
          /\ \A s \in work : s.table \in {"users", "files"}
      BY JavkaAssumption DEF Init, Drawn, User, FileRow, NoJob
    <2>. QED BY <2>1, JavkaAssumption DEF Init, AccessInv, NoJob
  <1>2. AccessInv /\ UNCHANGED vars => AccessInv'
    BY DEF vars, conn, unit, clients, AccessInv, Drawn, Granted, CreatedBy, Authorised
  <1>3. TypeOK /\ AckInv /\ AccessInv /\ [Next]_vars => AccessInv'
    BY <1>2, AccessHandler, AccessRequest, AccessCrash DEF Next, Handle, Handler, clients
  <1>. QED BY <1>1, <1>3, TypeCorrect, AckInvariant, PTL DEF Spec

\* Bytes are handed out only to those the creator meant, for any number of
\* users, files, groups and handlers between the checks.
THEOREM OnlyThoseMeant == Spec => []AccessAuthorised
  <1>1. AccessInv => AccessAuthorised
    BY DEF AccessInv, AccessAuthorised, At
  <1>. QED BY <1>1, AccessInvariant, PTL

----------------------------------------------------------------------------
\* Users and their tokens.

\* What a step does that registers nobody and logs nobody in.
LEMMA NoUser ==
  ASSUME TokenInv, UNCHANGED <<nextUser, tokens>>, Of(work', "users") \subseteq Of(work, "users")
  PROVE  TokenInv'
  <1>1. \A r \in Of(work', "users") : r \in Of(work, "users")
    OBVIOUS
  <1>. QED BY <1>1 DEF TokenInv

\* Rows that were there, or are of another table, are no new users.
LEMMA OldUsers ==
  ASSUME \A r \in work' : r \in work \/ r.table # "users"
  PROVE  Of(work', "users") \subseteq Of(work, "users")
  BY DEF Of

\* A login hands out the token of the user whose name and password it got.
LEMMA LogInToken ==
  ASSUME TypeOK, TokenInv, NEW w \in Workers, LogIn(w)
  PROVE  TokenInv'
  <1>. DEFINE j == job[w]
  <1>1. UNCHANGED <<work, nextUser>>
    BY DEF LogIn, Fail, conn
  <1>2. CASE UNCHANGED tokens
    BY <1>1, <1>2, NoUser
  <1>3. ASSUME NEW user \in FindByName(j.name), user.hash = Hash(j.password),
               Session(user.id, j)
        PROVE  TokenInv'
    <2>1. user \in Of(work, "users") /\ user.name = j.name
      BY DEF FindByName, Of
    <2>2. ASSUME NEW t \in tokens'
          PROVE  /\ t.uid < nextUser
                 /\ \A r \in Of(work, "users") :
                       r.id = t.uid => r.name = t.name /\ r.hash = t.hash
      <3>1. CASE t \in tokens
        BY <3>1 DEF TokenInv
      <3>2. CASE t = [uid |-> user.id, name |-> j.name, hash |-> Hash(j.password)]
        <4>1. t.uid = user.id /\ t.name = user.name /\ t.hash = user.hash
          BY <1>3, <2>1, <3>2
        <4>. QED BY <2>1, <4>1 DEF TokenInv
      <3>. QED BY <1>3, <3>1, <3>2 DEF Session
    <2>. QED BY <1>1, <2>2 DEF TokenInv
  <1>. QED BY <1>2, <1>3 DEF LogIn

\* A registration draws an id that is in no row and in no token.
LEMMA SaveUserToken ==
  ASSUME TypeOK, TokenInv, NEW w \in Workers, SaveUser(w)
  PROVE  TokenInv'
  <1>. DEFINE j == job[w]
              new == User(nextUser, j)
              token == [uid |-> nextUser, name |-> j.name, hash |-> Hash(j.password)]
  <1>0. /\ nextUser \in Nat
        /\ \A r \in Of(work, "users") : r.id \in Nat
        /\ \A t \in tokens : t.uid \in Nat
    <2>1. \A r \in Of(work, "users") : r.id \in Nat
      BY DEF TypeOK, ConnOK, Of, Row, UserRow, FileRow, GroupRow, UserGroupRow, ShareRow,
             UserFileRow, GroupFileRow
    <2>. QED BY <2>1 DEF TypeOK, StoreOK, Token
  <1>1. CASE UNCHANGED <<work, tokens>> /\ nextUser' \in {nextUser, nextUser + 1}
    <2>1. nextUser' > 0 /\ \A n \in Nat : n < nextUser => n < nextUser'
      BY <1>0, <1>1 DEF TokenInv
    <2>. QED BY <1>0, <1>1, <2>1 DEF TokenInv
  <1>2. CASE Write({new}) /\ Session(nextUser, j) /\ nextUser' = nextUser + 1
    <2>1. Of(work', "users") \subseteq Of(work, "users") \cup {new} /\ tokens' = tokens \cup {token}
      BY <1>2 DEF Write, Of, Session
    <2>2. /\ new.id = nextUser /\ new.name = token.name /\ new.hash = token.hash
          /\ token.uid = nextUser
      BY DEF User
    <2>3. \A n \in Nat : n < nextUser => n < nextUser' /\ n # nextUser
      BY <1>0, <1>2
    <2>4. nextUser < nextUser' /\ nextUser > 0 /\ nextUser' > 0
      BY <1>0, <1>2 DEF TokenInv
    <2>. HIDE DEF new, token
    <2>. QED BY <1>0, <2>1, <2>2, <2>3, <2>4 DEF TokenInv
  <1>. QED BY <1>1, <1>2 DEF SaveUser, Fail, conn

\* Everything else leaves users and tokens alone.
LEMMA TokenStep ==
  ASSUME TypeOK, AckInv, TokenInv, [Next]_vars
  PROVE  TokenInv'
  <1>1. CASE Crash
    BY <1>1, NoUser, OldUsers DEF Crash, AckInv
  <1>2. CASE UNCHANGED vars
    BY <1>2, NoUser DEF vars, conn
  <1>3. ASSUME NEW w \in Workers, Request(w) PROVE TokenInv'
    <2>1. UNCHANGED <<conn, nextUser, tokens>>
      BY <1>3, RequestAccepts DEF Accept
    <2>. QED BY <2>1, NoUser DEF conn
  <1>4. ASSUME NEW w \in Workers, UserStep(w) PROVE TokenInv'
    <2>1. CASE ListUsers(w) \/ CurrentUser(w)
      <3>1. UNCHANGED <<work, nextUser, tokens>>
        BY <2>1 DEF ListUsers, CurrentUser, Query, Fail, conn
      <3>. QED BY <3>1, NoUser
    <2>. QED BY <1>4, <2>1, LogInToken, SaveUserToken DEF UserStep
  <1>5. ASSUME NEW w \in Workers, FileStep(w), UNCHANGED <<nextUser, tokens>> PROVE TokenInv'
    <2>1. \A r \in work' : r \in work \/ r.table # "users"
      BY <1>5, FileWork
    <2>. QED BY <1>5, <2>1, NoUser, OldUsers
  <1>6. ASSUME NEW w \in Workers, GroupStep(w), UNCHANGED <<nextUser, tokens>> PROVE TokenInv'
    <2>1. \A r \in work' : r \in work \/ r.table # "users"
      BY <1>6, GroupWork
    <2>. QED BY <1>6, <2>1, NoUser, OldUsers
  <1>. QED BY <1>1, <1>2, <1>3, <1>4, <1>5, <1>6 DEF Next, Handle

\* The inductive invariant of sign-up: ids are drawn once and remembered.
THEOREM TokenInvariant == Spec => []TokenInv
  <1>1. Init => TokenInv
    <2>. SUFFICES ASSUME Init PROVE TokenInv
      OBVIOUS
    <2>. DEFINE S == [name : Names, password : Passwords]
    <2>0. /\ Registered \in Seq(S) /\ Len(Registered) \in Nat
          /\ DOMAIN Registered = 1..Len(Registered)
      BY JavkaAssumption, LenProperties
    <2>1. Of(work, "users") = {User(i, Registered[i]) : i \in DOMAIN Registered}
      BY JavkaAssumption DEF Init, Of, User, FileRow
    <2>2. nextUser > 0 /\ \A i \in DOMAIN Registered : i \in Nat /\ i > 0 /\ i < nextUser
      BY <2>0 DEF Init
    <2>3. \A t \in tokens : \E i \in DOMAIN Registered :
             t = [uid |-> i, name |-> Registered[i].name, hash |-> Hash(Registered[i].password)]
      BY DEF Init
    <2>. QED BY <2>1, <2>2, <2>3 DEF TokenInv, User
  <1>. QED BY <1>1, TokenStep, TypeCorrect, AckInvariant, PTL DEF Spec

\* Nobody's token ever speaks for somebody else, for any number of sign-ups,
\* rollbacks and crashes.
THEOREM TokensStandForTheirUsers == Spec => []TokenMatchesUser
  <1>1. AckInv /\ TokenInv => TokenMatchesUser
    BY DEF AckInv, TokenInv, TokenMatchesUser, Of
  <1>. QED BY <1>1, TokenInvariant, AckInvariant, PTL

\* A set in which all members are the same has one of them at most.
LEMMA AtMostOne ==
  ASSUME NEW S, NEW x, S \subseteq {x}
  PROVE  Cardinality(S) <= 1
  <1>1. S = {} \/ S = {x}
    OBVIOUS
  <1>2. Cardinality({}) = 0 /\ Cardinality({x}) = 1
    BY FS_EmptySet, FS_Singleton
  <1>. QED BY <1>1, <1>2

\* The LEFT JOIN lists a group for its creator and its members, whatever other
\* requests did to it: for a member once, and for nobody by a NULL.
THEOREM GroupsAreListed == Spec => []GroupsListed
  <1>1. ASSUME TypeOK, AckInv, TokenInv PROVE GroupsListed
    <2>. SUFFICES ASSUME NEW u \in {r.id : r \in Of(db, "users")}, NEW g \in Of(db, "groups")
                  PROVE  LET listed == {row \in UserGroups(db, u) : row[1] = g} IN
                         /\ listed # {} <=> g.creator = u \/ UserGroup(u, g.id) \in db
                         /\ g.creator # u => Cardinality(listed) <= 1
      BY DEF GroupsListed
    <2>. DEFINE listed == {row \in UserGroups(db, u) : row[1] = g}
                joined == {p \in Of(db, "groups") \X Of(db, "user_groups") : p[2].group = p[1].id}
                alone  == {<<h, UserGroup(0, h.id)>> : h \in
                              {h \in Of(db, "groups") : \A p \in joined : p[1] # h}}
    <2>0. UserGroups(db, u) = {p \in joined \cup alone : u \in {p[2].user, p[1].creator}}
      BY DEF UserGroups
    <2>1. u # 0
      <3>1. PICK r \in Of(db, "users") : u = r.id
        OBVIOUS
      <3>2. r \in Of(work, "users")
        BY <1>1 DEF AckInv, Of
      <3>3. u > 0
        BY <1>1, <3>1, <3>2 DEF TokenInv
      <3>. QED BY <3>3
    <2>2. \A m \in Of(db, "user_groups") : m = UserGroup(m.user, m.group)
      <3>. SUFFICES ASSUME NEW m \in Of(db, "user_groups") PROVE m = UserGroup(m.user, m.group)
        OBVIOUS
      <3>1. m \in Row /\ m.table = "user_groups"
        BY <1>1 DEF TypeOK, ConnOK, Of
      <3>2. m \in UserGroupRow
        BY <3>1 DEF Row, UserRow, FileRow, GroupRow, UserGroupRow, ShareRow, UserFileRow,
                    GroupFileRow
      <3>. QED BY <3>2 DEF UserGroupRow, UserGroup
    <2>3. ASSUME NEW p \in joined, p[1] = g, u \in {p[2].user, p[1].creator}, g.creator # u
          PROVE  p = <<g, UserGroup(u, g.id)>> /\ UserGroup(u, g.id) \in db
      <3>0. p = <<p[1], p[2]>> /\ p[2] \in Of(db, "user_groups") /\ p[2].group = p[1].id
        BY DEF joined
      <3>1. p[2] \in Of(db, "user_groups") /\ p[2].user = u /\ p[2].group = g.id
        BY <2>3, <3>0
      <3>2. p[2] = UserGroup(u, g.id)
        BY <2>2, <3>1
      <3>. HIDE DEF joined
      <3>. QED BY <2>3, <3>0, <3>1, <3>2 DEF Of
    <2>4. ASSUME NEW p \in alone, p[1] = g, u \in {p[2].user, p[1].creator}
          PROVE  g.creator = u
      <3>1. p[2].user = 0
        BY <2>4 DEF UserGroup
      <3>. QED BY <2>1, <2>4, <3>1
    <2>5. ASSUME g.creator # u
          PROVE  listed \subseteq {<<g, UserGroup(u, g.id)>>} /\
                 (listed # {} => UserGroup(u, g.id) \in db)
      <3>. HIDE DEF joined, alone
      <3>. QED BY <2>0, <2>3, <2>4, <2>5
    <2>6. ASSUME UserGroup(u, g.id) \in db PROVE listed # {}
      <3>. DEFINE p == <<g, UserGroup(u, g.id)>>
      <3>1. p \in joined /\ p[1] = g /\ p[2].user = u
        BY <2>6 DEF UserGroup, Of
      <3>. HIDE DEF p, joined, alone
      <3>. QED BY <2>0, <3>1
    <2>7. ASSUME g.creator = u PROVE listed # {}
      <3>1. CASE \E p \in joined : p[1] = g
        <4>. HIDE DEF joined, alone
        <4>. QED BY <2>0, <2>7, <3>1
      <3>2. CASE \A p \in joined : p[1] # g
        <4>. DEFINE p == <<g, UserGroup(0, g.id)>>
        <4>1. p \in alone /\ p[1] = g
          BY <3>2
        <4>. HIDE DEF p, joined, alone
        <4>. QED BY <2>0, <2>7, <4>1
      <3>. QED BY <3>1, <3>2
    <2>8. g.creator # u => Cardinality(listed) <= 1
      BY <2>5, AtMostOne
    <2>. QED BY <2>5, <2>6, <2>7, <2>8
  <1>. QED BY <1>1, TypeCorrect, AckInvariant, TokenInvariant, PTL
=============================================================================
