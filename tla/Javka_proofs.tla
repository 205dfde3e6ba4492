---------------------------- MODULE Javka_proofs ----------------------------
(***************************************************************************)
(* TypeOK is inductive: one lemma for each operation on the connection and *)
(* the EntityManager, then one for each handler.                           *)
(***************************************************************************)
EXTENDS JavkaProperties, SequenceTheorems, TLAPS

\* The server starts well typed: users and files of an earlier life are rows.
LEMMA InitType == Init => TypeOK
  <1> SUFFICES ASSUME Init PROVE TypeOK
    OBVIOUS
  <1> USE JavkaAssumption DEF Init
  <1>0. \A i \in DOMAIN Registered :
           i \in Nat /\ Registered[i].name \in Names /\ Hash(Registered[i].password) \in Hashes
    <2>. DEFINE S == [name : Names, password : Passwords]
    <2>0. Registered \in Seq(S)
      BY JavkaAssumption
    <2>1. DOMAIN Registered = 1..Len(Registered) /\ \A i \in 1..Len(Registered) : Registered[i] \in S
      BY <2>0, LenProperties
    <2>. QED BY <2>1 DEF Hashes
  <1>1. ConnOK
    <2>1. \A i \in DOMAIN Registered : User(i, Registered[i]) \in UserRow
      BY <1>0 DEF User, UserRow
    <2>2. db \subseteq Row
      BY <2>1 DEF Row
    <2>. QED BY <2>2 DEF ConnOK
  <1>2. UnitOK
    BY DEF UnitOK
  <1>3. ProcOK
    BY DEF ProcOK, Labels, Job
  <1>4. StoreOK
    BY <1>0 DEF StoreOK, Token
  <1>5. ClientsOK
    BY DEF ClientsOK, FileRow
  <1>. QED BY <1>1, <1>2, <1>3, <1>4, <1>5 DEF TypeOK

\* A failed statement keeps the connection well typed.
LEMMA FailType == ConnOK /\ Fail => ConnOK'
  BY DEF ConnOK, Fail

\* So does a mark without an SQL error,
LEMMA MarkType == ConnOK /\ Mark => ConnOK'
  BY DEF ConnOK, Mark

\* a rollback,
LEMMA RollbackType == ConnOK /\ Rollback /\ hurt' \in BOOLEAN => ConnOK'
  BY DEF ConnOK, Rollback

\* and an INSERT of rows of the schema.
LEMMA WriteType ==
  ASSUME NEW rows \in SUBSET Row, ConnOK, Write(rows)
  PROVE  ConnOK'
  BY DEF ConnOK, Write

\* A handler that goes on to its next call stays well typed.
LEMMA GotoType ==
  ASSUME NEW w \in Workers, NEW l \in Labels, ProcOK, Goto(w, l)
  PROVE  ProcOK'
  BY DEF ProcOK, Goto

\* A handler that answers leaves an idle worker, and confirms rows only.
LEMMA AnswerType ==
  ASSUME NEW w \in Workers, NEW rows \in SUBSET Row, ProcOK, Answer(w, rows)
  PROVE  ProcOK'
  BY DEF ProcOK, Answer, Labels, Job, NoJob

\* A job's op tells which handler it belongs to, and so its fields.
LEMMA JobType ==
  ASSUME NEW w \in Workers, ProcOK
  PROVE  /\ job[w].op = "share" => job[w] \in ShareJob
         /\ job[w].op = "save" => job[w] \in SaveJob
         /\ job[w].op = "group" => job[w] \in GroupJob
         /\ job[w].op = "download" => job[w] \in DownloadJob
         /\ job[w].op = "list" => job[w] \in ListJob
         /\ job[w].op = "signUp" => job[w] \in SignUpJob
  BY DEF ProcOK, Job, NoJob, ShareJob, SaveJob, GroupJob, DownloadJob, ListJob, SignUpJob,
         QueryJob

\* The types a repository method can disturb.
Base == ConnOK /\ UnitOK /\ ProcOK

\* isActive() keeps the types, whichever statement comes after it.
LEMMA IsActiveType ==
  ASSUME NEW w \in Workers, NEW body \in Labels, Base, IsActive(w, body)
  PROVE  Base'
  BY GotoType DEF Base, IsActive, ConnOK, UnitOK, Labels, conn, unit

\* So does begin(), whether it begins or throws,
LEMMA BeginType ==
  ASSUME NEW w \in Workers, NEW body \in Labels, Base, Begin(w, body)
  PROVE  Base'
  <1>1. ConnOK' /\ UnitOK'
    BY DEF Base, Begin, ConnOK, UnitOK, unit
  <1>2. ProcOK'
    BY GotoType, AnswerType DEF Base, Begin, Refuse
  <1>. QED BY <1>1, <1>2 DEF Base

\* and commit(), which moves queued entities and open rows to the database.
LEMMA CommitType ==
  ASSUME NEW w \in Workers, NEW effect \in SUBSET Row, Base, Commit(w, effect)
  PROVE  Base'
  <1>1. ConnOK'
    BY RollbackType DEF Base, Commit, ConnOK, UnitOK, Row, conn
  <1>2. UnitOK'
    BY DEF Base, Commit, UnitOK, unit
  <1>3. ProcOK'
    BY AnswerType DEF Base, Commit, Refuse
  <1>. QED BY <1>1, <1>2, <1>3 DEF Base

\* executeUpdate keeps the types when its rows are rows of the schema.
LEMMA ExecuteType ==
  ASSUME NEW w \in Workers, NEW rows \in SUBSET Row, NEW valid, NEW next \in Labels,
         Base, Execute(w, rows, valid, next)
  PROVE  ConnOK' /\ ProcOK'
  <1>1. ConnOK'
    BY FailType, WriteType DEF Base, Execute, ConnOK, conn
  <1>2. ProcOK'
    BY GotoType, AnswerType DEF Base, Execute, Refuse
  <1>. QED BY <1>1, <1>2

\* Every request starts a handler at one of these.
FirstLabels == {"findByName", "findOne", "saveFile", "isActive", "isFileAccessible", "list",
                "query"}

\* Every request is an Accept that starts a handler at one of FirstLabels.
LEMMA RequestAccepts ==
  ASSUME NEW w \in Workers, Request(w)
  PROVE  \E op, j, label : Accept(w, op, j, label) /\ label \in FirstLabels
  <1> USE DEF FirstLabels
  <1>1. CASE AcceptSignUp(w)
    BY <1>1 DEF AcceptSignUp
  <1>2. CASE AcceptShare(w)
    BY <1>2, Zenon DEF AcceptShare
  <1>3. CASE AcceptUpload(w)
    BY <1>3, Zenon DEF AcceptUpload
  <1>4. CASE AcceptFolder(w)
    BY <1>4, Zenon DEF AcceptFolder
  <1>5. CASE AcceptGroup(w)
    BY <1>5, Zenon DEF AcceptGroup
  <1>6. CASE AcceptDownload(w)
    BY <1>6, Zenon DEF AcceptDownload
  <1>7. CASE AcceptList(w)
    BY <1>7, Zenon DEF AcceptList
  <1>8. CASE AcceptUsers(w) \/ AcceptQuery(w)
    BY <1>8, Zenon DEF AcceptUsers, AcceptQuery
  <1>. QED BY <1>1, <1>2, <1>3, <1>4, <1>5, <1>6, <1>7, <1>8 DEF Request

\* A request puts a job of its handler's type on an idle worker.
LEMMA RequestType ==
  ASSUME TypeOK, NEW w \in Workers, Request(w)
  PROVE  TypeOK'
  <1> USE DEF Accept, Labels, TypeOK, ConnOK, UnitOK, ProcOK, StoreOK, ClientsOK, conn, unit, Job
  <1>1. CASE AcceptSignUp(w)
    BY <1>1 DEF AcceptSignUp, SignUpJob
  <1>2. CASE AcceptShare(w)
    BY <1>2 DEF AcceptShare, ShareJob, ShareRow, UserFileRow, GroupFileRow, UserFile, GroupFile, Token
  <1>3. CASE AcceptUpload(w)
    BY <1>3 DEF AcceptUpload, NewFile, SaveJob, FileRow, Token
  <1>4. CASE AcceptFolder(w)
    BY <1>4 DEF AcceptFolder, NewFile, SaveJob, FileRow, Token
  <1>5. CASE AcceptGroup(w)
    BY <1>5, JavkaAssumption DEF AcceptGroup, GroupJob, GroupRow, Token
  <1>6. CASE AcceptDownload(w)
    BY <1>6 DEF AcceptDownload, DownloadJob, Token
  <1>7. CASE AcceptList(w)
    BY <1>7 DEF AcceptList, ListJob, Token
  <1>8. CASE AcceptUsers(w) \/ AcceptQuery(w)
    BY <1>8 DEF AcceptUsers, AcceptQuery, QueryJob, Token
  <1>. QED BY <1>1, <1>2, <1>3, <1>4, <1>5, <1>6, <1>7, <1>8 DEF Request

\* Rows of the table files are file rows; so are the ones findOne returns.
LEMMA FileRowType ==
  ASSUME NEW r \in Row, r.table = "files"
  PROVE  r \in FileRow
  BY DEF Row, UserRow, FileRow, GroupRow, UserGroupRow, ShareRow, UserFileRow, GroupFileRow

\* findOne returns file rows, from the cache or from the table.
LEMMA FoundType == ASSUME Base, NEW f PROVE FindOne(f) \subseteq FileRow
  BY FileRowType DEF FindOne, Base, ConnOK, UnitOK

\* A handler that only reads keeps the types, whether its SELECT fails or not.
LEMMA QueryType ==
  ASSUME NEW w \in Workers, NEW op, Base, Query(w, op)
  PROVE  Base'
  <1>1. ConnOK' /\ UnitOK'
    BY FailType DEF Query, Base, ConnOK, UnitOK, conn, unit
  <1>2. ProcOK'
    BY AnswerType DEF Query, Base
  <1>. QED BY <1>1, <1>2 DEF Base

\* signUp keeps the types when it logs in a known user,
LEMMA LogInType ==
  ASSUME TypeOK, NEW w \in Workers, LogIn(w), UNCHANGED <<disk, nextGroup, clients>>
  PROVE  TypeOK'
  <1> DEFINE j == job[w]
  <1>0. j \in SignUpJob
    BY JobType DEF LogIn, At, TypeOK
  <1>1. ConnOK'
    BY FailType DEF LogIn, TypeOK, ConnOK, conn
  <1>2. ProcOK'
    BY GotoType, AnswerType DEF LogIn, TypeOK, Refuse, Labels
  <1>3. tokens' \subseteq Token
    <2>1. ASSUME NEW user \in FindByName(j.name), Session(user.id, j)
          PROVE  tokens' \subseteq Token
      <3>1. user.id \in Nat
        BY DEF FindByName, TypeOK, ConnOK, Row, UserRow, FileRow, GroupRow,
               UserGroupRow, ShareRow, UserFileRow, GroupFileRow
      <3>. QED BY <1>0, <2>1, <3>1 DEF Session, Token, SignUpJob, Hashes, TypeOK, StoreOK
    <2>. QED BY <2>1 DEF LogIn, TypeOK, StoreOK
  <1>. QED BY <1>1, <1>2, <1>3 DEF LogIn, TypeOK, UnitOK, StoreOK, ClientsOK, unit, clients

\* and when it registers one under an id the sequence drew.
LEMMA SaveUserType ==
  ASSUME TypeOK, NEW w \in Workers, SaveUser(w), UNCHANGED <<disk, nextGroup, clients>>
  PROVE  TypeOK'
  <1> DEFINE j == job[w]
  <1>0. j \in SignUpJob /\ Hash(j.password) \in Hashes
    BY JobType DEF SaveUser, At, TypeOK, SignUpJob, Hashes
  <1>1. User(nextUser, j) \in Row
    BY <1>0 DEF User, SignUpJob, UserRow, Row, TypeOK, StoreOK
  <1>2. ConnOK'
    BY <1>1, FailType, WriteType DEF SaveUser, TypeOK, ConnOK, conn
  <1>3. ProcOK'
    BY AnswerType DEF SaveUser, TypeOK, Refuse
  <1>4. tokens' \subseteq Token /\ nextUser' \in Nat
    BY <1>0 DEF SaveUser, Session, Token, SignUpJob, TypeOK, StoreOK
  <1>. QED BY <1>2, <1>3, <1>4 DEF SaveUser, TypeOK, UnitOK, StoreOK, ClientsOK, unit, clients

\* So do the reads of users, from the table or from the cache.
LEMMA UserType ==
  ASSUME TypeOK, NEW w \in Workers, UserStep(w), UNCHANGED <<disk, nextGroup, clients>>
  PROVE  TypeOK'
  <1>1. CASE LogIn(w) \/ SaveUser(w)
    BY <1>1, LogInType, SaveUserType
  <1>2. CASE ListUsers(w) \/ CurrentUser(w)
    <2>1. Base' /\ UNCHANGED <<nextUser, tokens>>
      BY <1>2, QueryType, AnswerType
      DEF ListUsers, CurrentUser, Base, TypeOK, ConnOK, UnitOK, conn, unit
    <2>. QED BY <2>1 DEF Base, TypeOK, StoreOK, ClientsOK, clients
  <1>. QED BY <1>1, <1>2 DEF UserStep

\* Every step of createGroup keeps the types; its id is a natural number.
LEMMA GroupType ==
  ASSUME TypeOK, NEW w \in Workers, GroupStep(w),
         UNCHANGED <<nextUser, tokens, disk, clients>>
  PROVE  TypeOK'
  <1>1. Base
    BY DEF TypeOK, Base
  <1>2. Base' /\ nextGroup' \in Nat
    <2>1. CASE GroupIsActive(w)
      BY <1>1, <2>1, IsActiveType DEF GroupIsActive, Labels, TypeOK, StoreOK
    <2>2. CASE GroupBegin(w)
      BY <1>1, <2>2, BeginType DEF GroupBegin, Labels, TypeOK, StoreOK
    <2>3. CASE InsertGroup(w)
      <3> DEFINE row == [job[w].row EXCEPT !.id = nextGroup]
      <3>1. job[w] \in GroupJob
        BY <2>3, JobType DEF InsertGroup, At, TypeOK
      <3>2. row \in GroupRow /\ row \in Row /\ [job[w] EXCEPT !.row = row] \in GroupJob
        BY <3>1 DEF GroupJob, GroupRow, Row, TypeOK, StoreOK
      <3>3. ConnOK'
        BY <2>3, <3>2, FailType, WriteType DEF InsertGroup, TypeOK
      <3>4. ProcOK'
        <4>1. CASE Refuse(w)
          BY <4>1, AnswerType DEF Refuse, TypeOK
        <4>2. CASE /\ job' = [job EXCEPT ![w].row = row]
                   /\ pc' = [pc EXCEPT ![w] = "insertMembers"] /\ UNCHANGED acked
          BY <4>2, <3>2 DEF TypeOK, ProcOK, Labels, Job
        <4>. QED BY <2>3, <4>1, <4>2 DEF InsertGroup
      <3>. QED BY <2>3, <3>3, <3>4 DEF InsertGroup, Base, TypeOK, UnitOK, StoreOK, unit
    <2>4. CASE InsertMembers(w)
      <3>1. job[w] \in GroupJob
        BY <2>4, JobType DEF InsertMembers, At, TypeOK
      <3>2. Members(job[w]) \subseteq Row
        BY <3>1 DEF Members, UserGroup, UserGroupRow, Row, GroupJob, GroupRow
      <3>3. ConnOK' /\ ProcOK'
        BY <1>1, <2>4, <3>2, ExecuteType, AnswerType
        DEF InsertMembers, Refuse, Labels, Base, ConnOK, conn
      <3>. QED BY <2>4, <3>3 DEF InsertMembers, Base, TypeOK, UnitOK, StoreOK, unit
    <2>5. CASE GroupCommit(w)
      <3>1. job[w] \in GroupJob
        BY <2>5, JobType DEF GroupCommit, At, TypeOK
      <3>2. {job[w].row} \cup Members(job[w]) \subseteq Row
        BY <3>1 DEF Members, UserGroup, UserGroupRow, Row, GroupJob, GroupRow
      <3>. QED BY <1>1, <2>5, <3>2, CommitType DEF GroupCommit, TypeOK, StoreOK
    <2>6. CASE ListGroups(w)
      BY <1>1, <2>6, QueryType DEF ListGroups, TypeOK, StoreOK
    <2>. QED BY <2>1, <2>2, <2>3, <2>4, <2>5, <2>6 DEF GroupStep
  <1>. QED BY <1>2 DEF Base, TypeOK, StoreOK, ClientsOK, clients

\* Every step of upload, share, download and listing keeps the types.
LEMMA FileType ==
  ASSUME TypeOK, NEW w \in Workers, FileStep(w),
         UNCHANGED <<nextUser, tokens, nextGroup, clients>>
  PROVE  TypeOK'
  <1>1. Base /\ disk \in [FileIds -> {"absent", "partial", "complete"}]
    BY DEF TypeOK, Base, StoreOK
  <1>2. Base' /\ disk' \in [FileIds -> {"absent", "partial", "complete"}]
    <2>1. CASE CheckCreator(w)
      BY <1>1, <2>1, FoundType, FailType, GotoType, AnswerType
      DEF CheckCreator, Find, Base, UnitOK, ConnOK, Refuse, Labels, conn
    <2>2. CASE ShareIsActive(w) \/ ShareBegin(w) \/ SaveIsActive(w) \/ SaveBegin(w)
      BY <1>1, <2>2, IsActiveType, BeginType
      DEF ShareIsActive, ShareBegin, SaveIsActive, SaveBegin, Labels
    <2>3. CASE InsertShare(w)
      <3>1. {job[w].row} \subseteq Row
        BY <1>1, <2>3, JobType DEF InsertShare, At, Base, ShareJob, Row
      <3>. QED BY <1>1, <2>3, <3>1, ExecuteType DEF InsertShare, Base, UnitOK, Labels, unit
    <2>4. CASE ShareCommit(w) \/ SaveCommit(w)
      <3>1. {job[w].row} \subseteq Row
        BY <1>1, <2>4, JobType
        DEF ShareCommit, SaveCommit, At, Base, ShareJob, SaveJob, Row
      <3>. QED BY <1>1, <2>4, <3>1, CommitType DEF ShareCommit, SaveCommit
    <2>5. CASE StartBlob(w) \/ FinishBlob(w)
      <3>1. job[w].row.id \in FileIds
        BY <1>1, <2>5, JobType DEF StartBlob, FinishBlob, At, Base, SaveJob, FileRow
      <3>2. ProcOK'
        BY <1>1, <2>5, GotoType, AnswerType DEF StartBlob, FinishBlob, Base, Refuse, Labels
      <3>. QED BY <1>1, <2>5, <3>1, <3>2
           DEF StartBlob, FinishBlob, Blob, Base, ConnOK, UnitOK, conn, unit
    <2>6. CASE Persist(w)
      <3>1. job[w].row \in FileRow
        BY <1>1, <2>6, JobType DEF Persist, At, Base, SaveJob
      <3>2. ProcOK'
        BY <1>1, <2>6, GotoType DEF Persist, Base, Labels
      <3>. QED BY <1>1, <2>6, <3>1, <3>2 DEF Persist, Base, ConnOK, UnitOK, conn
    <2>7. CASE Flush(w)
      <3>1. pending \in SUBSET Row
        BY <1>1 DEF Base, UnitOK, Row
      <3>2. ConnOK'
        BY <1>1, <2>7, <3>1, FailType, WriteType DEF Flush, Base, ConnOK, conn
      <3>3. ProcOK'
        BY <1>1, <2>7, GotoType, AnswerType DEF Flush, Base, Refuse, Labels
      <3>. QED BY <1>1, <2>7, <3>2, <3>3 DEF Flush, Base, UnitOK
    <2>8. CASE Refresh(w)
      <3>1. ConnOK'
        BY <1>1, <2>8, FailType, MarkType DEF Refresh, Base, ConnOK, conn
      <3>2. ProcOK'
        BY <1>1, <2>8, GotoType, AnswerType DEF Refresh, Base, Refuse, Labels
      <3>. QED BY <1>1, <2>8, <3>1, <3>2 DEF Refresh, Base, UnitOK
    <2>9. CASE CheckAccess(w)
      BY <1>1, <2>9, FailType, GotoType, AnswerType
      DEF CheckAccess, Base, UnitOK, ConnOK, Refuse, Labels, conn, unit
    <2>10. CASE FindDownload(w)
      BY <1>1, <2>10, FoundType, FailType, GotoType, AnswerType
      DEF FindDownload, Find, Base, UnitOK, ConnOK, Refuse, Labels, conn
    <2>11. CASE ReadBlob(w)
      BY <1>1, <2>11, AnswerType DEF ReadBlob, Base, UnitOK, ConnOK, conn, unit
    <2>12. CASE ListFiles(w)
      <3> DEFINE flushed == IF tx = "open" THEN pending ELSE {}
      <3>1. flushed \in SUBSET Row /\ flushed \subseteq FileRow
        BY <1>1 DEF Base, UnitOK, Row
      <3>2. ConnOK'
        BY <1>1, <2>12, <3>1, FailType, WriteType DEF ListFiles, Base
      <3>3. Listing(work \cup flushed, job[w].uid, job[w].dir) \subseteq FileRow
        BY <1>1, <3>1, FileRowType DEF Listing, Base, ConnOK
      <3>4. UnitOK'
        BY <1>1, <2>12, <3>3 DEF ListFiles, Base, UnitOK, unit
      <3>5. ProcOK'
        BY <1>1, <2>12, AnswerType DEF ListFiles, Base
      <3>. QED BY <1>1, <2>12, <3>2, <3>4, <3>5 DEF ListFiles, Base
    <2>. QED BY <2>1, <2>2, <2>3, <2>4, <2>5, <2>6, <2>7, <2>8, <2>9, <2>10, <2>11, <2>12
         DEF FileStep
  <1>. QED BY <1>2 DEF Base, TypeOK, StoreOK, ClientsOK, clients

\* A crash forgets what the process held and nothing else.
LEMMA CrashType == TypeOK /\ Crash => TypeOK'
  <1> SUFFICES ASSUME TypeOK, Crash PROVE TypeOK'
    OBVIOUS
  <1>1. ConnOK' /\ UnitOK'
    BY DEF Crash, TypeOK, ConnOK, UnitOK
  <1>2. ProcOK'
    BY DEF Crash, TypeOK, ProcOK, Labels, Job
  <1>3. StoreOK' /\ ClientsOK'
    BY DEF Crash, TypeOK, StoreOK, ClientsOK
  <1>. QED BY <1>1, <1>2, <1>3 DEF TypeOK

\* A step that changes nothing keeps the types.
LEMMA StutterType == TypeOK /\ UNCHANGED vars => TypeOK'
  BY DEF vars, conn, unit, clients, TypeOK, ConnOK, UnitOK, ProcOK, StoreOK, ClientsOK

\* Every variable always has its type, for any workers, users, files, member
\* lists and bounds: the rows, entities and jobs the handlers build fit the
\* tables and the entities of the code.
THEOREM TypeCorrect == Spec => []TypeOK
  <1>1. Init => TypeOK
    BY InitType
  <1>2. TypeOK /\ [Next]_vars => TypeOK'
    BY RequestType, UserType, FileType, GroupType, CrashType, StutterType
    DEF Next, Handle
  <1>. QED BY <1>1, <1>2, PTL DEF Spec
=============================================================================
