-------------------------- MODULE Durability_proofs --------------------------
(***************************************************************************)
(* What commit() means when the transaction belongs to nobody: a confirmed *)
(* row is stored or was rolled back, a rollback has a failure behind it,   *)
(* and an aborted transaction nobody is about to end stays until a restart.*)
(***************************************************************************)
EXTENDS Javka_proofs

\* The part of AckInv that is about the connection.
ConnInv == (tx = "none" => work = db) /\ db \subseteq work

\* What every step of a handler does to the connection: rows may move from
\* the open transaction to the database or to lost, and go nowhere else.
Kept ==
    /\ ConnInv'
    /\ work \cup lost \subseteq work' \cup lost'
    /\ db \cup lost \subseteq db' \cup lost'

\* Every operation on the connection keeps rows where they are or moves them.
LEMMA ConnKept ==
  ASSUME ConnInv
  PROVE  /\ UNCHANGED conn => Kept
         /\ Fail => Kept
         /\ Mark => Kept
         /\ Rollback => Kept
         /\ \A rows : Write(rows) => Kept /\ rows \subseteq work'
  BY DEF ConnInv, Kept, conn, Fail, Mark, Rollback, Write

\* A step to the next call moves one worker's pc only.
LEMMA FrameGoto ==
  ASSUME TypeOK, NEW w \in Workers, NEW l, Goto(w, l)
  PROVE  /\ \A v \in Workers : v # w => pc'[v] = pc[v]
         /\ pc'[w] = l /\ job' = job /\ acked' = acked
  BY DEF TypeOK, ProcOK, Goto

\* An answer ends one worker's job and confirms its rows.
LEMMA FrameAnswer ==
  ASSUME TypeOK, NEW w \in Workers, NEW rows, Answer(w, rows)
  PROVE  /\ \A v \in Workers : v # w => pc'[v] = pc[v] /\ job'[v] = job[v]
         /\ pc'[w] = "idle" /\ job'[w] = NoJob /\ acked' = acked \cup rows
  BY DEF TypeOK, ProcOK, Answer

\* What a handler's step has to show to keep AckInv: it confirms only rows that
\* are stored or lost, and reaches a commit only with its rows accounted for.
LEMMA AckStep ==
  ASSUME AckInv, NEW w \in Workers, Kept,
         acked' \subseteq acked \cup db' \cup lost',
         \A v \in Workers : v # w => pc'[v] = pc[v] /\ job'[v] = job[v],
         pc'[w] = "insertMembers" /\ job'[w].op = "group" =>
             job'[w].row \in work' \cup lost',
         pc'[w] = "commit" => Effect(job'[w]) \subseteq work' \cup lost'
  PROVE  AckInv'
  BY DEF AckInv, AckDurable, Kept, ConnInv, At, Effect, Members

\* The two ways a step leaves its worker anywhere but before a commit.
LEMMA AckGoto ==
  ASSUME TypeOK, AckInv, NEW w \in Workers, NEW l, Kept, Goto(w, l),
         l \notin {"commit", "insertMembers"}
  PROVE  AckInv'
  BY FrameGoto, AckStep

\* A handler that answers confirms rows that are stored or lost.
LEMMA AckAnswer ==
  ASSUME TypeOK, AckInv, NEW w \in Workers, NEW rows, Kept, Answer(w, rows),
         rows \subseteq db' \cup lost'
  PROVE  AckInv'
  BY FrameAnswer, AckStep

\* One that throws confirms nothing.
LEMMA AckRefuse ==
  ASSUME TypeOK, AckInv, NEW w \in Workers, Kept, Refuse(w)
  PROVE  AckInv'
  BY AckAnswer DEF Refuse

\* isActive() touches no row.
LEMMA AckIsActive ==
  ASSUME TypeOK, AckInv, NEW w \in Workers, NEW body, IsActive(w, body),
         body \notin {"commit", "insertMembers"}
  PROVE  AckInv'
  BY ConnKept, AckGoto DEF IsActive, AckInv, ConnInv

\* Neither does begin(), of one's own transaction or of another's.
LEMMA AckBegin ==
  ASSUME TypeOK, AckInv, NEW w \in Workers, NEW body, Begin(w, body),
         body \notin {"commit", "insertMembers"}
  PROVE  AckInv'
  <1>1. Kept
    BY DEF Begin, Kept, AckInv, ConnInv
  <1>. QED BY <1>1, AckGoto, AckRefuse DEF Begin

\* commit() confirms the caller's rows: they are stored by it or were lost.
LEMMA AckCommit ==
  ASSUME TypeOK, AckInv, NEW w \in Workers, pc[w] = "commit", Commit(w, Effect(job[w]))
  PROVE  AckInv'
  <1>0. ConnInv /\ Effect(job[w]) \subseteq work \cup lost
    BY DEF AckInv, ConnInv
  <1>1. CASE tx = "none" /\ Refuse(w) /\ UNCHANGED <<conn, unit>>
    BY <1>0, <1>1, ConnKept, AckRefuse
  <1>2. CASE Rollback /\ Refuse(w)
    BY <1>0, <1>2, ConnKept, AckRefuse
  <1>3. CASE /\ tx = "open" /\ work' = work \cup pending /\ db' = work'
             /\ tx' = "none" /\ UNCHANGED lost /\ Answer(w, Effect(job[w]))
    <2>1. Kept /\ Effect(job[w]) \subseteq db' \cup lost'
      BY <1>0, <1>3 DEF Kept, ConnInv
    <2>. QED BY <1>3, <2>1, AckAnswer
  <1>4. CASE Rollback /\ Answer(w, Effect(job[w]))
    <2>1. Kept
      BY <1>0, <1>4, ConnKept
    <2>2. Effect(job[w]) \subseteq db' \cup lost'
      BY <1>0, <1>4 DEF Rollback, ConnInv
    <2>. QED BY <1>4, <2>1, <2>2, AckAnswer
  <1>. QED BY <1>1, <1>2, <1>3, <1>4 DEF Commit

\* executeUpdate: a handler gets to its commit only with its rows in work.
LEMMA AckExecute ==
  ASSUME TypeOK, AckInv, NEW w \in Workers, NEW rows, NEW valid,
         Execute(w, rows, valid, "commit"), Effect(job[w]) \subseteq work \cup lost \cup rows
  PROVE  AckInv'
  <1>0. ConnInv
    BY DEF AckInv, ConnInv
  <1>1. CASE UNCHANGED conn /\ Refuse(w)
    BY <1>0, <1>1, ConnKept, AckRefuse
  <1>2. CASE Fail /\ Refuse(w)
    BY <1>0, <1>2, ConnKept, AckRefuse
  <1>3. CASE Write(rows) /\ Goto(w, "commit")
    <2>1. Kept /\ rows \subseteq work'
      BY <1>0, <1>3, ConnKept
    <2>2. Effect(job'[w]) \subseteq work' \cup lost'
      BY <1>3, <2>1, FrameGoto DEF Kept, Effect, Members
    <2>. QED BY <1>3, <2>1, <2>2, FrameGoto, AckStep
  <1>. QED BY <1>1, <1>2, <1>3 DEF Execute

\* A request starts a handler before its first call.
LEMMA AckRequest ==
  ASSUME TypeOK, AckInv, NEW w \in Workers, Request(w)
  PROVE  AckInv'
  <1>0. ConnInv
    BY DEF AckInv, ConnInv
  <1>1. PICK op, j, label : /\ Accept(w, op, j, label)
                            /\ label \notin {"commit", "insertMembers"}
    BY RequestAccepts DEF FirstLabels
  <1>2. Kept
    BY <1>0, <1>1, ConnKept DEF Accept
  <1>. QED BY <1>1, <1>2, AckStep DEF Accept, TypeOK, ProcOK

\* A handler that only reads confirms no row.
LEMMA AckQuery ==
  ASSUME TypeOK, AckInv, NEW w \in Workers, NEW op, Query(w, op)
  PROVE  AckInv'
  <1>0. ConnInv
    BY DEF AckInv, ConnInv
  <1>1. Kept
    BY <1>0, ConnKept DEF Query
  <1>. QED BY <1>1, AckAnswer DEF Query

\* signUp confirms no row, and never comes to a commit; nor do the reads.
LEMMA AckSignUp ==
  ASSUME TypeOK, AckInv, NEW w \in Workers, UserStep(w)
  PROVE  AckInv'
  <1>0. ConnInv
    BY DEF AckInv, ConnInv
  <1>1. CASE LogIn(w) \/ SaveUser(w)
    <2>1. Kept
      BY <1>0, <1>1, ConnKept DEF LogIn, SaveUser
    <2>. QED BY <1>1, <2>1, AckGoto, AckRefuse, AckAnswer DEF LogIn, SaveUser
  <1>2. CASE ListUsers(w) \/ CurrentUser(w)
    BY <1>0, <1>2, AckQuery, ConnKept, AckAnswer DEF ListUsers, CurrentUser
  <1>. QED BY <1>1, <1>2 DEF UserStep

\* createGroup: the group's row is in work before its members, both before commit.
LEMMA AckGroup ==
  ASSUME TypeOK, AckInv, NEW w \in Workers, GroupStep(w)
  PROVE  AckInv'
  <1>0. ConnInv
    BY DEF AckInv, ConnInv
  <1>1. CASE GroupIsActive(w) \/ GroupBegin(w)
    BY <1>1, AckIsActive, AckBegin DEF GroupIsActive, GroupBegin
  <1>2. CASE InsertGroup(w)
    <2> DEFINE row == [job[w].row EXCEPT !.id = nextGroup]
    <2>1. CASE Fail /\ Refuse(w)
      BY <1>0, <2>1, ConnKept, AckRefuse
    <2>2. CASE /\ Write({row}) /\ job' = [job EXCEPT ![w].row = row]
               /\ pc' = [pc EXCEPT ![w] = "insertMembers"] /\ UNCHANGED acked
      <3>1. Kept /\ row \in work'
        BY <1>0, <2>2, ConnKept
      <3>2. job'[w].row = row
        <4>1. job[w] \in GroupJob
          BY <1>2, JobType DEF InsertGroup, At, TypeOK
        <4>. QED BY <2>2, <4>1 DEF TypeOK, ProcOK, GroupJob
      <3>3. /\ \A v \in Workers : v # w => pc'[v] = pc[v] /\ job'[v] = job[v]
            /\ pc'[w] = "insertMembers"
        BY <2>2 DEF TypeOK, ProcOK
      <3>. QED BY <2>2, <3>1, <3>2, <3>3, AckStep
    <2>. QED BY <1>2, <2>1, <2>2 DEF InsertGroup
  <1>3. CASE InsertMembers(w)
    <2>1. Effect(job[w]) \subseteq work \cup lost \cup Members(job[w])
      BY <1>3 DEF InsertMembers, At, AckInv, Effect
    <2>. QED BY <1>0, <1>3, <2>1, ConnKept, AckRefuse, AckExecute DEF InsertMembers
  <1>4. CASE GroupCommit(w)
    <2>1. {job[w].row} \cup Members(job[w]) = Effect(job[w])
      BY <1>4 DEF GroupCommit, At, Effect
    <2>. QED BY <1>4, <2>1, AckCommit DEF GroupCommit, At
  <1>5. CASE ListGroups(w)
    BY <1>5, AckQuery DEF ListGroups
  <1>. QED BY <1>1, <1>2, <1>3, <1>4, <1>5 DEF GroupStep

\* save reaches its commit through a refresh that read the row back, share
\* through an INSERT that went through.
LEMMA AckFile ==
  ASSUME TypeOK, AckInv, NEW w \in Workers, FileStep(w)
  PROVE  AckInv'
  <1>0. ConnInv
    BY DEF AckInv, ConnInv
  <1>1. CASE CheckCreator(w) \/ FindDownload(w)
    BY <1>0, <1>1, ConnKept, AckGoto, AckRefuse DEF CheckCreator, FindDownload, Find
  <1>2. CASE ShareIsActive(w) \/ ShareBegin(w) \/ SaveIsActive(w) \/ SaveBegin(w)
    BY <1>2, AckIsActive, AckBegin DEF ShareIsActive, ShareBegin, SaveIsActive, SaveBegin
  <1>3. CASE InsertShare(w)
    <2>1. Effect(job[w]) \subseteq work \cup lost \cup {job[w].row}
      BY <1>3 DEF InsertShare, At, Effect
    <2>. QED BY <1>3, <2>1, AckExecute DEF InsertShare
  <1>4. CASE ShareCommit(w) \/ SaveCommit(w)
    <2>1. {job[w].row} = Effect(job[w])
      BY <1>4 DEF ShareCommit, SaveCommit, At, Effect
    <2>. QED BY <1>4, <2>1, AckCommit DEF ShareCommit, SaveCommit, At
  <1>5. CASE StartBlob(w) \/ FinishBlob(w) \/ Persist(w)
    BY <1>0, <1>5, ConnKept, AckGoto, AckRefuse DEF StartBlob, FinishBlob, Persist
  <1>6. CASE Flush(w)
    BY <1>0, <1>6, ConnKept, AckGoto, AckRefuse DEF Flush
  <1>7. CASE Refresh(w)
    <2>1. CASE Refuse(w)
      BY <1>0, <1>7, <2>1, ConnKept, AckRefuse DEF Refresh
    <2>2. CASE job[w].row \in work /\ Goto(w, "commit") /\ UNCHANGED conn
      <3>1. Kept
        BY <1>0, <2>2, ConnKept
      <3>2. Effect(job'[w]) \subseteq work' \cup lost'
        BY <1>7, <2>2, FrameGoto DEF Refresh, At, Effect, conn
      <3>. QED BY <1>7, <2>2, <3>1, <3>2, FrameGoto, AckStep DEF Refresh, At
    <2>. QED BY <1>7, <2>1, <2>2 DEF Refresh
  <1>8. CASE CheckAccess(w)
    BY <1>0, <1>8, ConnKept, AckGoto, AckRefuse DEF CheckAccess
  <1>9. CASE ReadBlob(w) \/ ListFiles(w)
    BY <1>0, <1>9, ConnKept, AckAnswer DEF ReadBlob, ListFiles
  <1>. QED BY <1>1, <1>2, <1>3, <1>4, <1>5, <1>6, <1>7, <1>8, <1>9 DEF FileStep

\* A crash drops open rows together with the handlers that would confirm them.
LEMMA AckCrash == TypeOK /\ AckInv /\ Crash => AckInv'
  BY DEF Crash, AckInv, AckDurable, At

\* A step that changes nothing keeps AckInv.
LEMMA AckStutter == AckInv /\ UNCHANGED vars => AckInv'
  BY DEF vars, conn, AckInv, AckDurable, At, Effect, Members

\* AckInv holds: it is inductive.
THEOREM AckInvariant == Spec => []AckInv
  <1>1. Init => AckInv
    BY DEF Init, AckInv, AckDurable, At
  <1>2. TypeOK /\ AckInv /\ [Next]_vars => AckInv'
    BY AckRequest, AckSignUp, AckFile, AckGroup, AckCrash, AckStutter DEF Next, Handle
  <1>. QED BY <1>1, <1>2, TypeCorrect, PTL DEF Spec

\* What a client was told is stored is stored, or a rollback removed it.
THEOREM Durable == Spec => []AckDurable
  <1>1. AckInv => AckDurable
    BY DEF AckInv
  <1>. QED BY <1>1, AckInvariant, PTL

----------------------------------------------------------------------------
\* What a step adds to the rows the connection sees.

\* The operations on the connection add the rows they are given, and commit()
\* the queued ones.
LEMMA ConnGrows ==
  ASSUME ConnInv
  PROVE  /\ UNCHANGED conn \/ Fail \/ Mark \/ Rollback => work' \subseteq work
         /\ \A rows : Write(rows) => work' \subseteq work \cup rows
         /\ \A w, body : IsActive(w, body) \/ Begin(w, body) => work' \subseteq work
         /\ \A w, effect : Commit(w, effect) => work' \subseteq work \cup pending
         /\ \A w, rows, valid, next :
               Execute(w, rows, valid, next) => work' \subseteq work \cup rows
  BY DEF ConnInv, conn, Fail, Mark, Rollback, Write, IsActive, Begin, Commit, Execute

\* Handlers of files add queued entities, and one its share.
LEMMA FileWork ==
  ASSUME TypeOK, AckInv, NEW w \in Workers, FileStep(w)
  PROVE  \A r \in work' :
             \/ r \in work
             \/ r \in pending /\ r.table = "files"
             \/ /\ At(w, "insertShare", "share") /\ r = job[w].row
                /\ r.table \in {"user_files", "group_files"}
  <1>0. ConnInv /\ \A r \in pending : r.table = "files"
    BY DEF AckInv, ConnInv, TypeOK, UnitOK, FileRow
  <1>1. CASE CheckCreator(w) \/ FindDownload(w)
    BY <1>0, <1>1, ConnGrows DEF CheckCreator, FindDownload, Find
  <1>2. CASE ShareIsActive(w) \/ ShareBegin(w) \/ SaveIsActive(w) \/ SaveBegin(w)
    BY <1>0, <1>2, ConnGrows DEF ShareIsActive, ShareBegin, SaveIsActive, SaveBegin
  <1>3. CASE InsertShare(w)
    <2>1. At(w, "insertShare", "share") /\ work' \subseteq work \cup {job[w].row}
      BY <1>0, <1>3, ConnGrows DEF InsertShare
    <2>2. job[w].row.table \in {"user_files", "group_files"}
      BY <2>1, JobType DEF At, TypeOK, ShareJob, ShareRow, UserFileRow, GroupFileRow
    <2>. QED BY <2>1, <2>2
  <1>4. CASE ShareCommit(w) \/ SaveCommit(w)
    BY <1>0, <1>4, ConnGrows DEF ShareCommit, SaveCommit
  <1>5. CASE StartBlob(w) \/ FinishBlob(w) \/ Persist(w) \/ ReadBlob(w)
    BY <1>0, <1>5, ConnGrows DEF StartBlob, FinishBlob, Persist, ReadBlob
  <1>6. CASE Flush(w) \/ Refresh(w) \/ CheckAccess(w) \/ ListFiles(w)
    BY <1>0, <1>6, ConnGrows DEF Flush, Refresh, CheckAccess, ListFiles
  <1>. QED BY <1>1, <1>2, <1>3, <1>4, <1>5, <1>6 DEF FileStep

\* Handlers of groups add a group, its members, or queued entities.
LEMMA GroupWork ==
  ASSUME TypeOK, AckInv, NEW w \in Workers, GroupStep(w)
  PROVE  \A r \in work' :
             \/ r \in work
             \/ r \in pending /\ r.table = "files"
             \/ r.table = "groups"
             \/ /\ At(w, "insertMembers", "group") /\ r \in Members(job[w])
                /\ r.table = "user_groups"
  <1>0. ConnInv /\ \A r \in pending : r.table = "files"
    BY DEF AckInv, ConnInv, TypeOK, UnitOK, FileRow
  <1>1. CASE GroupIsActive(w) \/ GroupBegin(w)
    BY <1>0, <1>1, ConnGrows DEF GroupIsActive, GroupBegin
  <1>2. CASE InsertGroup(w)
    <2>. DEFINE row == [job[w].row EXCEPT !.id = nextGroup]
    <2>1. work' \subseteq work \cup {row}
      BY <1>0, <1>2, ConnGrows DEF InsertGroup
    <2>2. row.table = "groups"
      BY <1>2, JobType DEF InsertGroup, At, TypeOK, GroupJob, GroupRow
    <2>. QED BY <2>1, <2>2
  <1>3. CASE InsertMembers(w)
    <2>1. At(w, "insertMembers", "group") /\ work' \subseteq work \cup Members(job[w])
      BY <1>0, <1>3, ConnGrows DEF InsertMembers
    <2>2. \A r \in Members(job[w]) : r.table = "user_groups"
      BY DEF Members, UserGroup
    <2>. QED BY <2>1, <2>2
  <1>4. CASE GroupCommit(w)
    BY <1>0, <1>4, ConnGrows DEF GroupCommit
  <1>5. CASE ListGroups(w)
    BY <1>0, <1>5, ConnGrows DEF ListGroups, Query
  <1>. QED BY <1>1, <1>2, <1>3, <1>4, <1>5 DEF GroupStep

----------------------------------------------------------------------------
\* What a step does to the history of failures: the mark keeps its reason,
\* and a rollback has one.
HurtKept == HurtInv' /\ (lost' # lost => hurt')

\* Every operation on the connection marks or aborts only on a failure it
\* records, and rolls back only a transaction that has one.
LEMMA HurtConn ==
  ASSUME ConnOK, HurtInv
  PROVE  /\ UNCHANGED conn => HurtKept
         /\ Fail => HurtKept
         /\ Mark => HurtKept
         /\ \A rows : Write(rows) => HurtKept
         /\ \A w, body : IsActive(w, body) => HurtKept
         /\ \A w, body : Begin(w, body) => HurtKept
         /\ \A w, effect : Commit(w, effect) => HurtKept
         /\ \A w, rows, valid, next : Execute(w, rows, valid, next) => HurtKept
  <1> USE DEF ConnOK, HurtInv, HurtKept, conn
  <1>0. UNCHANGED conn => HurtKept
    OBVIOUS
  <1>1. Fail => HurtKept
    BY DEF Fail
  <1>2. \A rows : Write(rows) => HurtKept
    BY DEF Write
  <1>3. ASSUME NEW w, NEW effect, Commit(w, effect) PROVE HurtKept
    <2>1. CASE tx = "none" /\ UNCHANGED <<conn, unit>>
      BY <2>1
    <2>2. CASE (rollbackOnly \/ ~Flushable) /\ Rollback /\ hurt' = (hurt \/ ~Flushable)
      <3>1. hurt'
        BY <2>2
      <3>. QED BY <2>2, <3>1 DEF Rollback
    <2>3. CASE /\ tx = "open" /\ ~rollbackOnly /\ work' = work \cup pending /\ db' = work'
               /\ tx' = "none" /\ UNCHANGED <<rollbackOnly, hurt, lost, context>>
      BY <2>3
    <2>4. CASE tx = "aborted" /\ Rollback /\ UNCHANGED <<hurt, unit>>
      BY <2>4 DEF Rollback
    <2>. QED BY <1>3, <2>1, <2>2, <2>3, <2>4 DEF Commit
  <1>4. ASSUME NEW w, NEW rows, NEW valid, NEW next, Execute(w, rows, valid, next)
        PROVE  HurtKept
    <2>. HIDE DEF HurtKept, HurtInv, ConnOK
    <2>. QED BY <1>0, <1>1, <1>2, <1>4 DEF Execute
  <1>5. ASSUME NEW w, NEW body, IsActive(w, body) PROVE HurtKept
    BY <1>5 DEF IsActive
  <1>6. ASSUME NEW w, NEW body, Begin(w, body) PROVE HurtKept
    <2>1. rollbackOnly' => rollbackOnly /\ tx # "none" /\ tx' = tx /\ hurt' = hurt
      BY <1>6, Zenon DEF Begin
    <2>. QED BY <1>6, <2>1 DEF Begin
  <1>7. Mark => HurtKept
    BY DEF Mark
  <1>. HIDE DEF ConnOK, HurtInv, HurtKept, conn
  <1>. QED BY <1>0, <1>1, <1>2, <1>3, <1>4, <1>5, <1>6, <1>7

\* So does every step of the server.
LEMMA HurtStep ==
  ASSUME TypeOK, HurtInv, [Next]_vars
  PROVE  HurtKept
  <1>0. ConnOK
    BY DEF TypeOK
  <1>1. CASE Crash
    BY <1>1 DEF Crash, HurtInv, HurtKept
  <1>2. CASE UNCHANGED vars
    BY <1>0, <1>2, HurtConn DEF vars
  <1>3. ASSUME NEW w \in Workers, Request(w) PROVE HurtKept
    BY <1>3, RequestAccepts, <1>0, HurtConn DEF Accept
  <1>4. ASSUME NEW w \in Workers, UserStep(w) PROVE HurtKept
    BY <1>4, <1>0, HurtConn DEF UserStep, LogIn, SaveUser, ListUsers, CurrentUser, Query
  <1>5. ASSUME NEW w \in Workers, GroupStep(w) PROVE HurtKept
    BY <1>5, <1>0, HurtConn
    DEF GroupStep, GroupIsActive, GroupBegin, InsertGroup, InsertMembers, GroupCommit,
        ListGroups, Query
  <1>6. ASSUME NEW w \in Workers, FileStep(w) PROVE HurtKept
    <2>1. CASE CheckCreator(w) \/ FindDownload(w)
      BY <2>1, <1>0, HurtConn DEF CheckCreator, FindDownload, Find
    <2>2. CASE ShareIsActive(w) \/ ShareBegin(w) \/ SaveIsActive(w) \/ SaveBegin(w)
      BY <2>2, <1>0, HurtConn DEF ShareIsActive, ShareBegin, SaveIsActive, SaveBegin
    <2>3. CASE InsertShare(w) \/ ShareCommit(w) \/ SaveCommit(w)
      BY <2>3, <1>0, HurtConn DEF InsertShare, ShareCommit, SaveCommit
    <2>4. CASE StartBlob(w) \/ FinishBlob(w) \/ Persist(w) \/ ReadBlob(w)
      BY <2>4, <1>0, HurtConn DEF StartBlob, FinishBlob, Persist, ReadBlob
    <2>5. CASE Flush(w) \/ Refresh(w) \/ CheckAccess(w) \/ ListFiles(w)
      BY <2>5, <1>0, HurtConn DEF Flush, Refresh, CheckAccess, ListFiles
    <2>. QED BY <1>6, <2>1, <2>2, <2>3, <2>4, <2>5 DEF FileStep
  <1>. QED BY <1>1, <1>2, <1>3, <1>4, <1>5, <1>6 DEF Next, Handle

\* A transaction is aborted or marked only with a failure on record.
LEMMA HurtInvariant == Spec => []HurtInv
  <1>1. Init => HurtInv
    BY DEF Init, HurtInv
  <1>2. TypeOK /\ HurtInv /\ [Next]_vars => HurtInv'
    BY HurtStep DEF HurtKept
  <1>. QED BY <1>1, <1>2, TypeCorrect, PTL DEF Spec

\* Rows are thrown away only after a failure in their own transaction.
THEOREM LostAfterFailure == Spec => RollbackAfterFailure
  <1>1. TypeOK /\ HurtInv /\ [Next]_vars => [lost' # lost => hurt']_vars
    BY HurtStep DEF HurtKept
  <1>. QED BY <1>1, TypeCorrect, HurtInvariant, PTL DEF Spec, RollbackAfterFailure

----------------------------------------------------------------------------
\* A step of a handler that finds the transaction aborted and stays away from
\* commit, where nothing is stored and nothing confirmed.
StuckKept == tx' = "aborted" /\ UNCHANGED <<db, acked>> /\
             \A w \in Workers : pc'[w] # "commit"

\* Nothing but a commit or a rollback gets an aborted transaction over with.
LEMMA StuckConn ==
  ASSUME tx = "aborted"
  PROVE  /\ UNCHANGED conn => tx' = "aborted" /\ db' = db
         /\ Fail => tx' = "aborted" /\ db' = db
         /\ Mark => tx' = "aborted" /\ db' = db
         /\ \A rows : Write(rows) => tx' = "aborted" /\ db' = db
  BY DEF conn, Fail, Mark, Write

\* A handler that leaves, or goes on to anything but commit, leaves it stuck.
LEMMA StuckProc ==
  ASSUME TypeOK, Stuck, NEW w \in Workers, tx' = "aborted", db' = db,
         Refuse(w) \/ \E l : l # "commit" /\ Goto(w, l)
  PROVE  StuckKept
  BY FrameGoto, FrameAnswer DEF Stuck, StuckKept, Refuse

\* isActive(), begin() and executeUpdate do that when it is aborted.
LEMMA StuckBracket ==
  ASSUME TypeOK, Stuck, NEW w \in Workers
  PROVE  /\ \A body : body # "commit" /\ IsActive(w, body) => StuckKept
         /\ \A body : body # "commit" /\ Begin(w, body) => StuckKept
         /\ \A rows, valid, next : Execute(w, rows, valid, next) => StuckKept
  BY StuckConn, StuckProc DEF Stuck, IsActive, Begin, Execute

\* So does every step of the server short of a crash; it hands out no token.
LEMMA StuckStep ==
  ASSUME TypeOK, [Next]_vars, Stuck, crashes' = crashes
  PROVE  StuckKept /\ tokens' = tokens
  <1>0. tx = "aborted"
    BY DEF Stuck
  <1>1. CASE Crash
    BY <1>1 DEF Crash, TypeOK, ClientsOK
  <1>2. CASE UNCHANGED vars
    BY <1>2 DEF vars, conn, Stuck, StuckKept
  <1>3. ASSUME NEW w \in Workers, Request(w) PROVE StuckKept /\ tokens' = tokens
    BY <1>3, RequestAccepts
    DEF Accept, FirstLabels, Stuck, StuckKept, conn, TypeOK, ProcOK
  <1>4. ASSUME NEW w \in Workers, UserStep(w)
        PROVE  StuckKept /\ tokens' = tokens
    BY <1>0, <1>4, StuckConn, StuckProc
    DEF UserStep, LogIn, SaveUser, ListUsers, CurrentUser, Query, Refuse
  <1>5. ASSUME NEW w \in Workers, GroupStep(w) PROVE StuckKept
    BY <1>0, <1>5, StuckConn, StuckProc, StuckBracket
    DEF GroupStep, GroupIsActive, GroupBegin, InsertGroup, InsertMembers, GroupCommit,
        ListGroups, Query, Refuse, At, Stuck
  <1>6. ASSUME NEW w \in Workers, FileStep(w) PROVE StuckKept
    <2>1. CASE CheckCreator(w) \/ FindDownload(w)
      BY <1>0, <2>1, StuckConn, StuckProc DEF CheckCreator, FindDownload, Find
    <2>2. CASE ShareIsActive(w) \/ ShareBegin(w) \/ SaveIsActive(w) \/ SaveBegin(w)
      BY <2>2, StuckBracket DEF ShareIsActive, ShareBegin, SaveIsActive, SaveBegin
    <2>3. CASE InsertShare(w) \/ ShareCommit(w) \/ SaveCommit(w)
      BY <2>3, StuckBracket DEF InsertShare, ShareCommit, SaveCommit, At, Stuck
    <2>4. CASE StartBlob(w) \/ FinishBlob(w) \/ Persist(w) \/ ReadBlob(w)
      BY <1>0, <2>4, StuckConn, StuckProc
      DEF StartBlob, FinishBlob, Persist, ReadBlob, Refuse
    <2>5. CASE Flush(w) \/ Refresh(w) \/ CheckAccess(w) \/ ListFiles(w)
      BY <1>0, <2>5, StuckConn, StuckProc DEF Flush, Refresh, CheckAccess, ListFiles, Refuse
    <2>. QED BY <1>6, <2>1, <2>2, <2>3, <2>4, <2>5 DEF FileStep
  <1>. QED BY <1>1, <1>2, <1>3, <1>4, <1>5, <1>6 DEF Next, Handle

\* Once aborted and left by those who could commit, the transaction stays
\* until the process restarts, and the server stores nothing until then.
THEOREM PoisonLasts == Spec => OnlyRestartRecovers
  <1>1. TypeOK /\ [Next]_vars =>
            [Stuck /\ crashes' = crashes =>
                Stuck' /\ UNCHANGED <<db, tokens, acked>>]_vars
    BY StuckStep DEF StuckKept, Stuck
  <1>. QED BY <1>1, TypeCorrect, PTL DEF Spec, OnlyRestartRecovers

----------------------------------------------------------------------------
\* Who is going to end the transaction.

\* Memberships and groups have numbers.
LEMMA GroupIds ==
  ASSUME TypeOK
  PROVE  /\ \A m \in Of(work, "user_groups") : m.group \in Nat
         /\ \A w \in Workers : job[w].op = "group" => job[w].row.id \in Nat
         /\ nextGroup \in Nat
  <1>1. \A m \in Of(work, "user_groups") : m.group \in Nat
    BY DEF TypeOK, ConnOK, Of, Row, UserRow, FileRow, GroupRow, UserGroupRow, ShareRow,
           UserFileRow, GroupFileRow
  <1>. QED BY <1>1, JobType DEF TypeOK, StoreOK, GroupJob, GroupRow

\* The step of one handler leaves the others where they are, and what it owes
\* to a transaction that stays open, it owes only if it was to end it itself.
Passes(w) ==
    tx' = "open" /\ ~hurt' =>
        \/ Ends(w)' \/ Memberless'
        \/ /\ tx = "open" /\ ~hurt /\ ~Ends(w)
           /\ db' = db /\ work \subseteq work' /\ context \subseteq context'

\* What a handler's step has to show to keep TxInv.
LEMMA TxStep ==
  ASSUME TypeOK, TxInv, NEW w \in Workers,
         \A v \in Workers : v # w => pc'[v] = pc[v] /\ job'[v] = job[v],
         \A n \in Nat : n < nextGroup => n < nextGroup',
         \A m \in Of(work', "user_groups") :
             m \in work \/ (m.group \in Nat /\ m.group < nextGroup /\ Ends(w)'),
         At(w, "insertMembers", "group")' => job'[w].row.id < nextGroup',
         Passes(w)
  PROVE  TxInv'
  <1>1. \A m \in Of(work', "user_groups") : m.group < nextGroup'
    BY GroupIds DEF TxInv, Of
  <1>2. \A v \in Workers : At(v, "insertMembers", "group")' => job'[v].row.id < nextGroup'
    BY GroupIds DEF TxInv, At
  <1>3. ASSUME tx' = "open", ~hurt', ~Memberless', ~Ends(w)'
        PROVE  \E v \in Workers : Ends(v)'
    <2>1. /\ tx = "open" /\ ~hurt /\ ~Ends(w)
          /\ db' = db /\ work \subseteq work' /\ context \subseteq context'
      BY <1>3 DEF Passes
    <2>2. ~Memberless
      <3>1. \A m \in Of(work', "user_groups") : m \in Of(work, "user_groups")
        BY <1>3 DEF Of
      <3>. QED BY <1>3, <2>1, <3>1 DEF Memberless, Of
    <2>3. PICK v \in Workers : Ends(v)
      BY <2>1, <2>2 DEF TxInv
    <2>. QED BY <2>1, <2>3 DEF Ends, At
  <1>. QED BY <1>1, <1>2, <1>3 DEF TxInv

\* A step that enters no members and draws no group id.
LEMMA TxQuiet ==
  ASSUME TypeOK, TxInv, NEW w \in Workers,
         Of(work', "user_groups") \subseteq work, UNCHANGED nextGroup, Passes(w),
         (\E rows : Answer(w, rows)) \/ (\E l : l # "insertMembers" /\ Goto(w, l))
  PROVE  TxInv'
  <1>1. /\ \A v \in Workers : v # w => pc'[v] = pc[v] /\ job'[v] = job[v]
        /\ pc'[w] # "insertMembers"
    BY FrameGoto, FrameAnswer
  <1>. QED BY <1>1, TxStep DEF At

\* Steps that leave the transaction as it is, or end it, or fail in it.
LEMMA PassesConn ==
  ASSUME ConnInv, NEW w \in Workers
  PROVE  /\ Fail => Passes(w)
         /\ Mark => Passes(w)
         /\ Rollback => Passes(w)
         /\ UNCHANGED <<conn, context>> /\ ~Ends(w) => Passes(w)
         /\ UNCHANGED conn /\ context \subseteq context' /\ ~Ends(w) => Passes(w)
         /\ UNCHANGED conn /\ tx = "none" => Passes(w)
         /\ \A rows : Write(rows) /\ ~Ends(w) /\ context \subseteq context' => Passes(w)
         /\ \A rows : Write(rows) /\ tx # "open" => Passes(w)
         /\ Ends(w)' => Passes(w)
  <1>1. Fail => Passes(w)
    BY DEF Passes, Fail
  <1>2. Mark => Passes(w)
    <2>1. Mark /\ tx' = "open" => hurt'
      BY DEF Mark
    <2>. QED BY <2>1 DEF Passes
  <1>3. Rollback => Passes(w)
    BY DEF Passes, Rollback
  <1>4. UNCHANGED conn /\ context \subseteq context' /\ ~Ends(w) => Passes(w)
    BY DEF Passes, conn
  <1>5. UNCHANGED conn /\ tx = "none" => Passes(w)
    BY DEF Passes, conn
  <1>6. ASSUME NEW rows, Write(rows) PROVE ~Ends(w) /\ context \subseteq context' => Passes(w)
    BY <1>6 DEF Passes, Write
  <1>7. ASSUME NEW rows, Write(rows) PROVE tx # "open" => Passes(w)
    BY <1>7 DEF Passes, Write
  <1>8. Ends(w)' => Passes(w)
    BY DEF Passes
  <1>. QED BY <1>1, <1>2, <1>3, <1>4, <1>5, <1>6, <1>7, <1>8

\* The bracket: whoever begins is to end, and a commit ends whatever is open.
LEMMA PassesBracket ==
  ASSUME TypeOK, ConnInv, NEW w \in Workers
  PROVE  /\ \A body : IsActive(w, body) /\ pc[w] = "isActive" => Passes(w)
         /\ \A body : /\ Begin(w, body) /\ pc[w] = "begin"
                       /\ body \in {"insertShare", "persist", "insertGroup"} => Passes(w)
         /\ \A effect : Commit(w, effect) => Passes(w)
         /\ \A rows, valid : Execute(w, rows, valid, "commit") => Passes(w)
  <1>1. ASSUME NEW body, IsActive(w, body), pc[w] = "isActive" PROVE Passes(w)
    BY <1>1, PassesConn DEF IsActive, Ends, At, unit
  <1>2. ASSUME NEW body \in {"insertShare", "persist", "insertGroup"}, Begin(w, body),
               pc[w] = "begin"
        PROVE  Passes(w)
    <2>1. CASE Goto(w, body)
      BY <1>2, <2>1, FrameGoto, PassesConn DEF Ends
    <2>2. CASE UNCHANGED <<db, work, tx, hurt, lost>>
      BY <1>2, <2>2 DEF Begin, Passes, Ends, At, unit
    <2>. QED BY <1>2, <2>1, <2>2 DEF Begin
  <1>3. ASSUME NEW effect, Commit(w, effect) PROVE Passes(w)
    BY <1>3 DEF Commit, Passes, conn, Rollback
  <1>4. ASSUME NEW rows, NEW valid, Execute(w, rows, valid, "commit") PROVE Passes(w)
    <2>1. CASE Goto(w, "commit")
      BY <2>1, FrameGoto, PassesConn DEF Ends
    <2>. QED BY <1>4, <2>1, PassesConn DEF Execute
  <1>. QED BY <1>1, <1>2, <1>3, <1>4

\* signUp and the reads leave the transaction to others.
LEMMA TxUser ==
  ASSUME TypeOK, AckInv, TxInv, NEW w \in Workers, UserStep(w), UNCHANGED nextGroup
  PROVE  TxInv'
  <1>0. ConnInv /\ context' = context
    BY DEF AckInv, ConnInv, UserStep, LogIn, SaveUser, ListUsers, CurrentUser, Query, unit
  <1>1. pc[w] \in {"findByName", "saveUser", "query"} /\ ~Ends(w)
    BY DEF UserStep, LogIn, SaveUser, ListUsers, CurrentUser, Query, At, Ends
  <1>2. Passes(w)
    BY <1>0, <1>1, PassesConn DEF UserStep, LogIn, SaveUser, ListUsers, CurrentUser, Query
  <1>3. Of(work', "user_groups") \subseteq work
    BY DEF UserStep, LogIn, SaveUser, ListUsers, CurrentUser, Query, Fail, conn, Write, Of, User
  <1>4. (\E rows : Answer(w, rows)) \/ (\E l : l # "insertMembers" /\ Goto(w, l))
    BY DEF UserStep, LogIn, SaveUser, ListUsers, CurrentUser, Query, Refuse
  <1>. QED BY <1>2, <1>3, <1>4, TxQuiet

\* Shares and saves keep at it from begin to commit, unless something fails or
\* their entity was detached, and then the transaction is another's.
LEMMA TxFile ==
  ASSUME TypeOK, AckInv, TxInv, NEW w \in Workers, FileStep(w), UNCHANGED nextGroup
  PROVE  TxInv'
  <1>0. ConnInv
    BY DEF AckInv, ConnInv
  <1>1. Of(work', "user_groups") \subseteq work
    BY FileWork DEF Of
  <1>. DEFINE Leads == (\E rows : Answer(w, rows)) \/ (\E l : l # "insertMembers" /\ Goto(w, l))
  <1>2. CASE CheckCreator(w) \/ FindDownload(w)
    <2>1. ~Ends(w) /\ Leads
      BY <1>2 DEF CheckCreator, FindDownload, At, Ends, Refuse
    <2>. QED BY <1>0, <1>1, <1>2, <2>1, PassesConn, TxQuiet DEF CheckCreator, FindDownload, Find
  <1>3. CASE ShareIsActive(w) \/ SaveIsActive(w)
    <2>1. Leads
      BY <1>3 DEF ShareIsActive, SaveIsActive, IsActive
    <2>. QED BY <1>0, <1>1, <1>3, <2>1, PassesBracket, TxQuiet DEF ShareIsActive, SaveIsActive, At
  <1>4. CASE ShareBegin(w) \/ SaveBegin(w)
    <2>1. Leads
      BY <1>4 DEF ShareBegin, SaveBegin, Begin, Refuse
    <2>. QED BY <1>0, <1>1, <1>4, <2>1, PassesBracket, TxQuiet DEF ShareBegin, SaveBegin, At
  <1>5. CASE InsertShare(w) \/ ShareCommit(w) \/ SaveCommit(w)
    <2>1. Leads
      BY <1>5 DEF InsertShare, ShareCommit, SaveCommit, Execute, Commit, Refuse
    <2>. QED BY <1>0, <1>1, <1>5, <2>1, PassesBracket, TxQuiet
         DEF InsertShare, ShareCommit, SaveCommit
  <1>6. CASE StartBlob(w) \/ FinishBlob(w) \/ ReadBlob(w) \/ CheckAccess(w)
    <2>1. ~Ends(w) /\ Leads
      BY <1>6 DEF StartBlob, FinishBlob, ReadBlob, CheckAccess, At, Ends, Refuse
    <2>2. UNCHANGED <<conn, context>> \/ Fail
      BY <1>6 DEF StartBlob, FinishBlob, ReadBlob, CheckAccess, unit
    <2>. QED BY <1>0, <1>1, <2>1, <2>2, PassesConn, TxQuiet
  <1>7. CASE Persist(w)
    <2>1. Goto(w, "flush") /\ job[w].row \in context'
      BY <1>7 DEF Persist
    <2>2. Ends(w)'
      BY <2>1, FrameGoto DEF Ends
    <2>. QED BY <1>0, <1>1, <2>1, <2>2, PassesConn, TxQuiet
  <1>8. CASE Flush(w)
    <2>1. CASE Goto(w, "refresh") /\ Write(pending)
      <3>1. CASE job[w].row \in context
        <4>1. Ends(w)'
          BY <1>8, <2>1, <3>1, FrameGoto DEF Ends, Flush
        <4>. QED BY <1>0, <1>1, <2>1, <4>1, PassesConn, TxQuiet
      <3>2. CASE job[w].row \notin context
        <4>1. ~Ends(w) /\ context' = context
          BY <1>8, <3>2 DEF Ends, Flush, At
        <4>. QED BY <1>0, <1>1, <2>1, <4>1, PassesConn, TxQuiet
      <3>. QED BY <3>1, <3>2
    <2>2. CASE Refuse(w) /\ (Fail \/ (UNCHANGED conn /\ tx = "none"))
      BY <1>0, <1>1, <2>2, PassesConn, TxQuiet DEF Refuse
    <2>. QED BY <1>8, <2>1, <2>2 DEF Flush
  <1>9. CASE Refresh(w)
    <2>1. CASE job[w].row \notin context /\ Refuse(w) /\ UNCHANGED <<conn, context>>
      <3>1. ~Ends(w)
        BY <1>9, <2>1 DEF Ends, Refresh, At
      <3>. QED BY <1>0, <1>1, <2>1, <3>1, PassesConn, TxQuiet DEF Refuse
    <2>2. CASE Goto(w, "commit")
      <3>1. Ends(w)'
        BY <2>2, FrameGoto DEF Ends
      <3>. QED BY <1>0, <1>1, <2>2, <3>1, PassesConn, TxQuiet
    <2>3. CASE Refuse(w) /\ (Fail \/ Mark)
      BY <1>0, <1>1, <2>3, PassesConn, TxQuiet DEF Refuse
    <2>. QED BY <1>9, <2>1, <2>2, <2>3 DEF Refresh
  <1>10. CASE ListFiles(w)
    <2>1. ~Ends(w) /\ Leads
      BY <1>10 DEF ListFiles, At, Ends
    <2>2. Fail \/ \E rows : Write(rows) /\ context \subseteq context'
      BY <1>10 DEF ListFiles
    <2>. QED BY <1>0, <1>1, <2>1, <2>2, PassesConn, TxQuiet
  <1>. QED BY <1>2, <1>3, <1>4, <1>5, <1>6, <1>7, <1>8, <1>9, <1>10 DEF FileStep

\* createGroup commits if there are members; without, it leaves the group.
LEMMA TxGroup ==
  ASSUME TypeOK, AckInv, TxInv, NEW w \in Workers, GroupStep(w)
  PROVE  TxInv'
  <1>0. ConnInv
    BY DEF AckInv, ConnInv
  <1>. DEFINE Leads == (\E rows : Answer(w, rows)) \/ (\E l : l # "insertMembers" /\ Goto(w, l))
  <1>1. CASE GroupIsActive(w) \/ GroupBegin(w) \/ GroupCommit(w)
    <2>1. Leads /\ UNCHANGED nextGroup
      BY <1>1 DEF GroupIsActive, GroupBegin, GroupCommit, IsActive, Begin, Commit, Refuse
    <2>2. Of(work', "user_groups") \subseteq work
      BY <1>1, GroupWork DEF Of, GroupIsActive, GroupBegin, GroupCommit, At
    <2>. QED BY <1>0, <1>1, <2>1, <2>2, PassesBracket, TxQuiet
         DEF GroupIsActive, GroupBegin, GroupCommit, At
  <1>2. CASE ListGroups(w)
    <2>1. Leads /\ UNCHANGED <<nextGroup, work>> /\ ~Ends(w)
      BY <1>2 DEF ListGroups, Query, At, Ends, Fail, conn
    <2>2. Of(work', "user_groups") \subseteq work
      BY <2>1 DEF Of
    <2>. QED BY <1>0, <1>2, <2>1, <2>2, PassesConn, TxQuiet DEF ListGroups, Query, unit
  <1>3. CASE InsertGroup(w)
    <2>. DEFINE row == [job[w].row EXCEPT !.id = nextGroup]
    <2>0. /\ job[w] \in GroupJob /\ row.table = "groups" /\ row.id = nextGroup
          /\ nextGroup \in Nat /\ nextGroup' \in {nextGroup, nextGroup + 1}
      BY <1>3, JobType DEF InsertGroup, At, TypeOK, StoreOK, GroupJob, GroupRow
    <2>1. \A n \in Nat : n < nextGroup => n < nextGroup'
      BY <2>0
    <2>2. Of(work', "user_groups") \subseteq work
      BY <1>3, GroupWork DEF Of, InsertGroup, At
    <2>3. CASE Fail /\ Refuse(w)
      <3>1. /\ \A v \in Workers : v # w => pc'[v] = pc[v] /\ job'[v] = job[v]
            /\ pc'[w] = "idle"
        BY <2>3, FrameAnswer DEF Refuse
      <3>. QED BY <1>0, <2>1, <2>2, <2>3, <3>1, PassesConn, TxStep DEF At
    <2>4. CASE /\ tx # "aborted" /\ Accepts(work, row) /\ Write({row})
               /\ job' = [job EXCEPT ![w].row = row]
               /\ pc' = [pc EXCEPT ![w] = "insertMembers"]
      <3>1. /\ \A v \in Workers : v # w => pc'[v] = pc[v] /\ job'[v] = job[v]
            /\ pc'[w] = "insertMembers" /\ job'[w] = [job[w] EXCEPT !.row = row]
        BY <2>4 DEF TypeOK, ProcOK
      <3>2. job'[w].row = row /\ job'[w].members = job[w].members /\ job'[w].op = "group"
        BY <2>0, <3>1 DEF GroupJob
      <3>3. nextGroup' = nextGroup + 1 /\ row.id < nextGroup'
        BY <1>3, <2>0, <2>4 DEF InsertGroup
      <3>4. Passes(w)
        <4>1. CASE job[w].members # <<>>
          <5>1. Ends(w)'
            BY <3>1, <3>2, <4>1 DEF Ends, At
          <5>. QED BY <1>0, <5>1, PassesConn
        <4>2. CASE tx # "open"
          BY <1>0, <2>4, <4>2, PassesConn
        <4>3. CASE tx = "open"
          <5>1. row \in Of(work', "groups") /\ row \notin db'
            BY <1>0, <2>0, <2>4, <4>3 DEF Write, Of, Accepts, ConnInv
          <5>2. \A m \in Of(work', "user_groups") : m.group # row.id
            <6>1. \A m \in Of(work', "user_groups") :
                     m \in Of(work, "user_groups") /\ m.group \in Nat /\ m.group < nextGroup
              BY <2>2, GroupIds DEF TxInv, Of
            <6>. QED BY <2>0, <6>1
          <5>. QED BY <5>1, <5>2 DEF Memberless, Passes
        <4>. QED BY <4>2, <4>3
      <3>. QED BY <2>1, <2>2, <3>1, <3>2, <3>3, <3>4, TxStep
    <2>. QED BY <1>3, <2>3, <2>4 DEF InsertGroup
  <1>4. CASE InsertMembers(w)
    <2>0. /\ At(w, "insertMembers", "group") /\ UNCHANGED nextGroup
          /\ job[w].row.id \in Nat /\ job[w].row.id < nextGroup
      BY <1>4, GroupIds DEF InsertMembers, At, TxInv
    <2>1. CASE Refuse(w) /\ (Fail \/ UNCHANGED conn)
      <3>1. Of(work', "user_groups") \subseteq work
        BY <2>1 DEF Of, Fail, conn
      <3>2. Passes(w)
        <4>1. CASE Fail
          BY <1>0, <4>1, PassesConn
        <4>2. CASE UNCHANGED conn /\ tx = "none"
          BY <1>0, <4>2, PassesConn
        <4>3. CASE UNCHANGED conn /\ job[w].members = <<>>
          <5>1. ~Ends(w) /\ UNCHANGED context
            BY <1>4, <2>0, <4>3 DEF Ends, At, InsertMembers, unit
          <5>. QED BY <1>0, <4>3, <5>1, PassesConn
        <4>. QED BY <1>4, <2>1, <4>1, <4>2, <4>3, FrameGoto, FrameAnswer
             DEF InsertMembers, Execute, Refuse
      <3>. QED BY <2>0, <2>1, <3>1, <3>2, TxQuiet DEF Refuse
    <2>2. CASE Write(Members(job[w])) /\ Goto(w, "commit")
      <3>1. Ends(w)' /\ pc'[w] = "commit"
        BY <2>2, FrameGoto DEF Ends
      <3>2. \A m \in Of(work', "user_groups") :
               m \in work \/ (m.group \in Nat /\ m.group < nextGroup /\ Ends(w)')
        BY <2>0, <2>2, <3>1 DEF Write, Of, Members, UserGroup
      <3>3. \A v \in Workers : v # w => pc'[v] = pc[v] /\ job'[v] = job[v]
        BY <2>2, FrameGoto
      <3>. QED BY <1>0, <2>0, <3>1, <3>2, <3>3, PassesConn, TxStep DEF At
    <2>. QED BY <1>4, <2>1, <2>2 DEF InsertMembers, Execute
  <1>. QED BY <1>1, <1>2, <1>3, <1>4 DEF GroupStep

\* A request joins whatever transaction there is; a crash leaves none.
LEMMA TxOther ==
  ASSUME TypeOK, AckInv, TxInv, Crash \/ UNCHANGED vars \/ \E w \in Workers : Request(w)
  PROVE  TxInv'
  <1>1. CASE Crash
    BY <1>1 DEF Crash, TxInv, AckInv, At, Of
  <1>2. CASE UNCHANGED vars
    BY <1>2 DEF vars, conn, unit, TxInv, Memberless, Ends, At
  <1>3. ASSUME NEW w \in Workers, Request(w) PROVE TxInv'
    <2>1. PICK op, j, label : Accept(w, op, j, label) /\ label \in FirstLabels
      BY <1>3, RequestAccepts
    <2>2. /\ \A v \in Workers : v # w => pc'[v] = pc[v] /\ job'[v] = job[v]
          /\ pc'[w] # "insertMembers" /\ ~Ends(w) /\ UNCHANGED <<conn, unit, nextGroup>>
      BY <2>1 DEF Accept, FirstLabels, TypeOK, ProcOK, Ends, At
    <2>3. Passes(w) /\ Of(work', "user_groups") \subseteq work
      BY <2>2 DEF Passes, conn, unit, Of
    <2>. QED BY <2>2, <2>3, TxStep DEF At
  <1>. QED BY <1>1, <1>2, <1>3

\* The inductive invariant of the bracket: an open transaction nothing failed
\* in is somebody's to end, or holds a group without members.
THEOREM TxInvariant == Spec => []TxInv
  <1>1. Init => TxInv
    <2>1. Init => Of(work, "user_groups") = {}
      BY JavkaAssumption DEF Init, Of, User, FileRow
    <2>. QED BY <2>1 DEF Init, TxInv, At
  <1>2. TypeOK /\ AckInv /\ TxInv /\ [Next]_vars => TxInv'
    BY TxUser, TxFile, TxGroup, TxOther DEF Next, Handle
  <1>. QED BY <1>1, <1>2, TypeCorrect, AckInvariant, PTL DEF Spec

\* When no handler runs, an open transaction is a failed one, or the one a
\* group without members was left in.
THEOREM NothingElseAbandons == Spec => []AbandonedTransaction
  <1>1. TypeOK /\ HurtInv /\ TxInv => AbandonedTransaction
    BY DEF TypeOK, ConnOK, HurtInv, TxInv, AbandonedTransaction, Quiet, Ends, At
  <1>. QED BY <1>1, TypeCorrect, HurtInvariant, TxInvariant, PTL
=============================================================================
