----------------------------- MODULE Service_proofs -----------------------------
(***************************************************************************)
(* The server implements the stores it is meant to be: SharedStore with    *)
(* any number of workers, SharingService with one.                         *)
(***************************************************************************)
EXTENDS Access_proofs

----------------------------------------------------------------------------
\* Lawful tables stay lawful: what INSERTs have to show.

\* Rows that each meet the constraints may be inserted together when they do not
\* clash with each other, and their ids and user names with none there.
LEMMA LawfulGrows ==
  ASSUME NEW t, NEW rows, Lawful(t),
         \A r \in rows : Accepts(t, r),
         \A r, s \in rows : r.table = "files" /\ s.table = "files" /\ r.id = s.id => r = s,
         \A r, s \in t \cup rows :
             r.table = s.table /\ r.table \in {"users", "groups"} /\ r.id = s.id => r = s,
         \A r, s \in t \cup rows :
             r.table = "users" /\ s.table = "users" /\ r.name = s.name => r = s
  PROVE  Lawful(t \cup rows)
  <1>. DEFINE all == t \cup rows
  <1>1. ASSUME NEW r \in t PROVE Accepts(all \ {r}, r)
    <2>1. Accepts(t \ {r}, r) /\ t \ {r} \subseteq all \ {r}
      BY DEF Lawful
    <2>2. r.table = "files" => ~HasFile(rows, r.id)
      BY DEF Accepts, HasFile
    <2>3. r.table = "files" => ~HasFile(all \ {r}, r.id)
      BY <2>1, <2>2 DEF Accepts, HasFile
    <2>. QED BY <2>1, <2>3 DEF Accepts, HasUser, HasFile, HasGroup
  <1>2. ASSUME NEW r \in rows PROVE Accepts(all \ {r}, r)
    <2>1. Accepts(t, r) /\ t \subseteq all \ {r}
      BY DEF Accepts
    <2>2. r.table = "files" => ~HasFile(rows \ {r}, r.id)
      BY DEF HasFile
    <2>3. r.table = "files" => ~HasFile(all \ {r}, r.id)
      BY <2>1, <2>2 DEF Accepts, HasFile
    <2>. QED BY <2>1, <2>3 DEF Accepts, HasUser, HasFile, HasGroup
  <1>. QED BY <1>1, <1>2 DEF Lawful

\* So the queue of files may be written when each of its files may: their ids
\* were drawn once.
LEMMA LawfulPending ==
  ASSUME TypeOK, AccessInv, Lawful(work), \A r \in pending : Accepts(work, r)
  PROVE  Lawful(work \cup pending)
  <1>1. \A r \in pending : r.table = "files" /\ r \in Drawn
    BY DEF TypeOK, UnitOK, FileRow, Drawn
  <1>2. \A r, s \in pending : r.id = s.id => r = s
    BY <1>1 DEF AccessInv
  <1>. QED BY <1>1, <1>2, LawfulGrows DEF Lawful

\* Rows of the three tables of pairs clash with nothing they do not equal.
LEMMA LawfulPairs ==
  ASSUME NEW rows, Lawful(work), \A r \in rows : Accepts(work, r),
         \A r \in rows : r.table \in {"user_files", "group_files", "user_groups"}
  PROVE  Lawful(work \cup rows)
  BY LawfulGrows DEF Lawful

\* A group's id is ahead of all others,
LEMMA LawfulGroup ==
  ASSUME TypeOK, StoreInv, NEW row, row.table = "groups", row.id = nextGroup, Accepts(work, row)
  PROVE  Lawful(work \cup {row})
  <1>1. \A g \in Of(work, "groups") : g.id \in Nat /\ g.id # nextGroup
    <2>1. \A g \in Of(work, "groups") : g.id \in Nat
      BY DEF TypeOK, ConnOK, Of, Row, UserRow, FileRow, GroupRow, UserGroupRow, ShareRow,
             UserFileRow, GroupFileRow
    <2>. QED BY <2>1 DEF StoreInv, TypeOK, StoreOK
  <1>2. \A r, s \in work \cup {row} :
           r.table = s.table /\ r.table \in {"users", "groups"} /\ r.id = s.id => r = s
    BY <1>1 DEF StoreInv, Lawful, Of
  <1>3. \A r, s \in work \cup {row} :
           r.table = "users" /\ s.table = "users" /\ r.name = s.name => r = s
    BY DEF StoreInv, Lawful
  <1>. QED BY <1>2, <1>3, LawfulGrows DEF StoreInv

\* and so is a user's, whose name findByName has just not found.
LEMMA LawfulUser ==
  ASSUME TypeOK, TokenInv, Lawful(work), NEW j, FindByName(j.name) = {}
  PROVE  Lawful(work \cup {User(nextUser, j)})
  <1>. DEFINE new == User(nextUser, j)
  <1>1. new.table = "users" /\ new.id = nextUser /\ new.name = j.name
    BY DEF User
  <1>2. \A r \in work : r.table = "users" => r.id # nextUser /\ r.name # j.name
    <2>1. \A r \in Of(work, "users") : r.id \in Nat
      BY DEF TypeOK, ConnOK, Of, Row, UserRow, FileRow, GroupRow, UserGroupRow, ShareRow,
             UserFileRow, GroupFileRow
    <2>. QED BY <2>1 DEF TokenInv, TypeOK, StoreOK, FindByName, Of
  <1>3. Accepts(work, new)
    BY <1>1, <1>2 DEF Accepts
  <1>. HIDE DEF new
  <1>4. \A r, s \in work \cup {new} :
           r.table = s.table /\ r.table \in {"users", "groups"} /\ r.id = s.id => r = s
    BY <1>1, <1>2 DEF Lawful
  <1>5. \A r, s \in work \cup {new} :
           r.table = "users" /\ s.table = "users" /\ r.name = s.name => r = s
    BY <1>1, <1>2 DEF Lawful
  <1>6. Lawful(work \cup {new})
    BY <1>1, <1>3, <1>4, <1>5, LawfulGrows
  <1>. QED BY <1>6 DEF new

----------------------------------------------------------------------------
\* What a step does to the store: it adds rows, which may stay open, or throws
\* the open ones away.

Adds(rows) == work' = work \cup rows /\ db' \in {db, work'} /\ lost' = lost

Undone == work' = db /\ db' = db /\ lost' = lost \cup (work \ db)

\* The operations on the connection,
LEMMA StoreConn ==
  /\ UNCHANGED conn \/ Fail \/ Mark => Adds({})
  /\ Rollback => Undone
  /\ \A rows : Write(rows) => Adds(rows)
  /\ \A w, body : IsActive(w, body) \/ Begin(w, body) => Adds({})
  /\ \A w, effect : Commit(w, effect) =>
        \/ Undone \/ Adds({})
        \/ Adds(pending) /\ \A r \in pending : Accepts(work, r)
  /\ \A w, rows, valid, next : Execute(w, rows, valid, next) =>
        Adds({}) \/ (valid /\ Adds(rows))
  <1>1. UNCHANGED conn \/ Fail \/ Mark => Adds({})
    BY DEF conn, Fail, Mark, Adds
  <1>2. Rollback => Undone
    BY DEF Rollback, Undone
  <1>3. \A rows : Write(rows) => Adds(rows)
    BY DEF Write, Adds
  <1>4. \A w, body : IsActive(w, body) \/ Begin(w, body) => Adds({})
    BY <1>1 DEF IsActive, Begin, Adds
  <1>5. ASSUME NEW w, NEW effect, Commit(w, effect)
        PROVE  \/ Undone \/ Adds({})
               \/ Adds(pending) /\ \A r \in pending : Accepts(work, r)
    BY <1>1, <1>2, <1>5 DEF Commit, Adds, Flushable
  <1>6. \A w, rows, valid, next : Execute(w, rows, valid, next) =>
           Adds({}) \/ (valid /\ Adds(rows))
    BY <1>1, <1>3 DEF Execute
  <1>. QED BY <1>1, <1>2, <1>3, <1>4, <1>5, <1>6

\* and the handlers: only createGroup adds groups and members, a group under a
\* new id, and members to the group it has just inserted.
StoreStep(w) ==
    \/ Undone
    \/ \E rows :
          /\ Adds(rows) /\ Lawful(work \cup rows)
          /\ \/ \A r \in rows : r.table \notin {"groups", "user_groups"}
             \/ /\ nextGroup' = nextGroup + 1
                /\ \A r \in rows : r.table = "groups" /\ r.id = nextGroup
             \/ rows = Members(job[w]) /\ Naming(w)

\* Adding nothing is such a step,
LEMMA AddsNothing ==
  ASSUME StoreInv, NEW w, Adds({})
  PROVE  StoreStep(w)
  <1>. DEFINE none == {}
  <1>1. work \cup none = work /\ Lawful(work)
    BY DEF StoreInv
  <1>2. Adds(none) /\ Lawful(work \cup none)
    BY <1>1
  <1>3. \A r \in none : r.table \notin {"groups", "user_groups"}
    OBVIOUS
  <1>. HIDE DEF none
  <1>. QED BY <1>2, <1>3 DEF StoreStep

\* and so is writing the queue,
LEMMA AddsPending ==
  ASSUME TypeOK, AccessInv, StoreInv, NEW w, Adds(pending), \A r \in pending : Accepts(work, r)
  PROVE  StoreStep(w)
  <1>1. Lawful(work \cup pending) /\ \A r \in pending : r.table \notin {"groups", "user_groups"}
    BY LawfulPending DEF StoreInv, TypeOK, UnitOK, FileRow
  <1>. QED BY <1>1, Zenon DEF StoreStep

\* whoever commits,
LEMMA CommitStores ==
  ASSUME TypeOK, AccessInv, StoreInv, NEW w, NEW effect, Commit(w, effect)
  PROVE  StoreStep(w)
  <1>1. Undone => StoreStep(w)
    BY DEF StoreStep
  <1>. QED BY <1>1, StoreConn, AddsNothing, AddsPending

\* each step of signUp,
LEMMA UserStores ==
  ASSUME TypeOK, TokenInv, StoreInv, NEW w \in Workers, UserStep(w)
  PROVE  StoreStep(w)
  <1>1. Adds({}) \/ \E j : FindByName(j.name) = {} /\ Adds({User(nextUser, j)})
    BY StoreConn, Zenon DEF UserStep, LogIn, SaveUser, ListUsers, CurrentUser, Query
  <1>2. ASSUME NEW j, FindByName(j.name) = {}, Adds({User(nextUser, j)})
        PROVE  StoreStep(w)
    <2>1. Lawful(work \cup {User(nextUser, j)})
      BY <1>2, LawfulUser DEF StoreInv
    <2>2. \A r \in {User(nextUser, j)} : r.table \notin {"groups", "user_groups"}
      BY DEF User
    <2>. QED BY <1>2, <2>1, <2>2, Zenon DEF StoreStep
  <1>. QED BY <1>1, <1>2, AddsNothing

\* of uploads, shares, downloads and listings,
LEMMA FileStores ==
  ASSUME TypeOK, AccessInv, StoreInv, NEW w \in Workers, FileStep(w)
  PROVE  StoreStep(w)
  <1>1. CASE CheckCreator(w) \/ FindDownload(w)
    BY <1>1, StoreConn, AddsNothing DEF CheckCreator, FindDownload, Find
  <1>2. CASE ShareIsActive(w) \/ ShareBegin(w) \/ SaveIsActive(w) \/ SaveBegin(w)
    BY <1>2, StoreConn, AddsNothing DEF ShareIsActive, ShareBegin, SaveIsActive, SaveBegin
  <1>3. CASE InsertShare(w)
    <2>1. CASE Adds({job[w].row}) /\ Accepts(work, job[w].row)
      <3>. DEFINE rows == {job[w].row}
      <3>1. \A r \in {job[w].row} : r.table \in {"user_files", "group_files"}
        BY <1>3, JobType DEF InsertShare, At, TypeOK, ShareJob, ShareRow, UserFileRow, GroupFileRow
      <3>2. Lawful(work \cup {job[w].row})
        BY <2>1, <3>1, LawfulPairs DEF StoreInv
      <3>3. Adds(rows) /\ Lawful(work \cup rows) /\ \A r \in rows : r.table \notin {"groups", "user_groups"}
        BY <2>1, <3>1, <3>2
      <3>. HIDE DEF rows
      <3>. QED BY <3>3 DEF StoreStep
    <2>. QED BY <1>3, <2>1, StoreConn, AddsNothing DEF InsertShare
  <1>4. CASE ShareCommit(w) \/ SaveCommit(w)
    BY <1>4, CommitStores DEF ShareCommit, SaveCommit
  <1>5. CASE StartBlob(w) \/ FinishBlob(w) \/ Persist(w) \/ ReadBlob(w)
    BY <1>5, StoreConn, AddsNothing DEF StartBlob, FinishBlob, Persist, ReadBlob
  <1>6. CASE Refresh(w) \/ CheckAccess(w)
    BY <1>6, StoreConn, AddsNothing DEF Refresh, CheckAccess
  <1>7. CASE Flush(w) \/ ListFiles(w)
    <2>1. Adds({}) \/ (Adds(pending) /\ \A r \in pending : Accepts(work, r))
      BY <1>7, StoreConn DEF Flush, ListFiles, Flushable
    <2>. QED BY <2>1, AddsNothing, AddsPending
  <1>. QED BY <1>1, <1>2, <1>3, <1>4, <1>5, <1>6, <1>7 DEF FileStep

\* and of createGroup.
LEMMA GroupStores ==
  ASSUME TypeOK, AccessInv, StoreInv, NEW w \in Workers, GroupStep(w)
  PROVE  StoreStep(w)
  <1>1. CASE GroupIsActive(w) \/ GroupBegin(w) \/ ListGroups(w)
    BY <1>1, StoreConn, AddsNothing DEF GroupIsActive, GroupBegin, ListGroups, Query
  <1>2. CASE InsertGroup(w)
    <2>. DEFINE row == [job[w].row EXCEPT !.id = nextGroup]
    <2>1. row.table = "groups" /\ row.id = nextGroup
      BY <1>2, JobType DEF InsertGroup, At, TypeOK, GroupJob, GroupRow
    <2>2. CASE tx # "aborted" /\ Accepts(work, row) /\ Write({row})
      <3>1. Adds({row}) /\ Lawful(work \cup {row}) /\ nextGroup' = nextGroup + 1
        BY <1>2, <2>1, <2>2, StoreConn, LawfulGroup DEF InsertGroup
      <3>. HIDE DEF row
      <3>. QED BY <2>1, <3>1 DEF StoreStep
    <2>. QED BY <1>2, <2>2, StoreConn, AddsNothing DEF InsertGroup
  <1>3. CASE InsertMembers(w)
    <2>1. CASE Adds(Members(job[w])) /\ \A row \in Members(job[w]) : Accepts(work, row)
      <3>1. \A r \in Members(job[w]) : r.table = "user_groups"
        BY DEF Members, UserGroup
      <3>2. Lawful(work \cup Members(job[w]))
        BY <2>1, <3>1, LawfulPairs DEF StoreInv
      <3>3. Naming(w)
        BY <1>3 DEF InsertMembers, Naming
      <3>. QED BY <2>1, <3>2, <3>3 DEF StoreStep
    <2>2. ASSUME NEW valid, Execute(w, Members(job[w]), valid, "commit"),
                 valid => \A row \in Members(job[w]) : Accepts(work, row)
          PROVE  StoreStep(w)
      BY <2>1, <2>2, StoreConn, AddsNothing
    <2>. QED BY <1>3, <2>2, StoreConn, AddsNothing DEF InsertMembers
  <1>4. CASE GroupCommit(w)
    BY <1>4, CommitStores DEF GroupCommit
  <1>. QED BY <1>1, <1>2, <1>3, <1>4 DEF GroupStep

----------------------------------------------------------------------------
\* Group ids are drawn by one worker each, which enters the members.

\* A handler comes to naming members by drawing the group's id, in a step that
\* enters none; and it keeps the member list it was sent.
LEMMA GroupFrame ==
  ASSUME TypeOK, AckInv, NEW w \in Workers, Handler(w), GroupStep(w) \/ UNCHANGED nextGroup
  PROVE  /\ nextGroup' \in {nextGroup, nextGroup + 1}
         /\ job'[w].op = "group" => job[w].op = "group" /\ job'[w].members = job[w].members
         /\ Naming(w)' => /\ nextGroup' = nextGroup + 1 /\ job'[w].row.id = nextGroup
                          /\ ~Naming(w) /\ GroupStep(w)
  <1>. DEFINE Fine == /\ job'[w].op = "group" => job[w].op = "group" /\ job'[w].members = job[w].members
                      /\ ~Naming(w)'
  <1>1. ASSUME (\E l : Goto(w, l) /\ l # "insertMembers") \/ (\E rows : Answer(w, rows))
        PROVE  Fine
    BY <1>1, FrameGoto, FrameAnswer DEF NoJob, Naming, At
  <1>0. /\ \A body : IsActive(w, body) /\ body # "insertMembers" => Fine
        /\ \A body : Begin(w, body) /\ body # "insertMembers" => Fine
        /\ \A effect : Commit(w, effect) => Fine
    <2>1. \A body : IsActive(w, body) /\ body # "insertMembers" => Fine
      BY <1>1 DEF IsActive
    <2>2. Refuse(w) => Fine
      BY <1>1 DEF Refuse
    <2>3. \A body : Begin(w, body) /\ body # "insertMembers" => Fine
      BY <1>1, <2>2 DEF Begin
    <2>4. \A effect : Commit(w, effect) => Fine
      BY <1>1, <2>2 DEF Commit
    <2>. QED BY <2>1, <2>3, <2>4
  <1>2. CASE UserStep(w) /\ UNCHANGED nextGroup
    <2>1. Fine
      BY <1>1, <1>2 DEF UserStep, LogIn, SaveUser, ListUsers, CurrentUser, Query, Refuse
    <2>. QED BY <1>2, <2>1
  <1>3. CASE FileStep(w) /\ UNCHANGED nextGroup
    <2>1. CASE CheckCreator(w) \/ FindDownload(w) \/ StartBlob(w) \/ FinishBlob(w) \/ Persist(w)
               \/ Flush(w) \/ Refresh(w) \/ CheckAccess(w) \/ ReadBlob(w) \/ ListFiles(w)
      <3>1. Fine
        BY <1>1, <2>1
        DEF CheckCreator, FindDownload, StartBlob, FinishBlob, Persist, Flush, Refresh,
            CheckAccess, ReadBlob, ListFiles, Refuse
      <3>. QED BY <1>3, <3>1
    <2>2. CASE ShareIsActive(w) \/ SaveIsActive(w) \/ ShareBegin(w) \/ SaveBegin(w)
      <3>1. Fine
        BY <1>0, <2>2 DEF ShareIsActive, SaveIsActive, ShareBegin, SaveBegin
      <3>. QED BY <1>3, <3>1
    <2>3. CASE InsertShare(w) \/ ShareCommit(w) \/ SaveCommit(w)
      <3>1. Fine
        BY <1>0, <1>1, <2>3 DEF InsertShare, ShareCommit, SaveCommit, Execute, Refuse
      <3>. QED BY <1>3, <3>1
    <2>. QED BY <1>3, <2>1, <2>2, <2>3 DEF FileStep
  <1>4. CASE GroupStep(w)
    <2>1. CASE GroupIsActive(w) \/ GroupBegin(w) \/ GroupCommit(w) \/ ListGroups(w) \/ InsertMembers(w)
      <3>1. Fine
        BY <1>0, <1>1, <2>1
        DEF GroupIsActive, GroupBegin, GroupCommit, ListGroups, InsertMembers, Execute, Query,
            Refuse
      <3>. QED BY <2>1, <3>1 DEF GroupIsActive, GroupBegin, GroupCommit, ListGroups, InsertMembers
    <2>2. CASE InsertGroup(w)
      <3>1. job[w] \in GroupJob /\ ~Naming(w)
        BY <2>2, JobType DEF InsertGroup, At, TypeOK, Naming
      <3>2. CASE Refuse(w)
        <4>1. Fine
          BY <1>1, <3>2 DEF Refuse
        <4>. QED BY <2>2, <4>1 DEF InsertGroup
      <3>3. CASE /\ tx # "aborted"
                 /\ job' = [job EXCEPT ![w].row = [job[w].row EXCEPT !.id = nextGroup]]
        <4>1. /\ job'[w] = [job[w] EXCEPT !.row = [job[w].row EXCEPT !.id = nextGroup]]
              /\ nextGroup' = nextGroup + 1
          BY <2>2, <3>3 DEF TypeOK, ProcOK, InsertGroup
        <4>. QED BY <1>4, <3>1, <4>1 DEF GroupJob, GroupRow
      <3>. QED BY <2>2, <3>2, <3>3 DEF InsertGroup
    <2>. QED BY <1>4, <2>1, <2>2 DEF GroupStep
  <1>. QED BY <1>2, <1>3, <1>4 DEF Handler

\* A group's members change only by being entered for it or thrown away.
LEMMA MembersChange ==
  ASSUME NEW w \in Workers, StoreStep(w), NEW g
  PROVE  /\ \/ Memberships(work', g) = Memberships(work, g)
            \/ Memberships(work', g) = Memberships(db, g) /\ db' = db
            \/ /\ Naming(w) /\ g = job[w].row.id
               /\ Memberships(work', g) = Memberships(work, g) \cup Members(job[w])
         /\ Memberships(db', g) \in {Memberships(db, g), Memberships(work', g)}
  <1>1. CASE Undone
    BY <1>1 DEF Undone
  <1>2. ASSUME NEW rows, Adds(rows), \A r \in rows : r.table # "user_groups"
        PROVE  Memberships(work', g) = Memberships(work, g)
    BY <1>2 DEF Adds, Memberships
  <1>3. ASSUME Adds(Members(job[w])), Naming(w)
        PROVE  \/ Memberships(work', g) = Memberships(work, g)
               \/ /\ g = job[w].row.id
                  /\ Memberships(work', g) = Memberships(work, g) \cup Members(job[w])
    <2>1. \A r \in Members(job[w]) : r.table = "user_groups" /\ r.group = job[w].row.id
      BY DEF Members, UserGroup
    <2>. QED BY <1>3, <2>1 DEF Adds, Memberships
  <1>4. Undone \/ \E rows : Adds(rows)
    BY DEF StoreStep
  <1>5. Memberships(db', g) \in {Memberships(db, g), Memberships(work', g)}
    BY <1>4 DEF Undone, Adds
  <1>. QED BY <1>1, <1>2, <1>3, <1>5 DEF StoreStep

\* Groups come one at a time, under a new id; both tables stay lawful.
LEMMA GroupsChange ==
  ASSUME StoreInv, AckInv, NEW w \in Workers, StoreStep(w)
  PROVE  /\ Lawful(work') /\ Lawful(db')
         /\ \A g \in Of(work', "groups") :
               g \in Of(work, "groups") \/ (g.id = nextGroup /\ nextGroup' = nextGroup + 1)
  <1>1. CASE Undone
    BY <1>1 DEF Undone, StoreInv, AckInv, Of
  <1>2. ASSUME NEW rows, Adds(rows), Lawful(work \cup rows)
        PROVE  Lawful(work') /\ Lawful(db')
    BY <1>2 DEF Adds, StoreInv
  <1>3. ASSUME NEW rows, Adds(rows),
               \/ \A r \in rows : r.table \notin {"groups", "user_groups"}
               \/ /\ nextGroup' = nextGroup + 1
                  /\ \A r \in rows : r.table = "groups" /\ r.id = nextGroup
               \/ rows = Members(job[w]) /\ Naming(w)
        PROVE  \A g \in Of(work', "groups") :
                  g \in Of(work, "groups") \/ (g.id = nextGroup /\ nextGroup' = nextGroup + 1)
    BY <1>3 DEF Adds, Of, Members, UserGroup
  <1>. QED BY <1>1, <1>2, <1>3 DEF StoreStep

\* A new id has no members anywhere.
LEMMA NewGroup ==
  ASSUME TypeOK, AckInv, TxInv
  PROVE  Memberships(work, nextGroup) = {} /\ Memberships(db, nextGroup) = {}
  <1>1. \A m \in Of(work, "user_groups") : m.group # nextGroup
    BY GroupIds DEF TxInv
  <1>. QED BY <1>1 DEF Memberships, Of, AckInv

\* Every step of a handler keeps StoreInv.
LEMMA StoreHandler ==
  ASSUME TypeOK, AckInv, TxInv, StoreInv, NEW w \in Workers, Handler(w), StoreStep(w),
         GroupStep(w) \/ UNCHANGED nextGroup
  PROVE  StoreInv'
  <1>1. Lawful(work') /\ Lawful(db')
    BY GroupsChange
  <1>2. ASSUME NEW v \in Workers, v # w
        PROVE  pc'[v] = pc[v] /\ job'[v] = job[v]
    BY <1>2, HandlerFrame
  <1>3. ASSUME NEW v \in Workers, job'[v].op = "group" PROVE job'[v].members \in MemberLists
    BY <1>2, <1>3, GroupFrame DEF StoreInv
  <1>4. nextGroup \in Nat /\ nextGroup' \in {nextGroup, nextGroup + 1}
    BY GroupFrame DEF TypeOK, StoreOK
  <1>5. Naming(w) => Members(job[w]) \in Lists(MemberLists, job[w].row.id)
    BY DEF StoreInv, Naming, At, Lists, Members
  <1>6. ASSUME NEW g, Together(g) PROVE Together(g)'
    <2>0. Naming(w) /\ g = job[w].row.id => Memberships(work, g) = {}
      BY DEF StoreInv
    <2>1. Memberships(work', g) \in {{}} \cup Lists(MemberLists, g)
      BY <1>5, <1>6, <2>0, MembersChange DEF Together
    <2>2. Memberships(db', g) \in {{}, Memberships(work', g)}
      BY <1>6, <2>0, MembersChange DEF Together
    <2>. QED BY <2>1, <2>2 DEF Together
  <1>7. Together(nextGroup)
    BY NewGroup DEF Together
  <1>8. ASSUME NEW g \in Of(work', "groups") PROVE g.id < nextGroup' /\ Together(g.id)'
    <2>1. CASE g \in Of(work, "groups")
      <3>1. g.id \in Nat /\ g.id < nextGroup
        <4>1. g.id \in Nat
          BY <2>1 DEF TypeOK, ConnOK, Of, Row, UserRow, FileRow, GroupRow, UserGroupRow,
                      ShareRow, UserFileRow, GroupFileRow
        <4>. QED BY <2>1, <4>1 DEF StoreInv
      <3>. QED BY <1>4, <1>6, <2>1, <3>1 DEF StoreInv
    <2>2. CASE g.id = nextGroup /\ nextGroup' = nextGroup + 1
      <3>1. \A n : n = nextGroup => Together(n)'
        BY <1>6, <1>7
      <3>. QED BY <1>4, <2>2, <3>1
    <2>. QED BY <2>1, <2>2, GroupsChange
  <1>9. ASSUME NEW v \in Workers, Naming(v)'
        PROVE  /\ Memberships(work', job'[v].row.id) = {}
               /\ \A u \in Workers : u # v /\ Naming(u)' => job'[u].row.id # job'[v].row.id
    <2>1. \A u \in Workers : u # w /\ Naming(u)' =>
             /\ Naming(u) /\ job'[u].row.id = job[u].row.id
             /\ job[u].row.id \in Nat /\ job[u].row.id < nextGroup
      BY <1>2, GroupIds DEF Naming, At, TxInv
    <2>2. CASE v = w
      <3>1. job'[w].row.id = nextGroup /\ ~Naming(w)
        BY <1>9, <2>2, GroupFrame
      <3>2. Memberships(work', nextGroup) = {}
        BY <3>1, NewGroup, MembersChange
      <3>. QED BY <1>4, <2>1, <2>2, <3>1, <3>2
    <2>3. CASE v # w
      <3>1. Naming(v) /\ job'[v].row.id = job[v].row.id /\ Memberships(work, job[v].row.id) = {}
        BY <1>9, <2>1, <2>3 DEF StoreInv
      <3>2. Memberships(db, job[v].row.id) = {}
        BY <3>1 DEF Memberships, AckInv
      <3>3. Naming(w) => job[w].row.id # job[v].row.id
        BY <2>3, <3>1 DEF StoreInv
      <3>4. Memberships(work', job[v].row.id) = {}
        BY <3>1, <3>2, <3>3, MembersChange
      <3>5. ASSUME NEW u \in Workers, u # v, Naming(u)' PROVE job'[u].row.id # job'[v].row.id
        <4>1. CASE u = w
          <5>1. job'[u].row.id = nextGroup
            BY <3>5, <4>1, GroupFrame
          <5>. QED BY <1>4, <1>9, <2>1, <2>3, <5>1
        <4>2. CASE u # w
          BY <2>1, <3>1, <3>5, <4>2 DEF StoreInv
        <4>. QED BY <4>1, <4>2
      <3>. QED BY <3>1, <3>4, <3>5
    <2>. QED BY <2>2, <2>3
  <1>. QED BY <1>1, <1>3, <1>8, <1>9 DEF StoreInv

\* A request brings one of the member lists; a crash leaves what is durable.
LEMMA StoreOther ==
  ASSUME TypeOK, AckInv, StoreInv, Crash \/ UNCHANGED vars \/ \E w \in Workers : Request(w)
  PROVE  StoreInv'
  <1>1. CASE Crash
    <2>1. UNCHANGED <<db, nextGroup>> /\ work' = db
          /\ \A w \in Workers : pc'[w] = "idle" /\ job'[w].op = "none"
      BY <1>1 DEF Crash, NoJob
    <2>2. \A g : Together(g) => Together(g)'
      BY <2>1 DEF Together
    <2>3. \A g \in Of(work', "groups") : g \in Of(work, "groups")
      BY <2>1 DEF Of, AckInv
    <2>. QED BY <2>1, <2>2, <2>3 DEF StoreInv, Naming, At
  <1>2. CASE UNCHANGED vars
    BY <1>2 DEF vars, conn, StoreInv, Naming, At, Together
  <1>3. ASSUME NEW w \in Workers, Request(w) PROVE StoreInv'
    <2>1. PICK op, j, label :
             /\ Accept(w, op, j, label) /\ label # "insertMembers"
             /\ j.op = "group" => j.members \in MemberLists
      <3>1. CASE AcceptGroup(w)
        BY <3>1 DEF AcceptGroup
      <3>2. CASE AcceptShare(w)
        BY <3>2 DEF AcceptShare
      <3>3. CASE AcceptUpload(w)
        BY <3>3 DEF AcceptUpload, NewFile
      <3>4. CASE AcceptFolder(w)
        BY <3>4 DEF AcceptFolder, NewFile
      <3>5. CASE AcceptSignUp(w)
        BY <3>5 DEF AcceptSignUp
      <3>6. CASE AcceptDownload(w)
        BY <3>6 DEF AcceptDownload
      <3>7. CASE AcceptList(w)
        BY <3>7 DEF AcceptList
      <3>8. CASE AcceptUsers(w)
        BY <3>8 DEF AcceptUsers
      <3>9. CASE AcceptQuery(w)
        BY <3>9 DEF AcceptQuery
      <3>. QED BY <1>3, <3>1, <3>2, <3>3, <3>4, <3>5, <3>6, <3>7, <3>8, <3>9 DEF Request
    <2>2. /\ UNCHANGED <<work, db, nextGroup>>
          /\ \A v \in Workers : v # w => pc'[v] = pc[v] /\ job'[v] = job[v]
          /\ pc'[w] = label /\ job'[w] = j
      BY <2>1 DEF Accept, TypeOK, ProcOK, conn
    <2>3. \A v \in Workers : Naming(v)' => v # w /\ Naming(v)
      BY <2>1, <2>2 DEF Naming, At
    <2>4. \A g : Together(g) => Together(g)'
      BY <2>2 DEF Together
    <2>. QED BY <2>1, <2>2, <2>3, <2>4 DEF StoreInv
  <1>. QED BY <1>1, <1>2, <1>3

\* The server starts with tables that obey their constraints.
LEMMA StoreInit == Init => StoreInv
  <1>. SUFFICES ASSUME Init PROVE StoreInv
    OBVIOUS
  <1>. DEFINE S == [name : Names, password : Passwords]
  <1>0. /\ Registered \in Seq(S)
        /\ \A i, j \in DOMAIN Registered : Registered[i].name = Registered[j].name => i = j
        /\ Stored \subseteq FileRow
        /\ \A r, s \in Stored : r.id = s.id => r = s
        /\ \A r \in Stored : r.fits /\ r.creator \in DOMAIN Registered
    BY JavkaAssumption
  <1>1. \A r \in work : \/ \E i \in DOMAIN Registered : r = User(i, Registered[i])
                        \/ r \in Stored /\ r.table = "files"
    BY <1>0 DEF Init, FileRow
  <1>2. \A i \in DOMAIN Registered :
           /\ User(i, Registered[i]) \in work
           /\ User(i, Registered[i]).table = "users" /\ User(i, Registered[i]).id = i
           /\ User(i, Registered[i]).name = Registered[i].name
    BY DEF Init, User
  <1>3. ASSUME NEW r \in work PROVE Accepts(work \ {r}, r)
    <2>1. CASE \E i \in DOMAIN Registered : r = User(i, Registered[i])
      BY <1>2, <2>1 DEF Accepts
    <2>2. CASE r \in Stored /\ r.table = "files"
      <3>1. HasUser(work \ {r}, r.creator)
        BY <1>0, <1>2, <2>2 DEF HasUser
      <3>2. ~HasFile(work \ {r}, r.id)
        BY <1>0, <1>1, <1>2, <2>2 DEF HasFile
      <3>. QED BY <1>0, <2>2, <3>1, <3>2 DEF Accepts
    <2>. QED BY <1>1, <2>1, <2>2
  <1>4. Lawful(work)
    BY <1>0, <1>1, <1>2, <1>3 DEF Lawful
  <1>5. work = db /\ Of(work, "groups") = {}
    BY <1>1, <1>2 DEF Init, Of
  <1>. QED BY <1>4, <1>5 DEF StoreInv, Init, NoJob, Naming, At

\* The inductive invariant of the store: whatever is committed may be.
THEOREM StoreInvariant == Spec => []StoreInv
  <1>1. TypeOK /\ AckInv /\ TokenInv /\ TxInv /\ AccessInv /\ StoreInv /\ [Next]_vars => StoreInv'
    <2>. SUFFICES ASSUME TypeOK, AckInv, TokenInv, TxInv, AccessInv, StoreInv, [Next]_vars
                  PROVE  StoreInv'
      OBVIOUS
    <2>1. ASSUME NEW w \in Workers, Handle(w) PROVE StoreInv'
      <3>1. Handler(w) /\ (GroupStep(w) \/ UNCHANGED nextGroup)
        BY <2>1 DEF Handle, Handler
      <3>2. StoreStep(w)
        BY <3>1, UserStores, FileStores, GroupStores DEF Handler
      <3>. QED BY <3>1, <3>2, StoreHandler
    <2>. QED BY <2>1, StoreOther DEF Next
  <1>. QED BY <1>1, StoreInit, TypeCorrect, AckInvariant, TokenInvariant, TxInvariant,
              AccessInvariant, PTL DEF Spec

----------------------------------------------------------------------------
\* The server implements SharedStore.

\* SharedStore speaks of the same tables and the same lists.
LEMMA SameSchema ==
  /\ \A t : Store!Lawful(t) = Lawful(t)
  /\ \A t, g : Store!Memberships(t, g) = Memberships(t, g)
  /\ \A lists, g : Store!Lists(lists, g) = Lists(lists, g)
  <1>1. \A t, r : Store!Accepts(t, r) = Accepts(t, r)
    BY DEF Store!Accepts, Accepts, Store!HasUser, HasUser, Store!HasFile, HasFile,
           Store!HasGroup, HasGroup
  <1>2. \A t : Store!Lawful(t) = Lawful(t)
    BY <1>1 DEF Store!Lawful, Lawful
  <1>3. \A t, g : Store!Memberships(t, g) = Memberships(t, g)
    BY DEF Store!Memberships, Memberships
  <1>4. \A lists, g : Store!Lists(lists, g) = Lists(lists, g)
    BY DEF Store!Lists, Lists, Store!UserGroup, UserGroup
  <1>. QED BY <1>2, <1>3, <1>4

\* A group in the database has the members it had, or all at once.
LEMMA MembersCome ==
  ASSUME TypeOK, AckInv, TxInv, StoreInv, NEW w \in Workers, Handler(w), StoreStep(w),
         GroupStep(w) \/ UNCHANGED nextGroup, ~Undone, NEW g \in Of(db', "groups")
  PROVE  \/ Memberships(db', g.id) = Memberships(db, g.id)
         \/ /\ Memberships(db, g.id) = {}
            /\ Memberships(db', g.id) \in Lists(MemberLists, g.id)
  <1>1. StoreInv'
    BY StoreHandler
  <1>2. Undone \/ \E rows : Adds(rows)
    BY DEF StoreStep
  <1>3. g \in Of(work', "groups") /\ db \subseteq db' /\ work \subseteq work'
    BY <1>2 DEF Of, Adds, AckInv
  <1>4. Together(g.id)'
    BY <1>1, <1>3 DEF StoreInv
  <1>5. \/ Together(g.id)
        \/ Memberships(work, g.id) = {} /\ Memberships(db, g.id) = {}
    BY <1>3, GroupsChange, NewGroup DEF StoreInv
  <1>6. Memberships(db, g.id) \subseteq Memberships(db', g.id)
    BY <1>3 DEF Memberships
  <1>7. Memberships(work, g.id) # {} => Memberships(work', g.id) = Memberships(work, g.id)
    <2>1. Naming(w) /\ g.id = job[w].row.id => Memberships(work, g.id) = {}
      BY DEF StoreInv
    <2>2. Memberships(work, g.id) \subseteq Memberships(work', g.id)
      BY <1>3 DEF Memberships
    <2>3. Memberships(db, g.id) \subseteq Memberships(work, g.id)
      BY DEF Memberships, AckInv
    <2>. QED BY <2>1, <2>2, <2>3, MembersChange
  <1>. QED BY <1>4, <1>5, <1>6, <1>7 DEF Together

\* However many handlers share the transaction: rows become durable under the
\* constraints and member lists whole, and who is told of rows is told of
\* durable or of lost ones.
THEOREM SharedStoreImplemented == Spec => ImplementsSharedStore
  <1>1. Init => Store!Init
    BY DEF Init, Store!Init, User
  <1>2. TypeOK /\ AckInv /\ AckInv' /\ TokenInv /\ TxInv /\ AccessInv /\ StoreInv /\ [Next]_vars
           => [Store!Store \/ Store!Discard]_<<db, lost, acked>>
    <2>. SUFFICES ASSUME TypeOK, AckInv, AckInv', TokenInv, TxInv, AccessInv, StoreInv, [Next]_vars
                  PROVE  [Store!Store \/ Store!Discard]_<<db, lost, acked>>
      OBVIOUS
    <2>1. CASE Crash \/ UNCHANGED vars \/ \E w \in Workers : Request(w)
      <3>1. UNCHANGED <<db, lost, acked>>
        <4>1. CASE Crash
          BY <4>1 DEF Crash
        <4>2. CASE UNCHANGED vars
          BY <4>2 DEF vars, conn
        <4>3. ASSUME NEW w \in Workers, Request(w) PROVE UNCHANGED <<db, lost, acked>>
          BY <4>3, RequestAccepts DEF Accept, conn
        <4>. QED BY <2>1, <4>1, <4>2, <4>3
      <3>. QED BY <3>1
    <2>2. ASSUME NEW w \in Workers, Handle(w)
          PROVE  Store!Store \/ Store!Discard
      <3>1. Handler(w) /\ (GroupStep(w) \/ UNCHANGED nextGroup)
        BY <2>2 DEF Handle, Handler
      <3>2. StoreStep(w)
        BY <3>1, UserStores, FileStores, GroupStores DEF Handler
      <3>3. acked \subseteq acked' /\ acked' \subseteq db' \cup lost'
        BY <3>1, HandlerFrame DEF AckInv, AckDurable
      <3>4. CASE Undone
        BY <3>3, <3>4 DEF Undone, Store!Discard
      <3>5. CASE ~Undone
        <4>1. PICK rows : Adds(rows)
          BY <3>2, <3>5 DEF StoreStep
        <4>2. db \subseteq db' /\ lost' = lost /\ Lawful(db')
          BY <3>2, <4>1, GroupsChange DEF Adds, AckInv
        <4>3. \A g \in db' : g.table = "groups" => Store!MembersTogether(g.id)
          BY <3>1, <3>2, <3>5, MembersCome, SameSchema DEF Store!MembersTogether, Of
        <4>. QED BY <3>3, <4>2, <4>3, SameSchema DEF Store!Store
      <3>. QED BY <3>4, <3>5
    <2>. QED BY <2>1, <2>2 DEF Next
  <1>. QED BY <1>1, <1>2, TypeCorrect, AckInvariant, TokenInvariant, TxInvariant,
              AccessInvariant, StoreInvariant, PTL
       DEF Spec, ImplementsSharedStore, Store!Spec

----------------------------------------------------------------------------
\* With one worker the server implements SharingService.

\* SharingService speaks of the same tables and lists.
LEMMA SameService ==
  /\ \A t : Service!Lawful(t) = Lawful(t)
  /\ \A t, g : Service!Memberships(t, g) = Memberships(t, g)
  /\ \A t, g : Service!HasGroup(t, g) = HasGroup(t, g)
  /\ \A lists, g : Service!Lists(lists, g) = Lists(lists, g)
  <1>1. \A t, r : Service!Accepts(t, r) = Accepts(t, r)
    BY DEF Service!Accepts, Accepts, Service!HasUser, HasUser, Service!HasFile, HasFile,
           Service!HasGroup, HasGroup
  <1>2. \A t : Service!Lawful(t) = Lawful(t)
    BY <1>1 DEF Service!Lawful, Lawful
  <1>3. /\ \A t, g : Service!Memberships(t, g) = Memberships(t, g)
        /\ \A t, g : Service!HasGroup(t, g) = HasGroup(t, g)
    BY DEF Service!Memberships, Memberships, Service!HasGroup, HasGroup
  <1>4. \A lists, g : Service!Lists(lists, g) = Lists(lists, g)
    BY DEF Service!Lists, Lists, Service!UserGroup, UserGroup
  <1>. QED BY <1>2, <1>3, <1>4

\* What the open transaction adds is whole, but for the group w is filling.
Whole(w) ==
    /\ \A g \in Of(work \ db, "groups") :
          \/ Memberships(work \ db, g.id) \in Lists(MemberLists, g.id)
          \/ Naming(w) /\ job[w].row = g
    /\ \A m \in Of(work \ db, "user_groups") : HasGroup(work \ db, m.group)

\* AtomicInv, said of the one worker there is.
AtomicOf(w) ==
    /\ rollbackOnly => tx = "aborted"
    /\ tx = "aborted" \/ pending = {} \/ pc[w] = "flush"
    /\ Alone(w)
    /\ tx = "open" => Whole(w)

\* And that is all AtomicInv says, before a step and after it.
LEMMA AtomicIsOf ==
  ASSUME OneWorker, NEW w \in Workers
  PROVE  (AtomicInv <=> AtomicOf(w)) /\ (AtomicInv' <=> AtomicOf(w)')
  <1>1. Workers = {w}
    BY DEF OneWorker
  <1>2. AtomicInv <=> AtomicOf(w)
    BY <1>1, Zenon DEF AtomicInv, AtomicOf, Whole
  <1>3. AtomicInv' <=> AtomicOf(w)'
    BY <1>1, Zenon DEF AtomicInv, AtomicOf, Whole
  <1>. QED BY <1>2, <1>3

\* Labels at which the worker counts on nothing.
Plain == Labels \ {"begin", "insertShare", "persist", "insertGroup", "insertMembers", "flush",
                   "refresh", "commit"}

\* There Alone holds, and nobody is naming members.
LEMMA PlainAlone ==
  ASSUME NEW w \in Workers, pc'[w] \in Plain
  PROVE  Alone(w)' /\ ~Naming(w)'
  BY DEF Plain, Labels, Alone, Naming, At

\* What a step has to show that writes nothing: a statement that succeeds, or
\* fails and aborts the transaction.
LEMMA AtomicRead ==
  ASSUME NEW w \in Workers, AtomicOf(w), UNCHANGED conn \/ Fail,
         pending' \in {pending, {}}, pc[w] = "flush" => tx' = "aborted",
         ~Naming(w), Alone(w)', ~Naming(w)'
  PROVE  AtomicOf(w)'
  <1>1. UNCHANGED <<db, work>> /\ tx' \in {tx, "aborted"} /\ (tx = "aborted" => tx' = "aborted")
    BY DEF conn, Fail
  <1>2. rollbackOnly' => tx' = "aborted"
    BY DEF conn, Fail, AtomicOf
  <1>3. tx' = "open" => Whole(w)'
    BY <1>1 DEF AtomicOf, Whole
  <1>. QED BY <1>1, <1>2, <1>3 DEF AtomicOf

\* One that writes files, shares or users.
LEMMA AtomicWrite ==
  ASSUME NEW w \in Workers, AtomicOf(w), NEW rows, Write(rows),
         \A r \in rows : r.table \notin {"groups", "user_groups"},
         pending' \in {pending, {}}, pc[w] = "flush" => pending' = {},
         ~Naming(w), Alone(w)', ~Naming(w)'
  PROVE  AtomicOf(w)'
  <1>1. tx' = "open" => Whole(w)'
    <2>. SUFFICES ASSUME tx' = "open" PROVE Whole(w)'
      OBVIOUS
    <2>1. tx = "open" /\ db' = db /\ work' = work \cup rows
      BY DEF Write
    <2>2. \A g : Memberships(work' \ db', g) = Memberships(work \ db, g)
      BY <2>1 DEF Memberships
    <2>3. /\ Of(work' \ db', "groups") = Of(work \ db, "groups")
          /\ Of(work' \ db', "user_groups") = Of(work \ db, "user_groups")
          /\ \A g : HasGroup(work \ db, g) => HasGroup(work' \ db', g)
      BY <2>1 DEF Of, HasGroup
    <2>. QED BY <2>1, <2>2, <2>3 DEF AtomicOf, Whole
  <1>. QED BY <1>1 DEF AtomicOf, Write

\* A step is the service's, or none for it.
Served == [Service!Serve]_<<db, acked>>

\* A step that stores nothing and confirms nothing is none for it.
LEMMA StaysServed == UNCHANGED <<db, acked>> => Served
  BY DEF Served

\* A handler that leaves after a read or a failed statement.
LEMMA AtomicLeaves ==
  ASSUME TypeOK, NEW w \in Workers, AtomicOf(w), UNCHANGED conn \/ Fail, pending' = pending,
         pc[w] = "flush" => tx' = "aborted", ~Naming(w),
         Refuse(w) \/ \E l \in Plain : Goto(w, l)
  PROVE  AtomicOf(w)' /\ Served
  <1>1. pc'[w] \in Plain /\ acked' = acked
    BY FrameGoto, FrameAnswer DEF Refuse, Plain, Labels
  <1>2. db' = db
    BY DEF conn, Fail
  <1>. QED BY <1>1, <1>2, PlainAlone, AtomicRead, StaysServed

\* isActive() finds a transaction, or goes to begin one,
LEMMA AtomicIsActive ==
  ASSUME TypeOK, NEW w \in Workers, AtomicOf(w), pc[w] = "isActive",
         NEW body \in {"insertShare", "persist", "insertGroup"}, IsActive(w, body)
  PROVE  AtomicOf(w)' /\ Served
  <1>1. /\ UNCHANGED conn /\ UNCHANGED unit
        /\ pc'[w] = IF tx = "none" THEN "begin" ELSE body
        /\ acked' = acked
    BY FrameGoto DEF IsActive
  <1>2. Alone(w)' /\ ~Naming(w) /\ ~Naming(w)'
    BY <1>1 DEF Alone, Naming, At, conn
  <1>. QED BY <1>1, <1>2, AtomicRead, StaysServed DEF conn, unit

\* which begin() then does, for no one else can have begun.
LEMMA AtomicBegin ==
  ASSUME TypeOK, AckInv, NEW w \in Workers, AtomicOf(w), pc[w] = "begin",
         NEW body \in {"insertShare", "persist", "insertGroup"}, Begin(w, body)
  PROVE  AtomicOf(w)' /\ Served
  <1>1. tx = "none" /\ work = db /\ pending = {}
    BY DEF AtomicOf, Alone, AckInv
  <1>2. /\ tx' = "open" /\ ~rollbackOnly' /\ work' = db' /\ db' = db
        /\ pending' = pending /\ pc'[w] = body /\ acked' = acked
    BY <1>1, FrameGoto DEF Begin, unit
  <1>3. Alone(w)'
    BY <1>2 DEF Alone, Naming, At
  <1>4. Whole(w)'
    BY <1>2 DEF Whole, Of
  <1>. QED BY <1>1, <1>2, <1>3, <1>4, StaysServed DEF AtomicOf

\* commit() makes durable what the request wrote, in whole groups.
LEMMA AtomicCommit ==
  ASSUME TypeOK, AckInv, StoreInv', NEW w \in Workers, AtomicOf(w), pc[w] = "commit",
         Commit(w, Effect(job[w]))
  PROVE  AtomicOf(w)' /\ Served
  <1>1. /\ tx = "open" /\ ~rollbackOnly /\ pending = {}
        /\ Effect(job[w]) \subseteq work \ db /\ Whole(w) /\ ~Naming(w)
    BY DEF AtomicOf, Alone, Naming, At
  <1>2. /\ work' = work /\ db' = work /\ tx' = "none" /\ pending' = {} /\ ~rollbackOnly'
        /\ pc'[w] \in Plain /\ acked' = acked \cup Effect(job[w])
    BY <1>1, FrameAnswer DEF Commit, Flushable, Plain, Labels
  <1>3. AtomicOf(w)'
    BY <1>2, PlainAlone DEF AtomicOf
  <1>4. Service!WholeGroups(db' \ db)
    <2>1. db' \ db = work \ db
      BY <1>2
    <2>. QED BY <1>1, <2>1, SameService DEF Whole, Service!WholeGroups, Of
  <1>5. Lawful(db') /\ db \subseteq db' /\ acked \subseteq acked' /\ acked' \ acked \subseteq db' \ db
    BY <1>1, <1>2 DEF StoreInv, AckInv
  <1>. QED BY <1>3, <1>4, <1>5, SameService DEF Served, Service!Serve

\* Outside transactions the service stores users and nothing else,
LEMMA ServedAlone ==
  ASSUME AckInv, StoreInv', NEW rows, Write(rows), acked' = acked,
         \A r \in rows : r.table \notin {"groups", "user_groups"}
  PROVE  Served
  <1>1. db' = db \/ (db' = db \cup rows)
    BY DEF Write, AckInv
  <1>2. Service!WholeGroups(db' \ db)
    BY <1>1 DEF Service!WholeGroups
  <1>. QED BY <1>1, <1>2, SameService DEF Served, Service!Serve, StoreInv

\* a registration that finds none,
LEMMA AtomicUser ==
  ASSUME TypeOK, AckInv, StoreInv', NEW w \in Workers, AtomicOf(w), UserStep(w)
  PROVE  AtomicOf(w)' /\ Served
  <1>1. ~Naming(w) /\ pc[w] # "flush" /\ pending' = pending
    BY DEF UserStep, LogIn, SaveUser, ListUsers, CurrentUser, Query, At, Naming, unit
  <1>2. ASSUME Refuse(w) \/ \E l \in Plain : Goto(w, l), UNCHANGED conn \/ Fail
        PROVE  AtomicOf(w)' /\ Served
    BY <1>1, <1>2, AtomicLeaves
  <1>3. CASE LogIn(w) \/ ListUsers(w) \/ CurrentUser(w)
    BY <1>2, <1>3 DEF LogIn, ListUsers, CurrentUser, Query, Refuse, Plain, Labels
  <1>4. ASSUME NEW rows, Write(rows), \A r \in rows : r.table = "users", Refuse(w)
        PROVE  AtomicOf(w)' /\ Served
    <2>1. pc'[w] \in Plain /\ acked' = acked
      BY <1>4, FrameAnswer DEF Refuse, Plain, Labels
    <2>. QED BY <1>1, <1>4, <2>1, PlainAlone, AtomicWrite, ServedAlone
  <1>5. CASE SaveUser(w)
    BY <1>2, <1>4, <1>5 DEF SaveUser, Refuse, User
  <1>. QED BY <1>3, <1>5 DEF UserStep

\* The one file there is in the queue is the one that is being saved.
LEMMA AtomicFlush ==
  ASSUME TypeOK, AckInv, StoreInv', NEW w \in Workers, AtomicOf(w), Flush(w)
  PROVE  AtomicOf(w)' /\ Served
  <1>1. /\ pc[w] = "flush" /\ tx # "none" /\ ~Naming(w)
        /\ job[w].row \in pending \cap context
        /\ tx = "open" => pending = {job[w].row}
    BY DEF Flush, At, AtomicOf, Alone, Naming
  <1>2. CASE Flushable /\ Write(pending) /\ pending' = {} /\ Goto(w, "refresh")
    <2>1. /\ tx = "open" /\ pending = {job[w].row} /\ Accepts(work, job[w].row)
          /\ work' = work \cup pending /\ db' = db /\ tx' = "open" /\ context' = context
          /\ job' = job /\ pc'[w] = "refresh" /\ acked' = acked
      BY <1>1, <1>2, FrameGoto DEF Flushable, Write, Flush
    <2>2. job[w].row \notin db
      BY <2>1 DEF Accepts, AckInv
    <2>3. Alone(w)' /\ ~Naming(w)'
      BY <1>1, <2>1, <2>2 DEF Alone, Naming, At
    <2>4. \A r \in pending : r.table \notin {"groups", "user_groups"}
      BY DEF TypeOK, UnitOK, FileRow
    <2>. QED BY <1>1, <1>2, <2>1, <2>3, <2>4, AtomicWrite, StaysServed
  <1>3. CASE ~Flushable /\ Fail /\ Refuse(w) /\ UNCHANGED pending
    BY <1>1, <1>3, AtomicLeaves DEF Fail
  <1>. QED BY <1>1, <1>2, <1>3 DEF Flush

\* Saving: the row is written by flush, found by refresh, and committed,
LEMMA AtomicSave ==
  ASSUME TypeOK, AckInv, StoreInv', NEW w \in Workers, AtomicOf(w),
         StartBlob(w) \/ FinishBlob(w) \/ SaveIsActive(w) \/ SaveBegin(w) \/ Persist(w)
             \/ Flush(w) \/ Refresh(w) \/ SaveCommit(w)
  PROVE  AtomicOf(w)' /\ Served
  <1>1. CASE StartBlob(w) \/ FinishBlob(w)
    <2>1. UNCHANGED conn /\ pending' = pending /\ pc[w] # "flush" /\ ~Naming(w)
      BY <1>1 DEF StartBlob, FinishBlob, At, Naming, unit
    <2>. QED BY <1>1, <2>1, AtomicLeaves DEF StartBlob, FinishBlob, Plain, Labels
  <1>2. CASE SaveIsActive(w) \/ SaveBegin(w)
    BY <1>2, AtomicIsActive, AtomicBegin DEF SaveIsActive, SaveBegin, At
  <1>3. CASE Persist(w)
    <2>1. /\ UNCHANGED conn /\ tx # "none" /\ pc[w] = "persist" /\ acked' = acked
          /\ pc'[w] = "flush" /\ job' = job
          /\ pending' = pending \cup {job[w].row} /\ context' = context \cup {job[w].row}
      BY <1>3, FrameGoto DEF Persist, At, AtomicOf, Alone
    <2>2. tx = "open" => pending = {}
      BY <2>1 DEF AtomicOf
    <2>3. Alone(w)' /\ ~Naming(w)
      BY <2>1, <2>2 DEF Alone, Naming, At, conn
    <2>4. tx' = "open" => Whole(w)'
      BY <2>1, <2>3 DEF AtomicOf, Whole, conn
    <2>. QED BY <2>1, <2>3, <2>4, StaysServed DEF AtomicOf, conn
  <1>4. CASE Refresh(w)
    <2>1. /\ pc[w] = "refresh" /\ tx = "open" /\ job[w].row \in work \ db
          /\ job[w].row \in context /\ job[w].op = "save"
      BY <1>4 DEF Refresh, At, AtomicOf, Alone
    <2>2. UNCHANGED conn /\ pending' = pending /\ Goto(w, "commit")
      BY <1>4, <2>1 DEF Refresh
    <2>3. pc'[w] = "commit" /\ job' = job /\ acked' = acked
      BY <2>2, FrameGoto
    <2>4. Alone(w)' /\ ~Naming(w) /\ ~Naming(w)'
      BY <2>1, <2>2, <2>3 DEF Alone, Naming, At, Effect, conn
    <2>. QED BY <2>1, <2>2, <2>3, <2>4, AtomicRead, StaysServed DEF conn
  <1>5. CASE SaveCommit(w)
    BY <1>5, AtomicCommit DEF SaveCommit, At, Effect
  <1>. QED BY <1>1, <1>2, <1>3, <1>4, <1>5, AtomicFlush

\* sharing likewise, and reading leaves everything as it was.
LEMMA AtomicFile ==
  ASSUME TypeOK, AckInv, StoreInv', NEW w \in Workers, AtomicOf(w), FileStep(w)
  PROVE  AtomicOf(w)' /\ Served
  <1>1. CASE CheckCreator(w) \/ FindDownload(w)
    <2>1. (UNCHANGED conn \/ Fail) /\ pending' = pending /\ pc[w] # "flush" /\ ~Naming(w)
      BY <1>1 DEF CheckCreator, FindDownload, Find, At, Naming
    <2>2. Refuse(w) \/ \E l \in Plain : Goto(w, l)
      BY <1>1 DEF CheckCreator, FindDownload, Plain, Labels
    <2>. QED BY <2>1, <2>2, AtomicLeaves
  <1>2. CASE CheckAccess(w) \/ ReadBlob(w)
    <2>1. (UNCHANGED conn \/ Fail) /\ pending' = pending /\ pc[w] # "flush" /\ ~Naming(w)
      BY <1>2 DEF CheckAccess, ReadBlob, At, Naming, unit
    <2>2. Refuse(w) \/ \E l \in Plain : Goto(w, l)
      BY <1>2 DEF CheckAccess, ReadBlob, Plain, Labels, Refuse
    <2>. QED BY <2>1, <2>2, AtomicLeaves
  <1>3. CASE ShareIsActive(w) \/ ShareBegin(w)
    BY <1>3, AtomicIsActive, AtomicBegin DEF ShareIsActive, ShareBegin, At
  <1>4. CASE InsertShare(w)
    <2>1. /\ pc[w] = "insertShare" /\ tx # "none" /\ pending' = pending
          /\ ~Naming(w) /\ job[w].op = "share"
      BY <1>4 DEF InsertShare, At, AtomicOf, Alone, Naming, unit
    <2>2. CASE Fail /\ Refuse(w)
      BY <2>1, <2>2, AtomicLeaves
    <2>3. CASE /\ tx = "open" /\ Accepts(work, job[w].row) /\ Write({job[w].row})
               /\ Goto(w, "commit")
      <3>1. /\ pc'[w] = "commit" /\ job' = job /\ acked' = acked
            /\ tx' = "open" /\ work' = work \cup {job[w].row} /\ db' = db
        BY <2>3, FrameGoto DEF Write
      <3>2. job[w].row \notin db
        BY <2>3 DEF Accepts, AckInv
      <3>3. Alone(w)' /\ ~Naming(w)'
        BY <2>1, <3>1, <3>2 DEF Alone, Naming, At, Effect
      <3>4. \A r \in {job[w].row} : r.table \notin {"groups", "user_groups"}
        BY <2>1, JobType DEF TypeOK, ShareJob, ShareRow, UserFileRow, GroupFileRow
      <3>. QED BY <2>1, <2>3, <3>1, <3>3, <3>4, AtomicWrite, StaysServed
    <2>. QED BY <1>4, <2>1, <2>2, <2>3 DEF InsertShare, Execute
  <1>5. CASE ShareCommit(w)
    BY <1>5, AtomicCommit DEF ShareCommit, At, Effect
  <1>6. CASE ListFiles(w)
    <2>1. pc[w] = "list" /\ ~Naming(w) /\ (tx # "aborted" => pending = {})
      BY <1>6 DEF ListFiles, At, Naming, AtomicOf
    <2>2. pc'[w] \in Plain /\ acked' = acked
      BY <1>6, FrameAnswer DEF ListFiles, Plain, Labels
    <2>3. CASE Fail /\ UNCHANGED unit
      <3>1. db' = db
        BY <2>3 DEF Fail
      <3>. QED BY <2>1, <2>2, <2>3, <3>1, PlainAlone, AtomicRead, StaysServed DEF unit
    <2>4. ASSUME NEW flushed, flushed \in {pending, {}}, Write(flushed),
                 pending' = pending \ flushed, tx # "aborted"
          PROVE  AtomicOf(w)' /\ Served
      BY <2>1, <2>2, <2>4, PlainAlone, AtomicWrite, ServedAlone
    <2>. QED BY <1>6, <2>3, <2>4 DEF ListFiles
  <1>. QED BY <1>1, <1>2, <1>3, <1>4, <1>5, <1>6, AtomicSave DEF FileStep

\* A group's row joins no other, and no members yet,
LEMMA AtomicInsertGroup ==
  ASSUME TypeOK, AckInv, NEW w \in Workers, AtomicOf(w), InsertGroup(w)
  PROVE  AtomicOf(w)' /\ Served
  <1>. DEFINE row == [job[w].row EXCEPT !.id = nextGroup]
  <1>1. /\ pc[w] = "insertGroup" /\ tx # "none" /\ ~Naming(w) /\ pending' = pending
        /\ job[w] \in GroupJob
    BY JobType DEF InsertGroup, At, AtomicOf, Alone, Naming, unit, TypeOK
  <1>2. CASE Fail /\ Refuse(w)
    BY <1>1, <1>2, AtomicLeaves
  <1>3. CASE /\ tx # "aborted" /\ Accepts(work, row) /\ Write({row})
             /\ job' = [job EXCEPT ![w].row = row]
             /\ pc' = [pc EXCEPT ![w] = "insertMembers"] /\ UNCHANGED acked
    <2>1. /\ tx = "open" /\ tx' = "open" /\ work' = work \cup {row} /\ db' = db
          /\ UNCHANGED rollbackOnly /\ acked' = acked
      BY <1>1, <1>3 DEF Write, TypeOK, ConnOK
    <2>2. /\ job'[w] = [job[w] EXCEPT !.row = row] /\ pc'[w] = "insertMembers"
      BY <1>3 DEF TypeOK, ProcOK
    <2>3. /\ job'[w].row = row /\ job'[w].op = "group" /\ row.table = "groups"
          /\ row \notin work /\ row \notin db
      BY <1>1, <1>3, <2>2 DEF GroupJob, GroupRow, Accepts, AckInv
    <2>. HIDE DEF row
    <2>4. Alone(w)' /\ Naming(w)'
      BY <2>1, <2>2, <2>3 DEF Alone, Naming, At
    <2>5. \A g : Memberships(work' \ db', g) = Memberships(work \ db, g)
      BY <2>1, <2>3 DEF Memberships
    <2>6. /\ Of(work' \ db', "groups") = Of(work \ db, "groups") \cup {row}
          /\ Of(work' \ db', "user_groups") = Of(work \ db, "user_groups")
          /\ \A g : HasGroup(work \ db, g) => HasGroup(work' \ db', g)
      BY <2>1, <2>3 DEF Of, HasGroup
    <2>7. Whole(w)'
      BY <1>1, <2>1, <2>3, <2>4, <2>5, <2>6 DEF AtomicOf, Whole
    <2>. QED BY <1>1, <2>1, <2>4, <2>7, StaysServed DEF AtomicOf
  <1>. QED BY <1>2, <1>3 DEF InsertGroup

\* and its members all join it in the next step.
LEMMA AtomicInsertMembers ==
  ASSUME TypeOK, AckInv, StoreInv, NEW w \in Workers, AtomicOf(w), InsertMembers(w)
  PROVE  AtomicOf(w)' /\ Served
  <1>. DEFINE row == job[w].row
  <1>1. /\ pc[w] = "insertMembers" /\ job[w] \in GroupJob /\ Naming(w) /\ pending' = pending
        /\ tx = "open" /\ row \in work \ db
    BY JobType DEF InsertMembers, At, AtomicOf, Alone, Naming, unit, TypeOK
  <1>2. /\ Memberships(work, row.id) = {} /\ Memberships(work \ db, row.id) = {}
        /\ row.table = "groups" /\ job[w].op = "group" /\ job[w].members \in MemberLists
    BY <1>1 DEF StoreInv, Naming, At, Memberships, GroupJob, GroupRow
  <1>3. Members(job[w]) \in Lists(MemberLists, row.id)
    BY <1>2 DEF Members, Lists
  <1>0. Refuse(w) => pc'[w] \in Plain /\ acked' = acked
    BY FrameAnswer DEF Refuse, Plain, Labels
  <1>4. CASE job[w].members = <<>> /\ Refuse(w) /\ UNCHANGED conn
    <2>1. pc'[w] \in Plain /\ acked' = acked
      BY <1>0, <1>4
    <2>2. Members(job[w]) = {}
      BY <1>4 DEF Members
    <2>3. Whole(w)'
      BY <1>1, <1>2, <1>3, <1>4, <2>2 DEF AtomicOf, Whole, conn
    <2>. QED BY <1>1, <1>4, <2>1, <2>3, PlainAlone, StaysServed DEF AtomicOf, conn
  <1>5. CASE Fail /\ Refuse(w)
    <2>1. pc'[w] \in Plain /\ acked' = acked
      BY <1>5, FrameAnswer DEF Refuse, Plain, Labels
    <2>. QED BY <1>1, <1>5, <2>1, PlainAlone, StaysServed DEF AtomicOf, Fail
  <1>6. CASE /\ \A r \in Members(job[w]) : Accepts(work, r)
             /\ Write(Members(job[w])) /\ Goto(w, "commit")
    <2>1. /\ pc'[w] = "commit" /\ job' = job /\ acked' = acked /\ tx' = "open"
          /\ work' = work \cup Members(job[w]) /\ db' = db /\ UNCHANGED rollbackOnly
      BY <1>1, <1>6, FrameGoto DEF Write
    <2>2. /\ Members(job[w]) \cap db = {}
          /\ \A r \in Members(job[w]) : r.table = "user_groups" /\ r.group = row.id
      BY <1>6 DEF Accepts, AckInv, Members, UserGroup
    <2>3. Alone(w)'
      BY <1>1, <1>2, <2>1, <2>2 DEF Alone, Naming, At, Effect
    <2>4. /\ Memberships(work' \ db', row.id) = Members(job[w])
          /\ \A g : g # row.id => Memberships(work' \ db', g) = Memberships(work \ db, g)
      BY <1>2, <2>1, <2>2 DEF Memberships
    <2>5. /\ Of(work' \ db', "groups") = Of(work \ db, "groups")
          /\ Of(work' \ db', "user_groups") = Of(work \ db, "user_groups") \cup Members(job[w])
          /\ \A g : HasGroup(work \ db, g) => HasGroup(work' \ db', g)
      BY <2>1, <2>2 DEF Of, HasGroup
    <2>6. HasGroup(work \ db, row.id)
      BY <1>1, <1>2 DEF HasGroup
    <2>7. Whole(w)'
      BY <1>1, <1>3, <2>1, <2>2, <2>4, <2>5, <2>6 DEF AtomicOf, Whole
    <2>. QED BY <1>1, <2>1, <2>3, <2>7, StaysServed DEF AtomicOf
  <1>. QED BY <1>1, <1>4, <1>5, <1>6 DEF InsertMembers, Execute

\* The rest of createGroup is the bracket every writer has.
LEMMA AtomicGroup ==
  ASSUME TypeOK, AckInv, StoreInv, StoreInv', NEW w \in Workers, AtomicOf(w), GroupStep(w)
  PROVE  AtomicOf(w)' /\ Served
  <1>1. CASE GroupIsActive(w) \/ GroupBegin(w)
    BY <1>1, AtomicIsActive, AtomicBegin DEF GroupIsActive, GroupBegin, At
  <1>2. CASE GroupCommit(w)
    BY <1>2, AtomicCommit DEF GroupCommit, At, Effect
  <1>3. CASE ListGroups(w)
    <2>1. (UNCHANGED conn \/ Fail) /\ pending' = pending /\ pc[w] # "flush" /\ ~Naming(w) /\ Refuse(w)
      BY <1>3 DEF ListGroups, Query, At, Naming, unit, Refuse
    <2>. QED BY <2>1, AtomicLeaves
  <1>. QED BY <1>1, <1>2, <1>3, AtomicInsertGroup, AtomicInsertMembers DEF GroupStep

\* New requests, crashes and stuttering store nothing.
LEMMA AtomicOther ==
  ASSUME TypeOK, AckInv, NEW w \in Workers, AtomicOf(w), Crash \/ UNCHANGED vars \/ Request(w)
  PROVE  AtomicOf(w)' /\ Served
  <1>1. CASE Crash
    <2>1. pc'[w] \in Plain /\ tx' = "none" /\ pending' = {} /\ ~rollbackOnly'
          /\ UNCHANGED <<db, acked>>
      BY <1>1 DEF Crash, Plain, Labels
    <2>. QED BY <2>1, PlainAlone, StaysServed DEF AtomicOf
  <1>2. CASE UNCHANGED vars
    <2>1. AtomicOf(w)'
      BY <1>2 DEF vars, conn, unit, AtomicOf, Alone, Whole, Naming, At, Effect, Members
    <2>. QED BY <1>2, <2>1, StaysServed DEF vars, conn
  <1>3. CASE Request(w)
    <2>1. PICK op, j, label : Accept(w, op, j, label) /\ label \in FirstLabels
      BY <1>3, RequestAccepts
    <2>2. /\ UNCHANGED conn /\ UNCHANGED unit /\ acked' = acked
          /\ pc[w] = "idle" /\ pc'[w] \in Plain
      BY <2>1 DEF Accept, FirstLabels, Plain, Labels, TypeOK, ProcOK
    <2>3. ~Naming(w)
      BY <2>2 DEF Naming, At
    <2>. QED BY <2>2, <2>3, PlainAlone, AtomicRead, StaysServed DEF conn, unit
  <1>. QED BY <1>1, <1>2, <1>3

\* Every step of the one worker.
LEMMA AtomicStep ==
  ASSUME OneWorker, TypeOK, AckInv, StoreInv, StoreInv', AtomicInv, [Next]_vars
  PROVE  AtomicInv' /\ Served
  <1>1. ASSUME NEW w \in Workers, Crash \/ UNCHANGED vars \/ Request(w) \/ Handle(w)
        PROVE  AtomicInv' /\ Served
    <2>1. AtomicOf(w)
      BY AtomicIsOf
    <2>2. AtomicOf(w)' /\ Served
      BY <1>1, <2>1, AtomicUser, AtomicFile, AtomicGroup, AtomicOther DEF Handle
    <2>. QED BY <2>2, AtomicIsOf
  <1>2. ASSUME Workers = {} PROVE AtomicInv' /\ Served
    <2>1. CASE Crash
      BY <1>2, <2>1, StaysServed DEF Crash, AtomicInv
    <2>2. CASE UNCHANGED vars
      <3>1. UNCHANGED <<db, work, tx, rollbackOnly, pending, acked>>
        BY <2>2 DEF vars, conn, unit
      <3>2. AtomicInv'
        BY <1>2, <3>1 DEF AtomicInv
      <3>. QED BY <3>1, <3>2, StaysServed
    <2>. QED BY <1>2, <2>1, <2>2 DEF Next
  <1>. QED BY <1>1, <1>2 DEF Next

\* Why the one worker's requests are atomic: nothing of one is left for another
\* to commit, but groups without members and users.
THEOREM AtomicInvariant == OneWorker => (Spec => []AtomicInv)
  <1>. SUFFICES ASSUME OneWorker PROVE Spec => []AtomicInv
    OBVIOUS
  <1>1. Init => AtomicInv
    BY DEF Init, AtomicInv, Alone, Naming, At
  <1>2. TypeOK /\ AckInv /\ StoreInv /\ StoreInv' /\ AtomicInv /\ [Next]_vars => AtomicInv'
    BY AtomicStep
  <1>. QED BY <1>1, <1>2, TypeCorrect, AckInvariant, StoreInvariant, PTL DEF Spec

\* With one worker requests are all or nothing, for any number of users, files
\* and groups, and wherever statements fail and the process dies.
THEOREM OneWorkerIsAtomic == OneWorker => (Spec => RequestsAreAtomic)
  <1>. SUFFICES ASSUME OneWorker PROVE Spec => RequestsAreAtomic
    OBVIOUS
  <1>1. Init => Service!Init
    BY DEF Init, Service!Init, User
  <1>2. TypeOK /\ AckInv /\ StoreInv /\ StoreInv' /\ AtomicInv /\ [Next]_vars
           => [Service!Serve]_<<db, acked>>
    BY AtomicStep DEF Served
  <1>. QED BY <1>1, <1>2, TypeCorrect, AckInvariant, StoreInvariant, AtomicInvariant, PTL
       DEF Spec, RequestsAreAtomic, Service!Spec
=============================================================================
