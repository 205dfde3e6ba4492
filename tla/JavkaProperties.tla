--------------------------- MODULE JavkaProperties ---------------------------
(***************************************************************************)
(* What is to be shown of Javka: its types, its properties, and the        *)
(* inductive invariants the proofs rest on.                                *)
(***************************************************************************)
EXTENDS Javka

Labels == {"idle", "findByName", "saveUser", "findOne", "isActive", "begin",
           "insertShare", "commit", "saveFile", "writing", "persist", "flush",
           "refresh", "isFileAccessible", "readBlob", "list", "insertGroup",
           "insertMembers", "query"}

Job == {NoJob} \cup SignUpJob \cup ShareJob \cup SaveJob \cup DownloadJob
       \cup ListJob \cup GroupJob \cup QueryJob

ConnOK ==
    /\ db \subseteq Row /\ work \subseteq Row /\ lost \subseteq Row
    /\ tx \in {"none", "open", "aborted"}
    /\ rollbackOnly \in BOOLEAN /\ hurt \in BOOLEAN

UnitOK == pending \subseteq FileRow /\ context \subseteq FileRow

ProcOK ==
    /\ pc \in [Workers -> Labels] /\ job \in [Workers -> Job]
    /\ acked \subseteq Row

StoreOK ==
    /\ nextUser \in Nat /\ tokens \subseteq Token
    /\ disk \in [FileIds -> {"absent", "partial", "complete"}]
    /\ nextGroup \in Nat

ClientsOK ==
    /\ used \subseteq FileIds /\ asked \subseteq ShareJob
    /\ accepted \in Nat /\ crashes \in Nat

\* Every variable has its type: the schema's rows in the database, file
\* entities in the EntityManager, a job per worker.
TypeOK == ConnOK /\ UnitOK /\ ProcOK /\ StoreOK /\ ClientsOK

\* Wherever a file's row turns up - committed, in the open transaction,
\* queued, or cached - its blob is completely on disk: addFile writes the blob
\* first, nothing writes to an id twice, and a crash between the two steps
\* leaves a blob without a row and never a row without a blob.
RowHasBlob ==
    \A r \in db \cup work \cup pending \cup context :
        r.table = "files" /\ ~r.folder => disk[r.id] = "complete"

\* A row a client was told is stored is in the database, unless a rollback
\* threw it away: commit() commits the caller's rows although the transaction
\* may by then be one that another request began.
AckDurable == acked \subseteq db \cup lost

\* Somebody allowed u to read the file: its creator asked to share it with u,
\* or with a group u is entered in; or u created it.
Authorised(u, file) ==
    \/ file.creator = u
    \/ \E q \in asked :
          /\ q.uid = file.creator /\ q.row.file = file.id
          /\ \/ q.row.table = "user_files" /\ q.row.user = u
             \/ /\ q.row.table = "group_files"
                /\ UserGroup(u, q.row.group) \in db \cup work \cup lost

\* A handler that is about to hand out a file's bytes does it for a user the
\* file's creator meant: the creator check of sharing, the access query and the
\* cached lookup, each in a step of its own, add up.
AccessAuthorised ==
    \A w \in Workers : At(w, "readBlob", "download") =>
        \E file \in db \cup work \cup lost \cup context :
            /\ file.table = "files" /\ file.id = job[w].file
            /\ Authorised(job[w].uid, file)

\* A token never comes to speak for somebody else: the user stored under its
\* id is the one it was issued to, although the INSERT that drew the id may
\* have been rolled back with another request's transaction.
TokenMatchesUser ==
    \A t \in tokens, r \in db \cup work :
        r.table = "users" /\ r.id = t.uid => r.name = t.name /\ r.hash = t.hash

\* getUserGroups lists a group for its creator, also when a commit by another
\* request made it durable without its members, and for every member exactly
\* once; its creator it may list once per member.
GroupsListed ==
    \A u \in {r.id : r \in Of(db, "users")}, g \in Of(db, "groups") :
        LET listed == {row \in UserGroups(db, u) : row[1] = g} IN
        /\ listed # {} <=> g.creator = u \/ UserGroup(u, g.id) \in db
        /\ g.creator # u => Cardinality(listed) <= 1

Quiet == \A w \in Workers : pc[w] = "idle"

\* A group that is not committed and has no members yet.
Memberless ==
    \E g \in Of(work, "groups") \ db : \A m \in Of(work, "user_groups") : m.group # g.id

\* No handler leaves a transaction open behind it, except one in which
\* something failed and the one createGroup opens for a group without members.
\* (The next request joins either.)
AbandonedTransaction ==
    Quiet /\ tx # "none" => hurt \/ Memberless

\* Rows are rolled back only after something failed in their transaction:
\* requests that interleave in one transaction and all succeed lose nothing.
RollbackAfterFailure == [][lost' # lost => hurt']_vars

\* An aborted transaction that no handler is left to end.
Stuck == tx = "aborted" /\ \A w \in Workers : pc[w] # "commit"

\* Nothing but a restart ends it: every later handler joins the transaction,
\* fails on its first statement and leaves; until then the server stores
\* nothing, logs nobody in and confirms nothing.
OnlyRestartRecovers ==
    [][Stuck /\ crashes' = crashes =>
          Stuck' /\ UNCHANGED <<db, tokens, acked>>]_vars

\* Every accepted request is answered: no handler waits for another.
Answered == \A w \in Workers : pc[w] # "idle" ~> pc[w] = "idle"

\* The service the server implements when it runs one handler at a time: every
\* commit is a whole request's, and confirms nothing that is not durable.
Service == INSTANCE SharingService WITH
    stored <- db, told <- acked,
    Earlier <- {User(i, Registered[i]) : i \in DOMAIN Registered} \cup Stored

\* With one worker, whatever fails and whenever the process dies, requests are
\* all or nothing: no group without its members, no confirmation without its
\* rows.  (With two neither holds: another request commits between the INSERTs
\* of createGroup; or begins anew between a rollback and a commit.)
RequestsAreAtomic == Service!Spec

\* The store the server implements with any number of workers, whatever they
\* make of each other's transactions.
Store == INSTANCE SharedStore WITH
    stored <- db, gone <- lost, told <- acked,
    Earlier <- {User(i, Registered[i]) : i \in DOMAIN Registered} \cup Stored

\* However requests interleave, fail and crash: nothing stored disappears, the
\* tables keep their keys and references, member lists become durable whole and
\* only for the group their request created, and a client is told of nothing
\* that was neither stored nor rolled back.
ImplementsSharedStore == Store!Spec

\* Refuted: schema.sql declares that a file's parent is a file.
ParentIsFile ==
    \A r \in db : r.table = "files" => r.parent = NoFile \/ HasFile(db, r.parent)

\* Refuted: the messages of signUp say that the length of a password must
\* exceed 6 and that of a name 5.
LengthsExceedMinimum ==
    \A t \in tokens : Length[t.name] > 5 /\ Length[t.hash[2]] > 6

----------------------------------------------------------------------------
\* Inductive invariants.

\* What a worker's commit will confirm.
Effect(j) == {j.row} \cup (IF j.op = "group" THEN Members(j) ELSE {})

\* Why AckDurable holds: whoever has come as far as commit has its rows in
\* the open transaction, in the database, or among those rolled back.
AckInv ==
    /\ tx = "none" => work = db
    /\ db \subseteq work
    /\ AckDurable
    /\ \A w \in Workers :
          /\ At(w, "insertMembers", "group") => job[w].row \in work \cup lost
          /\ pc[w] = "commit" => Effect(job[w]) \subseteq work \cup lost

\* Why RollbackAfterFailure holds: the mark and the server's abort both come
\* from a failure inside the transaction.
HurtInv ==
    /\ tx = "none" => work = db
    /\ tx = "aborted" \/ rollbackOnly => hurt

\* The file rows there are, wherever they are.
FileRows == {r \in db \cup work \cup pending \cup context : r.table = "files"}

Uploading(w) == job[w].op = "save" /\ pc[w] \in {"saveFile", "writing"}

\* Why RowHasBlob holds: ids are drawn once, so an id whose blob is being
\* written is the id of no row and of no other upload, and every save that
\* is past its blob has it complete.
BlobInv ==
    /\ RowHasBlob
    /\ \A r \in FileRows : r.id \in used
    /\ \A w \in Workers : job[w].op = "save" =>
          /\ job[w].row.id \in used
          /\ IF Uploading(w)
             THEN \A r \in FileRows : r.id # job[w].row.id
             ELSE ~job[w].row.folder => disk[job[w].row.id] = "complete"
          /\ \A v \in Workers : v # w /\ job[v].op = "save" =>
                job[v].row.id # job[w].row.id

\* Why TokenMatchesUser holds: the sequence is ahead of every id there is, in
\* a row or in a token, and a rollback does not set it back.  (0, which stands
\* for NULL in getUserGroups, is nobody's id.)
TokenInv ==
    /\ \A r, s \in Of(work, "users") : r.id = s.id => r = s
    /\ nextUser > 0
    /\ \A r \in Of(work, "users") : r.id > 0 /\ r.id < nextUser
    /\ \A t \in tokens :
          /\ t.uid < nextUser
          /\ \A r \in Of(work, "users") :
                r.id = t.uid => r.name = t.name /\ r.hash = t.hash

\* A handler that does not leave an open transaction alone: it ends it, fails
\* in it, or enters members.
Ends(w) ==
    \/ pc[w] \in {"insertShare", "persist", "insertGroup", "commit"}
    \/ pc[w] \in {"flush", "refresh"} /\ job[w].row \in context
    \/ At(w, "insertMembers", "group") /\ job[w].members # <<>>

\* Why AbandonedTransaction holds: until somebody commits or fails, somebody is
\* about to, or left a group that the sequence gave an id no member has.
TxInv ==
    /\ \A m \in Of(work, "user_groups") : m.group < nextGroup
    /\ \A w \in Workers : At(w, "insertMembers", "group") => job[w].row.id < nextGroup
    /\ tx = "open" /\ ~hurt => Memberless \/ \E w \in Workers : Ends(w)

\* The files there are or were, and those about to be saved.
Drawn ==
    {r \in db \cup work \cup pending \cup context \cup lost : r.table = "files"}
        \cup {job[w].row : w \in {v \in Workers : job[v].op = "save"}}

\* Whoever u is, a file with this id is u's.
CreatedBy(u, id) == id \in used /\ \A r \in Drawn : r.id = id => r.creator = u

\* The creator asked for this share.
Granted(s) == \E q \in asked : q.row = s /\ CreatedBy(q.uid, s.file)

\* Why AccessAuthorised holds: an id is drawn for one file, so what the
\* creator check, the access query and the lookup see at different times is
\* the same file; every share in the database passed that check.
AccessInv ==
    /\ \A r \in Drawn : r.id \in used
    /\ \A r, s \in Drawn : r.id = s.id => r = s
    /\ \A s \in work : s.table \in {"user_files", "group_files"} => Granted(s)
    /\ \A w \in Workers :
          /\ job[w].op = "share" =>
                /\ job[w] \in asked
                /\ pc[w] # "findOne" => CreatedBy(job[w].uid, job[w].row.file)
          /\ job[w].op = "download" /\ pc[w] \in {"findOne", "readBlob"} =>
                \E file \in db \cup work \cup lost :
                    /\ file.table = "files" /\ file.id = job[w].file
                    /\ Authorised(job[w].uid, file)

\* A worker between the two INSERTs of createGroup.
Naming(w) == At(w, "insertMembers", "group")

\* A group's members are there all at once, in the transaction as in the database.
Together(g) ==
    /\ Memberships(work, g) \in {{}} \cup Lists(MemberLists, g)
    /\ Memberships(db, g) \in {{}, Memberships(work, g)}

\* Why ImplementsSharedStore holds: what a transaction adds up to obeys the
\* constraints whenever it may be committed, and a group id, once drawn, is
\* named by the one worker that drew it.
StoreInv ==
    /\ Lawful(work) /\ Lawful(db)
    /\ \A g \in Of(work, "groups") : g.id < nextGroup /\ Together(g.id)
    /\ \A w \in Workers : job[w].op = "group" => job[w].members \in MemberLists
    /\ \A w \in Workers : Naming(w) =>
          /\ Memberships(work, job[w].row.id) = {}
          /\ \A v \in Workers : v # w /\ Naming(v) => job[v].row.id # job[w].row.id

OneWorker == \A v, w \in Workers : v = w

\* What the transaction is to the one worker there is.
Alone(w) ==
    /\ pc[w] = "begin" => tx = "none"
    /\ pc[w] \in {"insertShare", "persist", "insertGroup"} => tx # "none"
    /\ pc[w] = "flush" => tx # "none" /\ job[w].row \in pending \cap context
    /\ pc[w] = "flush" /\ tx = "open" => pending = {job[w].row}
    /\ Naming(w) => tx = "open" /\ job[w].row \in work \ db
    /\ pc[w] = "refresh" => tx = "open" /\ job[w].row \in (work \ db) \cap context
    /\ pc[w] = "commit" => tx = "open" /\ Effect(job[w]) \subseteq work \ db

\* Why RequestsAreAtomic holds with one worker: whoever reaches commit does so
\* in the transaction its statements ran in, which nothing failed in; the only
\* others that left rows there are groups without members and users, both whole.
AtomicInv ==
    /\ rollbackOnly => tx = "aborted"
    /\ tx = "aborted" \/ pending = {} \/ \E w \in Workers : pc[w] = "flush"
    /\ \A w \in Workers : Alone(w)
    /\ tx = "open" =>
          /\ \A g \in Of(work \ db, "groups") :
                \/ Memberships(work \ db, g.id) \in Lists(MemberLists, g.id)
                \/ \E w \in Workers : Naming(w) /\ job[w].row = g
          /\ \A m \in Of(work \ db, "user_groups") : HasGroup(work \ db, m.group)
=============================================================================
