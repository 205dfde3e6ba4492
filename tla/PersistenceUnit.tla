--------------------------- MODULE PersistenceUnit ---------------------------
(***************************************************************************)
(* The one EntityManager of the process, with its one connection to the    *)
(* database.  DbComponent creates it at start-up, RepositoryComponent      *)
(* hands the same object to all three repositories, and every request      *)
(* thread calls it: the transaction it holds belongs to nobody.            *)
(*                                                                         *)
(* Each EntityManager call is one step (see README: "What is assumed of    *)
(* the libraries"); steps of different requests interleave between calls.  *)
(***************************************************************************)
EXTENDS Schema

CONSTANT Workers   \* threads that run request handlers

VARIABLES
    db,            \* committed rows
    work,          \* rows this connection sees: db and what its open transaction did
    tx,            \* "none", "open", or "aborted" (a statement failed on the server)
    rollbackOnly,  \* the EntityTransaction's own mark
    pending,       \* persisted entities whose INSERT is still queued
    context,       \* file entities the EntityManager manages (first-level cache)
    pc, job,       \* what each worker runs, and where it is
    hurt,          \* history: something failed inside the current transaction
    lost,          \* history: rows a rollback threw away
    acked          \* history: rows whose request was answered OK after a commit

conn == <<db, work, tx, rollbackOnly, hurt, lost>>
unit == <<pending, context>>

NoJob == [op |-> "none"]

At(w, label, op) == pc[w] = label /\ job[w].op = op

Goto(w, label) == pc' = [pc EXCEPT ![w] = label] /\ UNCHANGED <<job, acked>>

\* The handler returns; rows is what its 200 answer claims to have stored.
Answer(w, rows) ==
    /\ pc' = [pc EXCEPT ![w] = "idle"]
    /\ job' = [job EXCEPT ![w] = NoJob]
    /\ acked' = acked \cup rows

\* An exception leaves the handler: no catch block rolls anything back.
Refuse(w) == Answer(w, {})

----------------------------------------------------------------------------
\* Statements on the connection.

\* INSERT: lasting at once when no transaction is open (autocommit).
Write(rows) ==
    /\ work' = work \cup rows
    /\ db' = IF tx = "none" THEN work' ELSE db
    /\ UNCHANGED <<tx, rollbackOnly, hurt, lost>>

\* A statement fails: the server aborts the transaction it ran in, and
\* Hibernate marks it.  Outside a transaction nothing is left behind.
Fail ==
    /\ tx' = IF tx = "none" THEN tx ELSE "aborted"
    /\ rollbackOnly' = (rollbackOnly \/ tx # "none")
    /\ hurt' = (hurt \/ tx # "none")
    /\ UNCHANGED <<db, work, lost>>

\* The EntityManager gives up on an entity: the mark, and no SQL error.
Mark ==
    /\ rollbackOnly' = (rollbackOnly \/ tx # "none")
    /\ hurt' = (hurt \/ tx # "none")
    /\ UNCHANGED <<db, work, tx, lost>>

\* executeUpdate, which wants a transaction: TransactionRequiredException.
Execute(w, rows, valid, next) ==
    \/ tx = "none" /\ Refuse(w) /\ UNCHANGED conn
    \/ tx = "open" /\ valid /\ Write(rows) /\ Goto(w, next)
    \/ tx # "none" /\ ~(tx = "open" /\ valid) /\ Fail /\ Refuse(w)

\* The queued INSERTs can be run (or there are none).
Flushable == pending = {} \/ (tx = "open" /\ \A r \in pending : Accepts(work, r))

\* What em.find(File, f) returns: the managed entity if there is one, no
\* matter what became of its row, else the row.
FindOne(f) ==
    {r \in context \cup (IF tx = "aborted" THEN {} ELSE work) :
        r.table = "files" /\ r.id = f}

\* The handlers that only read: a user's groups, all users, the current one.
QueryJob == [op : {"groups", "users", "current"}, uid : Nat]

\* A SELECT of users or groups: no queued INSERT is into their tables, so
\* nothing is flushed first.
Query(w, op) ==
    /\ At(w, "query", op)
    /\ IF tx = "aborted" THEN Fail ELSE UNCHANGED conn
    /\ Answer(w, {})
    /\ UNCHANGED unit

----------------------------------------------------------------------------
\* The transaction bracket every writing repository method has.

\* if (!transaction.isActive()) ...
IsActive(w, body) ==
    /\ Goto(w, IF tx = "none" THEN "begin" ELSE body)
    /\ UNCHANGED <<conn, unit>>

\* ... transaction.begin(), which throws when another thread began first;
\* Hibernate may have cleared the rollback-only mark by then.
Begin(w, body) ==
    /\ \/ /\ tx = "none"
          /\ tx' = "open" /\ rollbackOnly' = FALSE /\ hurt' = FALSE
          /\ Goto(w, body)
          /\ UNCHANGED <<db, work, lost>>
       \/ /\ tx # "none"
          /\ rollbackOnly' \in {rollbackOnly, FALSE}
          /\ Refuse(w)
          /\ UNCHANGED <<db, work, tx, hurt, lost>>
    /\ UNCHANGED unit

\* The server discards the transaction; the EntityManager may be cleared.
Rollback ==
    /\ work' = db
    /\ lost' = lost \cup (work \ db)
    /\ tx' = "none" /\ rollbackOnly' = FALSE
    /\ UNCHANGED db

\* transaction.commit(): of whatever transaction is open by now.  It throws
\* without one, rolls back when marked or when its flush fails, and reports
\* success when the server answers the COMMIT of an aborted transaction
\* whose mark is gone with a silent ROLLBACK (pgjdbc 42.2.5).
Commit(w, effect) ==
    \/ tx = "none" /\ Refuse(w) /\ UNCHANGED <<conn, unit>>
    \/ /\ tx # "none" /\ (rollbackOnly \/ ~Flushable)
       /\ Rollback /\ hurt' = (hurt \/ ~Flushable)
       /\ UNCHANGED unit \/ (pending' = {} /\ context' = {})
       /\ Refuse(w)
    \/ /\ tx = "open" /\ ~rollbackOnly /\ Flushable
       /\ work' = work \cup pending /\ db' = work'
       /\ tx' = "none" /\ pending' = {}
       /\ Answer(w, effect)
       /\ UNCHANGED <<rollbackOnly, hurt, lost, context>>
    \/ /\ tx = "aborted" /\ ~rollbackOnly /\ Flushable
       /\ Rollback
       /\ Answer(w, effect)
       /\ UNCHANGED <<hurt, unit>>
=============================================================================
