# A TLA+ model of Javka

Javka is a small file-sharing server: users sign up, upload files, arrange them
in folders, share them with users or groups, and download what was shared with
them. It is Java on Akka HTTP, with Hibernate over PostgreSQL for the metadata
and a directory for the bytes, with a Vue page served from the same process.
This directory holds a TLA+ model of it, the TLC runs that check the model on
small instances, and TLAPS proofs of its main properties for instances of every
size.

Paths below are relative to `src/src/main/java/ru/naumen/javka/`; `schema.sql`
and `application.conf` are in `src/src/main/resources/`, the page in
`src/src/main/resources/static/js/`.

## The system

`Main` builds everything once: one `DbComponent`, whose constructor creates
**one** `EntityManager`; one `RepositoryComponent`, which hands that same object
to the three repositories; services; HTTP modules; the server. Route handlers
run on the threads of Akka's dispatcher and call the services directly. So all
requests share one first-level cache, one queue of pending INSERTs, one database
connection and one `EntityTransaction`. The bracket every writing repository
method uses,

    if (!transaction.isActive()) transaction.begin();
    ...
    transaction.commit();

has no `catch` and no `rollback`. Whatever a request opens, fails in, or commits
is everybody's. Nearly everything that is hard in this program follows from that.

| Component | State | Operations | Hard part | What makes it correct |
|---|---|---|---|---|
| Schema (`schema.sql`) | rows of six tables | constraints on INSERT; the access predicate of the file queries | one foreign key is cut off by a semicolon | parents are files (they are not) |
| Persistence unit (`components/DbComponent`, `RepositoryComponent`) | committed rows, the open transaction, its mark, queue, cache | isActive, begin, statement, persist, flush, refresh, find, commit | shared by all threads; nothing rolls back | confirmed rows are stored; rollbacks have a reason; transactions end |
| Sign-up (`services/SignUpSeviceImpl`, `repositories/UserRepositoryImpl`) | users, their sequence | `signUp`: validate, look up, log in or insert | no transaction of its own; two sign-ups of one name; rollback after the token went out | a token never stands for another user |
| Sessions (`session/StatelessSessionManager`, `http/modules/SessionModule`) | none: the token carries id, time and age | `session`, `userId` | expiry boundary, clock | as above; expired tokens are refused |
| Files (`services/FileServiceImpl`, `repositories/FileRepositoryImpl`) | files and shares | upload, folder, share with user or group, download, list | two stores and no transaction over both; check, lookup and read in separate steps; stale cache | no row without its blob; bytes only for those the creator meant |
| Blob storage (`storage/LocalFileStorage`) | one blob per id | `saveFile`, `getFile` | I/O error or crash half-way | as above |
| Groups (`services/GroupServiceImpl`, `repositories/GroupRepositoryImpl`) | groups, members, their sequence | `createGroup`, `getUserGroups` | two INSERTs around which others may commit; a group without members never reaches its commit; the LEFT JOIN of the list | confirmed groups have their members; no transaction left behind; everybody is listed their groups |
| User list (`services/UserServiceImpl`) | none | `getAll`, `get` | statements on the shared connection | as the persistence unit |
| Hex codec (`utils/ByteUtils`) | none | `encodeHexString`, `hexStringToByte` | signed bytes, odd lengths, other characters | sessions come back as they went out |
| HTTP modules (`http/modules`) | none | one route per operation | - | every request is answered |
| Front end (`static/js/app.*.js`, with Vue, Vuex and axios) | session, tab, folder, four lists | login, tabs, open and close a folder, create | answers late, overtaken or lost | what the latest answer shows; spinners end |
| HTTP server, liveness, static files, configuration, exceptions | none | - | - | not modelled |

The hazards are listed line by line in `PROJECT.json`, with the properties that
watch over each.

## The modules

| Module | Models | Lines of code it stands for |
|---|---|---|
| `Schema` | rows, constraints, the access predicate; no state | `schema.sql`; the queries of `FileRepositoryImpl` 44-94 |
| `PersistenceUnit` | the shared EntityManager and its connection | `DbComponent`, `RepositoryComponent`; Hibernate, pgjdbc and PostgreSQL as the code uses them |
| `SignUp` | login and registration, the user list | `SignUpSeviceImpl` 24-50, `UserRepositoryImpl` 18-36, `UserServiceImpl` |
| `Files` | upload, folder, share, download, list; the blobs | `FileServiceImpl` 26-73, `FileRepositoryImpl` 18-106, `LocalFileStorage` |
| `Groups` | creating a group, listing a user's | `GroupRepositoryImpl` |
| `Javka` | requests, the composition, crashes | `http/modules`, `Main` |
| `SharingService` | what a client would expect of the store, without transactions or threads | (abstract) |
| `SharedStore` | what is left of that when many requests share one transaction | (abstract) |
| `JavkaProperties` | types, properties, inductive invariants | - |
| `Session` | tokens against a clock | `StatelessSessionManager` |
| `HexCodec` | hex digits of a session's bytes, loop step by loop step | `ByteUtils` |
| `WebClient` | the page | `app.1da22a51.js`; axios, Vue and Vuex in `chunk-vendors.*.js` as it uses them |
| `MCJavka`, `MCWebClient`, `MCHexCodec` | instances for TLC (`Session` needs none) | - |
| `Javka_proofs`, `Durability_proofs`, `Blob_proofs`, `Access_proofs`, `Service_proofs` | theorems about `Javka` | - |
| `Session_proofs`, `HexCodec_proofs`, `WebClient_proofs` | theorems about the others | - |

`SignUp`, `Files` and `Groups` extend `PersistenceUnit`, which extends `Schema`;
`Javka` extends the three and joins their steps in `Handle(w)`. `JavkaProperties`
instantiates `SharingService` with `stored <- db` and `told <- acked`, and
`SharedStore` with `gone <- lost` as well. `Session`,
`HexCodec` and `WebClient` stand alone: the server sees a session only as the
identity it was issued to, and the page sees the server only through answers.

### State and steps: the server

A worker is a thread of the dispatcher. `job[w]` is the request it runs and
`pc[w]` the call it is about to make, named after it: `isActive`, `begin`,
`insertShare`, `commit`, `flush` and so on. **One call on the EntityManager or
the disk is one step**, together with the Java code up to the next call; steps
of different workers interleave freely. That is the granularity at which the
code can be interrupted by another request (see the assumptions below for what
is finer).

| Variable | In the code |
|---|---|
| `db` | committed rows in PostgreSQL |
| `work` | what the one connection sees: `db` and the effects of its open transaction |
| `tx` | no transaction, an open one, or one the server aborted after a failed statement |
| `rollbackOnly` | the mark of the `EntityTransaction` |
| `pending`, `context` | queued INSERTs and managed `File` entities of the EntityManager |
| `nextUser`, `nextGroup` | the sequences of the `serial` columns, which never go back |
| `tokens` | the sessions clients hold; a token remembers for whom it was issued |
| `disk` | the blob of each id: absent, partly written, complete |
| `used` | the UUIDs `randomUUID` has drawn |
| `accepted`, `crashes` | counters, for the bounds |
| `hurt`, `lost`, `acked`, `asked` | history variables: no guard of a handler reads them |

`Init` is a server that starts on the database of an earlier life: `Registered`
users, who still hold their tokens, and `Stored` files. `Crash` may happen
between any two steps; committed rows, blobs, sequences and tokens survive,
the open transaction and everything in memory does not.

Data is abstracted to what the code tells apart. A file's name and description
and a group's name are reduced to whether they fit their columns (`fits`), a
path to whether the entry is a folder, a name or a password in the TLC runs to
its length. A client may name any user or group id up to a bound,
existing or not, and any UUID. Bytes of files are not modelled beyond whether
they are all there.

### State and steps: sessions, the codec, the page

`Session` counts time in ticks (milliseconds in the code) and cuts it to seconds
as `currentSeconds` does. A token is the user, the second of issue, the age and
the secret it was encrypted with; `userId` is the predicate `Accepts`. Steps are:
a session is issued, time passes, the machine's clock is set (it is never wrong
by more than `Skew`), the server restarts with a secret and an age of the
configuration. The history fields `born` and `read` and the variable `time` are
the true time, which no code sees.

`HexCodec` runs `encodeHexString` on an array and `hexStringToByte` on the
result, or the latter on any text, one loop iteration per step, with the two
exceptions. A character is the value of `Character.digit` and whether it is the
one `Character.forDigit` writes, so capital letters and digits of other scripts
are one kind of character.

`WebClient` has one action per method a click runs, and one for an answer that
arrives. A click takes its parameters from the state as it is, sends its
requests and returns; `Serve` lets the server act and fixes the answer, `Lose`
turns a request or its answer into an error (a refusal, a broken connection),
`Deliver` is the continuation in the page. Requests in flight are a set, so
answers come in any order. `shown` holds what the components display: `null`
and `undefined` (both the spinner) or a list, which remembers what was asked
for. `newest` is history: the number of the latest list request of each view.
The server is reduced to what its answers hold: an item is listed to its owner
in its folder. `Elsewhere` is another page of the same user.

### What is assumed of the libraries

The versions are those of `build.gradle` (Hibernate EntityManager 4.2.1, Spring
Data JPA 1.0.2, pgjdbc 42.2.5). What they do is modelled from the way the code
calls them, nondeterministically where it depends on timing:

- A call on the EntityManager is atomic. It is not thread-safe, and what two
  threads inside it at once do to its internal maps is outside the model.
- `begin()` on an active transaction throws; the rollback-only mark may be
  cleared before it does.
- `executeUpdate` and `flush` without a transaction throw. A native INSERT with
  RETURNING, run as a query by `getSingleResult`, needs none and commits at once.
- A failed statement aborts the server's transaction and marks Hibernate's.
  Every later statement fails until that transaction ends.
- `commit()` throws without a transaction; if the transaction is marked, or its
  flush fails, it rolls back and throws, and the EntityManager may or may not be
  cleared; if the server has aborted it and the mark is gone, the server turns
  COMMIT into ROLLBACK and the driver reports success.
- A flush that fails keeps its queue. `refresh` of an entity that was detached
  throws; of one whose row is missing it throws and marks the transaction.
- `findOne` is answered from the first-level cache when it can be. A query for
  `File` entities flushes first when a transaction is open, and caches its rows.
- `setParameter(0, ...)` on a statement without `?0` throws before any SQL runs
  and marks nothing. `getSingleResult` without a row throws and marks nothing.
- UUIDs do not repeat, SHA-1 of password and salt is injective.
- AES is perfect: a token is read with its own secret and with no other.
- Vue mounts a component when it is first shown and calls `activated()` whenever
  a kept-alive one is shown; axios answers or fails once per request.

## Properties and runs

Safety properties are invariants or `[][...]_vars` action properties, those of
the server in `JavkaProperties`, the others in their modules. Deadlock is not
checked where everything may be done: a server whose `MaxRequests` requests are
answered, a page whose clicks are used up, a text that is decoded. `Session`
never stops, and there it is checked.

| Run (cfg) | Instance | Checks | Distinct states |
|---|---|---|---|
| `files` (MCFiles) | 2 workers, 2 users, 1 stored file, 2 ids, 3 requests, 1 crash | `TypeOK`, `RowHasBlob`, `AccessAuthorised` | 171 thousand |
| `shared` (MCShared) | 3 workers, 1 user, 1 stored file, 2 ids, 5 requests, 1 crash | `AckDurable`, `AbandonedTransaction`, `RollbackAfterFailure`, `OnlyRestartRecovers` | 785 thousand |
| `sign_up` (MCSignUp) | 2 workers, names of 4, 7, 9 and 101, passwords of 5, 6 and 8 characters, 3 requests, 1 crash | `TokenMatchesUser`, `OnlyRestartRecovers` | 90 thousand |
| `groups` (MCGroups) | 2 workers, 2 users, member lists `<<>>`, `<<2>>`, `<<2, 2>>`, `<<2, 3>>`, 4 requests, 1 crash | `AccessAuthorised`, `AckDurable`, `AbandonedTransaction`, `GroupsListed`, `ImplementsSharedStore` | 1.1 million |
| `answered` (MCAnswered) | 2 workers, 2 requests, 1 crash, fairness, no symmetry | `Answered` | 19 thousand |
| `one_worker` (MCOneWorker) | 1 worker, all ten operations, 4 requests, 1 crash | `RequestsAreAtomic` | 480 thousand |
| `client` (MCWebClient) | 2 people, 1 folder, 4 clicks, 1 failure, 1 change elsewhere, fairness | `TypeOK`, `FreshView`, `SpinnerAwaits`, `DeadEnd`, `SpinnerEnds` | 1.0 million |
| `session` (MCSession) | 1 session, ages 0 and 2 s, 4 ticks a second, clock off by up to 2, 20 ticks, 2 secrets | `TypeOK`, `LivesItsAge`, `ExpiredStaysExpired` | 76 thousand |
| `hex` (MCHexCodec) | up to 2 bytes of 6 values, any text of up to 4 of 6 characters | `TypeOK`, `RoundTrip`, `Spells` | 6 thousand |
| `parent` (MCParent) | folders only | `ParentIsFile`, refuted | - |
| `lengths` (MCLengths) | sign-ups only | `LengthsExceedMinimum`, refuted | - |
| `client_heading` (MCHeading) | 1 person, no failure | `HeadingMatchesList`, refuted | - |

What they show:

- **`RowHasBlob`**: wherever a file's row turns up (committed, in the open
  transaction, queued, cached) its blob is complete. It depends on the order in
  `addFile`, on ids being drawn once, and on a failed write never reaching `save`;
  stale queued INSERTs that a later request flushes do not break it.
- **`AccessAuthorised`**: a handler about to read a file's bytes does so for its
  creator or for someone the creator asked to share it with, directly or through
  a group that had this member. Uncommitted and rolled-back shares do grant
  access for a while, but only ones the creator asked for.
- **`AckDurable`**: a row a client was told is stored is in the database or among
  the rows a rollback threw away. It is as much as the code gives: with three
  workers a client can be told 200 for a row another request's rollback removed
  (its commit then ends an empty transaction someone else began).
- **`RollbackAfterFailure`**: that only happens after something failed. Requests
  that interleave in one transaction and all succeed lose nothing.
- **`AbandonedTransaction`**: when no handler runs, a transaction is open only if
  something failed in it, or `createGroup` without members left it.
- **`OnlyRestartRecovers`**: once the transaction is aborted and no handler is
  about to commit it, it stays aborted until the process restarts. Nothing is
  stored, nobody logs in. A duplicate share, or an unknown member in a group,
  is enough. The property describes what the code does; it is not a promise
  anyone made.
- **`TokenMatchesUser`**: the user stored under a token's id is the one the token
  was issued to, although registration may ride on a transaction of another
  request and be rolled back with it after the token was handed out: the
  sequence never gives the id out again.
- **`GroupsListed`**: `getUserGroups` lists a group for its creator, also one
  that another request's commit made durable without its members, and for each
  member exactly once. Its creator gets it once per member: DISTINCT is missing,
  and nothing in the repository says whether it should be there.
- **`Answered`**: no handler waits for another, so every request is answered.
- **`RequestsAreAtomic`**: with one handler at a time, the server implements
  `SharingService`: a request is all or nothing, and 200 is answered in the
  moment its rows become durable, through failures and a crash. The refinement
  needs the one worker. With two, a share that commits between the two INSERTs of
  `createGroup` makes a group durable without its members; and a commit that
  finds a fresh transaction, begun by another after a rollback, confirms rows that
  are gone.
- **`ImplementsSharedStore`**: what is left of that with any number of workers.
  The server implements `SharedStore`: whatever requests make of each other's
  transactions, what is stored stays and meets the constraints of the schema;
  rows that a rollback takes were never stored; clients hear of rows that are
  stored or of rows that were lost; and a group's members turn up all together,
  with the group or after it, never in part.
- **`LivesItsAge`**: a session is accepted for its age and for less than a second
  more (and what the clock is wrong at either end): cutting both ends to seconds
  and refusing only with `>` takes nothing away from it.
- **`ExpiredStaysExpired`**: a refused session is refused for good under the same
  secret, through restarts with any age, unless the clock goes back.
- **`RoundTrip`**, **`Spells`**: signed bytes come back as they went out; any
  text is decoded to the bytes it spells, or refused for its length or for a
  character that is no digit.
- **`FreshView`**: a view that shows the answer to its latest request shows the
  folder that is open and everything in it the page saw confirmed, whatever was
  clicked meanwhile. It depends on every confirmation and every change of folder
  asking again, with the folder that is current then.
- **`SpinnerEnds`**: unless a request fails, a spinner ends in a list.
- **`SpinnerAwaits`** is its safety half: while nothing has failed, the spinner of
  the files is there only with the latest list request under way, and that
  request asks for the folder that is open. `SpinnerEnds` adds that it arrives.
- **`DeadEnd`** describes what a failure does: when the list of the root has
  failed, nothing in the page brings it back (the forms are only there with a
  list, the root has no way back, the kept-alive tab does not load again).
- **`HeadingMatchesList`** is refuted: the heading names the open folder, but the
  list is whatever answer came last. Open a folder and close it again: when the
  first answer comes second, the folder's contents stand under its parent's name.
- **`ParentIsFile`** is refuted: `schema.sql` lines 31-32 mean to make a file's
  parent a file, but the semicolon of line 30 ends the statement before them, and
  there is no column `parent`. A folder with an unknown parent is stored.
- **`LengthsExceedMinimum`** is refuted: the messages of `signUp` say the lengths
  must exceed 6 and 5; the code accepts exactly 6 and exactly 5.

The interesting cases do occur in these instances. The following were checked to
be reachable: a confirmed row that a rollback removed, a healthy transaction left
behind by a group without members, an aborted one with no handler running, a
queued INSERT left over while nobody runs, a group committed without its members,
a download through a group, a token whose user's row is gone, a cached file
without a row, and an aborted transaction whose mark a failing `begin()` cleared.

### Bounds

`MaxRequests` and `MaxCrashes` bound the run, `MaxUser` and `MaxGroup` the ids a
client can name (one more than exist, so that some do not), `FileIds` the
UUIDs that can be drawn. Two workers show every race of two requests; the lost
confirmation needs three (one that fails, one that rolls back, one that began
anew), hence the third worker of `shared`. Three requests suffice for a request
that fails and two that meet what it left behind; five give the three workers of
`shared` a second turn. One crash lets the server start again on what is left.
`one_worker` offers all operations, for 4 requests: a failure, what it left, a
request in between and a crash. In the page four clicks are a login, a folder
opened, closed and something created, with all their answers overtaking one
another; one failure is enough for `DeadEnd`. The session's 20 ticks are five
seconds for an age of two, so every session of the instance can expire and the
clock still be set. The codec's bytes are those around the limits of a nibble
and the sign. Where a property is also a theorem, no bound applies to it. Workers are
interchangeable and symmetric in the safety runs; the liveness run uses no symmetry.

### Fairness

`FairSpec` adds `WF_vars(Handle(w))` for each worker: a dispatcher thread that
runs a handler keeps running it, which is what the operating system and Akka's
executor give. Nothing is assumed of clients or crashes. The handlers have no
loops and no locks, so weak fairness is enough.

In `WebClient`, `FairSpec` adds weak fairness of `Serve` and of `Deliver`, each
for the requests in flight as a whole: the server or the network ends every
request in an answer or an error (a timeout included), and the browser's event
loop gets to the continuations. As long as any request is in flight one of the
two steps is possible, and every step moves a request on, so each of the finitely
many requests of an instance is brought to its end. Nobody has to click.

## Proofs

All hold for every value of the constants under the modules' assumptions:
`SchemaAssumption` (ids and NULL are distinct, lengths are naturals),
`JavkaAssumption` (the earlier life left what the schema lets it leave: distinct
names, distinct ids, names that fit, known creators), `SessionAssumption` (a second has ticks, numbers are naturals),
`CodecAssumption` and `ClientAssumption` (arrays of bytes, folders that exist).
TLC evaluates each of them in the runs.

| Theorem | Statement | Argument |
|---|---|---|
| `TypeCorrect` (`Javka_proofs`) | `Spec => []TypeOK` | `TypeOK` is inductive |
| `AckInvariant`, `Durable` (`Durability_proofs`) | `Spec => []AckDurable` | `AckDurable` alone is not inductive: a commit confirms whatever the worker carries. `AckInv` adds that a worker at its commit (or between the two INSERTs of `createGroup`) has its rows in `work` or `lost`, that `db` is part of `work`, and that they agree without a transaction |
| `LostAfterFailure` | `Spec => RollbackAfterFailure` | `HurtInv`: an abort or a mark has a failure behind it |
| `PoisonLasts` | `Spec => OnlyRestartRecovers` | by cases on the steps: only a commit or a crash ends an aborted transaction, and no step short of a live transaction reaches a commit |
| `TxInvariant`, `NothingElseAbandons` | `Spec => []AbandonedTransaction` | `TxInv`: while a transaction is open and nothing failed in it, some worker is at a call after which it commits, fails or enters members (`Ends`), or a group has no members. A worker at `flush` or `refresh` counts only while its entity is managed: otherwise it leaves without a trace, but then the transaction is another's |
| `BlobInvariant`, `BlobBeforeRow` (`Blob_proofs`) | `Spec => []RowHasBlob` | `BlobInv` adds that the ids of rows and of saves under way are drawn, that no two saves share one, and that the id of an upload in progress is the id of no row. Most steps only move rows between the four places (`Moves`) |
| `AccessInvariant`, `OnlyThoseMeant` (`Access_proofs`) | `Spec => []AccessAuthorised` | `AccessInv`: an id belongs to one file, wherever and whenever it turns up, so the creator a share was checked against is still the creator when the row is used; every share in `work` was asked for by that creator; what a download was allowed to read, it is allowed to read while it runs, since rows only move to `lost` |
| `TokenInvariant`, `TokensStandForTheirUsers` | `Spec => []TokenMatchesUser` | `TokenInv`: the sequence is ahead of all ids in rows and tokens, and no rollback sets it back |
| `GroupsAreListed` | `Spec => []GroupsListed` | from the types, and from 0 (the NULL of the join) being nobody's id |
| `StoreInvariant`, `SharedStoreImplemented` (`Service_proofs`) | `Spec => ImplementsSharedStore` | every step is a `Store`, a `Discard` or leaves `db`, `lost` and `acked` alone. `StoreInv` says why a commit is a `Store`: the rows of `work` are lawful among each other at all times, so whenever they become durable the database stays lawful; and a group's members are entered once, because the id that `InsertGroup` drew is named by no other worker between the two INSERTs, and by nobody after them |
| `AtomicInvariant`, `OneWorkerIsAtomic` | `OneWorker => (Spec => RequestsAreAtomic)` | `OneWorker` says that `Workers` has at most one member. Then `Alone(w)` holds: at each call of the bracket the transaction is the one the worker's own statements ran in, nothing failed in it, and its rows are not yet in `db`, so the commit makes them durable in the step that confirms them. `AtomicInv` adds what earlier requests can have left in that transaction: groups with no members, users, and no stale INSERT that a flush would still run. With `StoreInv` each step is a `Serve` or a stutter |
| `SessionTypes`, `SessionLivesItsAge`, `RefusedForGood` (`Session_proofs`) | `TypeOK`, `LivesItsAge`, `ExpiredStaysExpired` | `TypeOK` says how far the second in a token may be from the time of issue; the rest is arithmetic of truncation |
| `CodecInvariant`, `CodecTypes`, `TextsAreSpelled`, `SessionsComeBack` (`HexCodec_proofs`) | `TypeOK`, `Spells`, `RoundTrip` | `CodecInv`: as far as a loop has come, text and bytes spell each other; two bytes with the same digits are the same |
| `PageTypes`, `LatestRequest`, `LatestIsFresh` (`WebClient_proofs`) | `TypeOK`, `FreshView` | `FreshInv`: the latest list request of a view asks for the folder that is open, and its answer holds all that had been confirmed; whatever makes that untrue sends a later request |
| `SpinnersAwaitAnswers` | `Spec => []SpinnerAwaits` | `SpinnerInv` adds that without a failure no request is an error: a list request leaves the net only when its answer arrives, and the answer to the latest one ends the spinner; whatever starts a spinner sends a request for the new folder |
| `FailedRootStays` | `DeadEnd` | by cases on the clicks and answers |

The inductive invariants were checked by TLC before they were proved.

The two refinements rest on lemmas about the tables, which are stated without
any state of the server: what a row that the constraints accept does to a lawful
table (`LawfulGrows...`), to the memberships of a group, and to what may be
committed later. `StoreConn` carries them to the connection, step kind by step
kind (a row written, a failure, a commit, a rollback), and each handler is then
one of those kinds.

Only model-checked: `Answered` and `SpinnerEnds`, since liveness under fairness
is beyond the proof system. Every safety property that a passing run checks is a
theorem.

## Not modelled

- Routing, JSON, error texts, logging, configuration, the serving of the static
  files, the exception classes: no state, and no branch a property is about.
- In the page: shares and downloads (their answers change nothing in it), the
  fields of the forms, layout. A second login while a first is under way
  replaces the session of a page that shows the first user's lists; the model
  has it, and no property speaks of it.
- `chunk-vendors.*.js` is third-party code; only what the page needs of axios,
  Vue and Vuex is modelled. The two scripts are minified into 23 lines of
  code, of which the model translates four (the application's code is all on
  line 1 of `app.*.js`; sending a request, its end, and the activation of a
  component are on lines 1, 7 and 13 of the other). The rest is rendering,
  routing and polyfills, which nothing here is a translation of. The Java code
  and `schema.sql` are mapped throughout.
- Data races inside the EntityManager (see the assumptions), and the growth of
  its cache and queue.
- The width of ids (`long` in the routes, `int` in the tables): an id no row has
  fails either way. Overflow of seconds in `long`.
- Cryptography: a token that is not one of the server's is refused or cannot be
  read, which is all `Accepts` says of it.

## Plan

Done, in this order: `Schema`, `PersistenceUnit`, `Files`, `SignUp`, `Groups`,
`Javka` and its properties; `SharingService`, `SharedStore` and their
refinements; `Session`, `HexCodec`, `WebClient`; theorems for every safety
property the runs check, the refinements included. Next:

1. The composition of `WebClient` with `Javka` in place of its reduced server,
   with the refinement of that reduced server by `Javka`.
2. The safety half of `Answered`: a rank of the calls that every step of a
   handler lowers, as an action property to prove.
