-------------------------------- MODULE Javka --------------------------------
(***************************************************************************)
(* The server: Workers run the handlers of SignUp, Files and Groups over   *)
(* one PersistenceUnit; the process may crash and start again on the same  *)
(* database and the same storage directory.                                *)
(***************************************************************************)
EXTENDS SignUp, Files, Groups

CONSTANTS
    Registered,   \* users of an earlier life of the server: <<[name, password], ...>>
    Stored,       \* the files of that earlier life
    Offered,      \* the operations clients ask for
    MemberLists,  \* the userIds they send when they create a group
    MaxUser,      \* bound: users a client can name (some may not exist)
    MaxGroup,     \* bound: groups a client can name (some may not exist)
    MaxRequests,  \* bound: requests accepted over the whole run
    MaxCrashes    \* bound: crashes over the whole run

Operations == {"signUp", "share", "upload", "folder", "group", "download", "list",
               "groups", "users", "current"}

ASSUME JavkaAssumption ==
    /\ Registered \in Seq([name : Names, password : Passwords])
    /\ \A i, j \in DOMAIN Registered : Registered[i].name = Registered[j].name => i = j
    /\ Stored \subseteq FileRow
    /\ \A r, s \in Stored : r.id = s.id => r = s
    /\ \A r \in Stored : r.fits /\ r.creator \in DOMAIN Registered
    /\ Offered \subseteq Operations
    /\ MemberLists \subseteq Seq(Nat)
    /\ MaxUser \in Nat /\ MaxGroup \in Nat
    /\ MaxRequests \in Nat /\ MaxCrashes \in Nat

VARIABLES
    used,      \* UUIDs drawn so far
    asked,     \* history: the share requests accepted so far
    accepted,  \* how many requests were accepted
    crashes    \* how many times the process died

clients == <<used, asked, accepted, crashes>>
vars == <<conn, unit, pc, job, acked, nextUser, tokens, disk, nextGroup, clients>>

Init ==
    /\ db = {User(i, Registered[i]) : i \in DOMAIN Registered} \cup Stored
    /\ work = db
    /\ tx = "none" /\ rollbackOnly = FALSE
    /\ pending = {} /\ context = {}
    /\ pc = [w \in Workers |-> "idle"] /\ job = [w \in Workers |-> NoJob]
    /\ hurt = FALSE /\ lost = {} /\ acked = {}
    /\ nextUser = Len(Registered) + 1
    /\ tokens = {[uid |-> i, name |-> Registered[i].name,
                  hash |-> Hash(Registered[i].password)] : i \in DOMAIN Registered}
    /\ disk = [f \in FileIds |-> IF \E r \in Stored : r.id = f /\ ~r.folder
                                THEN "complete" ELSE "absent"]
    /\ nextGroup = 1
    /\ used = {r.id : r \in Stored}
    /\ asked = {} /\ accepted = 0 /\ crashes = 0

----------------------------------------------------------------------------
\* A handler starts: the route has its parameters, SessionModule.userId has
\* the user id out of the token.

Accept(w, op, j, label) ==
    /\ op \in Offered
    /\ pc[w] = "idle" /\ accepted < MaxRequests
    /\ job' = [job EXCEPT ![w] = j]
    /\ pc' = [pc EXCEPT ![w] = label]
    /\ accepted' = accepted + 1
    /\ UNCHANGED <<conn, unit, acked, nextUser, tokens, disk, nextGroup, crashes>>

AcceptSignUp(w) ==
    /\ \E n \in Names, p \in Passwords :
          Accept(w, "signUp", [op |-> "signUp", name |-> n, password |-> p], "findByName")
    /\ UNCHANGED <<used, asked>>

AcceptShare(w) ==
    \E t \in tokens, f \in FileIds :
    \E row \in {UserFile(u, f) : u \in 1..MaxUser} \cup {GroupFile(g, f) : g \in 1..MaxGroup} :
        LET j == [op |-> "share", uid |-> t.uid, row |-> row] IN
        /\ Accept(w, "share", j, "findOne")
        /\ asked' = asked \cup {j}
        /\ UNCHANGED used

\* Mutant: a missing parent becomes the empty string.
NewFileEmptyParent(f, t, parent, folder, fits) ==
    [op |-> "save",
     row |-> [table |-> "files", id |-> f, creator |-> t.uid, folder |-> folder,
              parent |-> IF parent = NoFile THEN "" ELSE parent, fits |-> fits]]

\* new File(randomUUID(), ...), whose id no one has drawn before.
NewFile(f, t, parent, folder, fits) ==
    [op |-> "save",
     row |-> [table |-> "files", id |-> f, creator |-> t.uid,
              parent |-> parent, folder |-> folder, fits |-> fits]]

AcceptUpload(w) ==
    /\ \E t \in tokens, f \in FileIds \ used, parent \in FileIds \cup {NoFile}, fits \in BOOLEAN :
          /\ parent # f
          /\ Accept(w, "upload", NewFile(f, t, parent, FALSE, fits), "saveFile")
          /\ used' = used \cup {f}
    /\ UNCHANGED asked

AcceptFolder(w) ==
    /\ \E t \in tokens, f \in FileIds \ used, parent \in FileIds \cup {NoFile}, fits \in BOOLEAN :
          /\ parent # f
          /\ Accept(w, "folder", NewFile(f, t, parent, TRUE, fits), "isActive")
          /\ used' = used \cup {f}
    /\ UNCHANGED asked

AcceptGroup(w) ==
    /\ \E t \in tokens, members \in MemberLists, fits \in BOOLEAN :
          Accept(w, "group",
                 [op |-> "group", members |-> members,
                  row |-> [table |-> "groups", id |-> 0, creator |-> t.uid, fits |-> fits]],
                 "isActive")
    /\ UNCHANGED <<used, asked>>

AcceptDownload(w) ==
    /\ \E t \in tokens, f \in FileIds :
          Accept(w, "download", [op |-> "download", uid |-> t.uid, file |-> f],
                 "isFileAccessible")
    /\ UNCHANGED <<used, asked>>

AcceptList(w) ==
    /\ \E t \in tokens, dir \in FileIds \cup {NoFile} :
          Accept(w, "list", [op |-> "list", uid |-> t.uid, dir |-> dir], "list")
    /\ UNCHANGED <<used, asked>>

\* The list of users is the one route besides signUp that wants no token.
AcceptUsers(w) ==
    /\ Accept(w, "users", [op |-> "users", uid |-> 0], "query")
    /\ UNCHANGED <<used, asked>>

AcceptQuery(w) ==
    /\ \E t \in tokens, op \in {"groups", "current"} :
          Accept(w, op, [op |-> op, uid |-> t.uid], "query")
    /\ UNCHANGED <<used, asked>>

Request(w) ==
    \/ AcceptSignUp(w) \/ AcceptShare(w) \/ AcceptUpload(w) \/ AcceptFolder(w)
    \/ AcceptGroup(w) \/ AcceptDownload(w) \/ AcceptList(w)
    \/ AcceptUsers(w) \/ AcceptQuery(w)

----------------------------------------------------------------------------
Handle(w) ==
    \/ UserStep(w) /\ UNCHANGED <<disk, nextGroup, clients>>
    \/ FileStep(w) /\ UNCHANGED <<nextUser, tokens, nextGroup, clients>>
    \/ GroupStep(w) /\ UNCHANGED <<nextUser, tokens, disk, clients>>

\* The process dies and Main builds everything anew.  Committed rows, blobs,
\* sequences and the tokens out there survive; an open transaction does not.
Crash ==
    /\ crashes < MaxCrashes
    /\ crashes' = crashes + 1
    /\ work' = db /\ tx' = "none" /\ rollbackOnly' = FALSE /\ hurt' = FALSE
    /\ pending' = {} /\ context' = {}
    /\ pc' = [w \in Workers |-> "idle"] /\ job' = [w \in Workers |-> NoJob]
    /\ UNCHANGED <<db, lost, acked, nextUser, tokens, disk, nextGroup,
                   used, asked, accepted>>

Next == Crash \/ \E w \in Workers : Request(w) \/ Handle(w)

Spec == Init /\ [][Next]_vars

\* A dispatcher thread that runs a handler keeps running it.
FairSpec == Spec /\ \A w \in Workers : WF_vars(Handle(w))
=============================================================================
