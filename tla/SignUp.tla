------------------------------- MODULE SignUp -------------------------------
(***************************************************************************)
(* SignUpSeviceImpl.signUp over UserRepositoryImpl: log in a known user,   *)
(* register an unknown one.  Neither statement opens a transaction: both   *)
(* run in whatever transaction another request left on the connection.     *)
(***************************************************************************)
EXTENDS PersistenceUnit

VARIABLES
    nextUser,  \* the sequence behind users.id: never rolled back
    tokens     \* sessions handed out, with the identity they were issued to

SignUpJob == [op : {"signUp"}, name : Names, password : Passwords]

Token == [uid : Nat, name : Names, hash : Hashes]

MinPassword == 6
MinName == 5

User(id, j) == [table |-> "users", id |-> id, name |-> j.name, hash |-> Hash(j.password)]

\* sessionManager.session(id): stateless, nothing but the token keeps it.
Session(id, j) ==
    tokens' = tokens \cup {[uid |-> id, name |-> j.name, hash |-> Hash(j.password)]}

TooShort(j) == Length[j.password] < MinPassword \/ Length[j.name] < MinName

\* The users row findByName returns, as a set.
FindByName(name) == {r \in work : r.table = "users" /\ r.name = name}

\* Mutant: users are looked up in a cache, and the hash is not compared.
LogInFromCache(w) ==
    /\ At(w, "findByName", "signUp")
    /\ LET j == job[w] IN
       \/ /\ TooShort(j) /\ Refuse(w) /\ UNCHANGED tokens
       \/ /\ ~TooShort(j) /\ FindByName(j.name) = {}
          /\ Goto(w, "saveUser") /\ UNCHANGED tokens
       \/ /\ ~TooShort(j)
          /\ \E user \in FindByName(j.name) : Answer(w, {}) /\ Session(user.id, j)
    /\ UNCHANGED <<conn, unit, nextUser>>

\* signUp up to the decision between logging in and registering.
LogIn(w) ==
    /\ At(w, "findByName", "signUp")
    /\ LET j == job[w] IN
       \/ /\ TooShort(j)
          /\ Refuse(w)
          /\ UNCHANGED <<conn, tokens>>
       \/ /\ ~TooShort(j) /\ tx = "aborted"
          /\ Fail /\ Refuse(w)
          /\ UNCHANGED tokens
       \/ /\ ~TooShort(j) /\ tx # "aborted"
          /\ UNCHANGED conn
          /\ \/ /\ FindByName(j.name) = {}
                /\ Goto(w, "saveUser")
                /\ UNCHANGED tokens
             \/ \E user \in FindByName(j.name) :
                   /\ Answer(w, {})
                   /\ IF user.hash = Hash(j.password)
                      THEN Session(user.id, j) ELSE UNCHANGED tokens
    /\ UNCHANGED <<unit, nextUser>>

\* INSERT ... ON CONFLICT (name) DO NOTHING RETURNING id.  The sequence moves
\* whenever the server gets to evaluate the row, stored or not.
SaveUser(w) ==
    /\ At(w, "saveUser", "signUp")
    /\ LET j == job[w] IN
       \/ /\ tx = "aborted"
          /\ Fail /\ Refuse(w)
          /\ UNCHANGED <<nextUser, tokens>>
       \/ /\ tx # "aborted"
          /\ nextUser' = nextUser + 1
          /\ Answer(w, {})
          /\ \/ /\ Length[j.name] > VarcharLimit
                /\ Fail
                /\ UNCHANGED tokens
             \/ /\ Length[j.name] <= VarcharLimit
                /\ FindByName(j.name) # {}
                /\ UNCHANGED <<conn, tokens>>
             \/ /\ Length[j.name] <= VarcharLimit
                /\ FindByName(j.name) = {}
                /\ Write({User(nextUser, j)})
                /\ Session(nextUser, j)
    /\ UNCHANGED unit

\* UserServiceImpl.getAll, for anybody, and get for the token's user, which
\* the cache of User entities may answer without a statement.
ListUsers(w) == Query(w, "users") /\ UNCHANGED <<nextUser, tokens>>

CurrentUser(w) ==
    /\ \/ Query(w, "current")
       \/ At(w, "query", "current") /\ Answer(w, {}) /\ UNCHANGED <<conn, unit>>
    /\ UNCHANGED <<nextUser, tokens>>

UserStep(w) == LogIn(w) \/ SaveUser(w) \/ ListUsers(w) \/ CurrentUser(w)
=============================================================================
