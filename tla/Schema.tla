------------------------------- MODULE Schema -------------------------------
(***************************************************************************)
(* The tables of src/src/main/resources/schema.sql.  A database state is a *)
(* set of rows; a row is a record whose field "table" says where it lives. *)
(* Only the columns the handlers branch on are kept: a file's name and     *)
(* description, and a group's name, are reduced to whether they fit into   *)
(* varchar(100), a path to whether the entry is a folder.                  *)
(***************************************************************************)
EXTENDS Integers, FiniteSets, Sequences

CONSTANTS
    FileIds,    \* UUIDs (File.id, varchar(36))
    NoFile,     \* SQL NULL in files.parent_id
    Names,      \* user names
    Passwords,  \* passwords
    Length      \* String.length() of a name or a password

ASSUME SchemaAssumption ==
    /\ NoFile \notin FileIds
    /\ Length \in [Names \cup Passwords -> Nat]

VarcharLimit == 100

\* SHA-1 of password and salt, taken to be injective: the digest stands for
\* the password it was computed from.
Hash(password) == <<"sha1", password>>
Hashes == {Hash(p) : p \in Passwords}

UserRow      == [table : {"users"}, id : Nat, name : Names, hash : Hashes]
FileRow      == [table : {"files"}, id : FileIds, creator : Nat,
                 parent : FileIds \cup {NoFile}, folder : BOOLEAN, fits : BOOLEAN]
GroupRow     == [table : {"groups"}, id : Nat, creator : Nat, fits : BOOLEAN]
UserFileRow  == [table : {"user_files"}, user : Nat, file : FileIds]
UserGroupRow == [table : {"user_groups"}, user : Nat, group : Nat]
GroupFileRow == [table : {"group_files"}, group : Nat, file : FileIds]

ShareRow == UserFileRow \cup GroupFileRow
Row == UserRow \cup FileRow \cup GroupRow \cup UserGroupRow \cup ShareRow

UserFile(u, f)  == [table |-> "user_files", user |-> u, file |-> f]
GroupFile(g, f) == [table |-> "group_files", group |-> g, file |-> f]
UserGroup(u, g) == [table |-> "user_groups", user |-> u, group |-> g]

HasUser(t, u)  == \E r \in t : r.table = "users" /\ r.id = u
HasFile(t, f)  == \E r \in t : r.table = "files" /\ r.id = f
HasGroup(t, g) == \E r \in t : r.table = "groups" /\ r.id = g

\* The constraints an INSERT of one row has to meet.  users is not here: its
\* one INSERT is ON CONFLICT DO NOTHING (see SignUp).  files.parent_id is not
\* checked: the second half of the ALTER TABLE comes after its semicolon.
Accepts(t, row) ==
    /\ row \notin t
    /\ row.table = "files" => row.fits /\ HasUser(t, row.creator) /\ ~HasFile(t, row.id)
    /\ row.table = "groups" => row.fits /\ HasUser(t, row.creator)
    /\ row.table \in {"user_files", "user_groups"} => HasUser(t, row.user)
    /\ row.table \in {"user_files", "group_files"} => HasFile(t, row.file)
    /\ row.table \in {"group_files", "user_groups"} => HasGroup(t, row.group)

\* A table state PostgreSQL lets stand: every row meets the constraints of its
\* table among the others, and the keys and user names are unique.
Lawful(t) ==
    /\ \A r \in t : Accepts(t \ {r}, r)
    /\ \A r, s \in t :
          r.table = s.table /\ r.table \in {"users", "groups"} /\ r.id = s.id => r = s
    /\ \A r, s \in t : r.table = "users" /\ s.table = "users" /\ r.name = s.name => r = s

\* The members of a group, and what they are when one of lists was entered.
Memberships(t, g) == {m \in t : m.table = "user_groups" /\ m.group = g}
Lists(lists, g) == {{UserGroup(list[i], g) : i \in DOMAIN list} : list \in lists}

\* Mutant: the join of user_groups and group_files lost its ON.
ReachesAnyGroup(t, u, row) ==
    \/ UserFile(u, row.id) \in t
    \/ /\ \E m \in t : m.table = "user_groups" /\ m.user = u
       /\ \E m \in t : m.table = "group_files" /\ m.file = row.id
    \/ row.creator = u

\* The WHERE clause the three file queries share: a direct share, a share
\* with a group the user is a member of, or the user's own file.
Reaches(t, u, row) ==
    \/ UserFile(u, row.id) \in t
    \/ \E m \in t : /\ m.table = "user_groups" /\ m.user = u
                    /\ GroupFile(m.group, row.id) \in t
    \/ row.creator = u

IsFileAccessible(t, u, f) ==
    \E r \in t : r.table = "files" /\ r.id = f /\ Reaches(t, u, r)

\* getDirectoryContent for a directory, getAvailableFiles for NoFile.
Listing(t, u, dir) ==
    {r \in t : r.table = "files" /\ r.parent = dir /\ Reaches(t, u, r)}
=============================================================================
