------------------------------- MODULE Groups -------------------------------
(***************************************************************************)
(* GroupServiceImpl over GroupRepositoryImpl: create a group and enter its *)
(* members, as two statements in one bracket.                              *)
(***************************************************************************)
EXTENDS PersistenceUnit

VARIABLE nextGroup  \* the sequence behind groups.id: never rolled back

\* row.id is 0 until the INSERT returned it.
GroupJob == [op : {"group"}, row : GroupRow, members : Seq(Nat)]

Members(j) == {UserGroup(j.members[i], j.row.id) : i \in DOMAIN j.members}

GroupIsActive(w) ==
    At(w, "isActive", "group") /\ IsActive(w, "insertGroup") /\ UNCHANGED nextGroup

GroupBegin(w) ==
    At(w, "begin", "group") /\ Begin(w, "insertGroup") /\ UNCHANGED nextGroup

\* INSERT ... RETURNING id through getSingleResult: unlike executeUpdate it
\* needs no transaction, and without one the group is there at once.
InsertGroup(w) ==
    /\ At(w, "insertGroup", "group")
    /\ LET row == [job[w].row EXCEPT !.id = nextGroup] IN
       \/ /\ tx # "aborted" /\ Accepts(work, row)
          /\ Write({row})
          /\ job' = [job EXCEPT ![w].row = row]
          /\ pc' = [pc EXCEPT ![w] = "insertMembers"]
          /\ UNCHANGED acked
       \/ /\ tx = "aborted" \/ ~Accepts(work, row)
          /\ Fail /\ Refuse(w)
    /\ nextGroup' = IF tx = "aborted" THEN nextGroup ELSE nextGroup + 1
    /\ UNCHANGED unit

\* Mutant: members that cannot be entered are left out silently.
InsertMembersSkips(w) ==
    /\ At(w, "insertMembers", "group")
    /\ Execute(w, {row \in Members(job[w]) : Accepts(work, row)}, TRUE, "commit")
    /\ UNCHANGED <<unit, nextGroup>>

\* addUsersToGroup, one INSERT for all members.  With none there is no ?0 to
\* bind: an IllegalArgumentException before anything reaches the server.
InsertMembers(w) ==
    /\ At(w, "insertMembers", "group")
    /\ LET j == job[w]
           valid == /\ \A i, k \in DOMAIN j.members :
                          i # k => j.members[i] # j.members[k]
                    /\ \A row \in Members(j) : Accepts(work, row)
       IN \/ j.members = <<>> /\ Refuse(w) /\ UNCHANGED conn
          \/ j.members # <<>> /\ Execute(w, Members(j), valid, "commit")
    /\ UNCHANGED <<unit, nextGroup>>

GroupCommit(w) ==
    /\ At(w, "commit", "group")
    /\ Commit(w, {job[w].row} \cup Members(job[w]))
    /\ UNCHANGED nextGroup

ListGroups(w) == Query(w, "groups") /\ UNCHANGED nextGroup

GroupStep(w) ==
    \/ GroupIsActive(w) \/ GroupBegin(w)
    \/ InsertGroup(w) \/ InsertMembers(w) \/ GroupCommit(w)
    \/ ListGroups(w)

----------------------------------------------------------------------------
Of(t, table) == {r \in t : r.table = table}

\* Mutant: an inner join, which has no row for a group without members.
InnerJoin(t, u) ==
    {p \in Of(t, "groups") \X Of(t, "user_groups") :
        p[2].group = p[1].id /\ u \in {p[2].user, p[1].creator}}

\* The rows getUserGroups makes its answer of: groups LEFT JOIN user_groups,
\* then the WHERE clause.  A group without members is joined with a NULL user.
UserGroups(t, u) ==
    LET joined == {p \in Of(t, "groups") \X Of(t, "user_groups") : p[2].group = p[1].id}
        alone  == {<<g, UserGroup(0, g.id)>> : g \in
                      {g \in Of(t, "groups") : \A p \in joined : p[1] # g}}
    IN {p \in joined \cup alone : u \in {p[2].user, p[1].creator}}
=============================================================================
