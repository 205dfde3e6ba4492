------------------------------- MODULE MCJavka -------------------------------
(***************************************************************************)
(* Javka on small instances.  A name or a password is a number: its own    *)
(* length.                                                                 *)
(***************************************************************************)
EXTENDS JavkaProperties, TLC

CONSTANTS f1, f2, w1, w2, w3

MCLength == [n \in Names \cup Passwords |-> n]

\* Users of an earlier life of the server.
Two == <<[name |-> 7, password |-> 8], [name |-> 9, password |-> 8]>>
One == <<[name |-> 7, password |-> 8]>>

\* A file of user 1 from that life.
File1 == [table |-> "files", id |-> f1, creator |-> 1, parent |-> NoFile,
          folder |-> FALSE, fits |-> TRUE]
OneFile == {File1}

\* userIds of a new group: none, a user, a repeated one, one unknown.
MCMembers == {<<>>, <<2>>, <<2, 2>>, <<2, 3>>}
\* Lists none of which is a part of another one's known members.
MCWhole == {<<>>, <<1, 3>>, <<1, 2>>}
NoMembers == {}
NoFiles == {}

WorkerSymmetry == Permutations(Workers)
=============================================================================
