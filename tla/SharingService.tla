---------------------------- MODULE SharingService ----------------------------
(***************************************************************************)
(* What a client of the server would expect of its store: a request takes  *)
(* effect at once or not at all, what is stored stays, and 200 is answered *)
(* in the moment the rows it speaks of become durable.  There are no       *)
(* transactions, caches, threads or crashes here.                          *)
(*                                                                         *)
(* Javka implements this with one worker (JavkaProperties, run one_worker) *)
(* and only then: see README.                                              *)
(***************************************************************************)
EXTENDS Schema

CONSTANTS
    Earlier,      \* the rows the server starts with
    MemberLists   \* the userIds clients send when they create a group

VARIABLES
    stored,  \* the durable rows
    told     \* the rows clients were told are stored

\* A group comes with all the members one request named, and members only
\* come with their group.
WholeGroups(rows) ==
    /\ \A g \in rows : g.table = "groups" =>
          Memberships(rows, g.id) \in Lists(MemberLists, g.id)
    /\ \A m \in rows : m.table = "user_groups" => HasGroup(rows, m.group)

Init == stored = Earlier /\ told = {}

\* A request takes effect; its client, or that of an earlier request whose
\* rows become durable only now, may never hear of it.
Serve ==
    /\ stored \subseteq stored' /\ told \subseteq told'
    /\ WholeGroups(stored' \ stored)
    /\ Lawful(stored')
    /\ told' \ told \subseteq stored' \ stored

Spec == Init /\ [][Serve]_<<stored, told>>
=============================================================================
