------------------------------ MODULE SharedStore ------------------------------
(***************************************************************************)
(* What is left of SharingService when many requests run over the one      *)
(* transaction of the server: rows become durable in any company and any   *)
(* order, and a rollback takes with it rows that somebody was told, or     *)
(* will be told, are stored.  Still, what is stored stays, the tables keep *)
(* their constraints, and nobody sees half of a member list.               *)
(*                                                                         *)
(* Javka implements this with any number of workers (JavkaProperties,      *)
(* ImplementsSharedStore).                                                 *)
(***************************************************************************)
EXTENDS Schema

CONSTANTS
    Earlier,      \* the rows the server starts with
    MemberLists   \* the userIds clients send when they create a group

VARIABLES
    stored,  \* the durable rows
    gone,    \* rows that were inserted and rolled back
    told     \* the rows clients were told are stored

Init == stored = Earlier /\ gone = {} /\ told = {}

\* The members of a group come once and together, with the group or later.
MembersTogether(g) ==
    \/ Memberships(stored', g) = Memberships(stored, g)
    \/ Memberships(stored, g) = {} /\ Memberships(stored', g) \in Lists(MemberLists, g)

\* Rows become durable; clients hear of durable rows, or of ones long gone.
Store ==
    /\ stored \subseteq stored' /\ UNCHANGED gone
    /\ Lawful(stored')
    /\ \A g \in stored' : g.table = "groups" => MembersTogether(g.id)
    /\ told \subseteq told' /\ told' \ told \subseteq stored' \cup gone

\* Rows that are not durable are thrown away, and somebody may be told of them.
Discard ==
    /\ gone \subseteq gone' /\ UNCHANGED stored
    /\ (gone' \ gone) \cap stored = {}
    /\ told \subseteq told' /\ told' \ told \subseteq stored \cup gone'

Spec == Init /\ [][Store \/ Discard]_<<stored, gone, told>>
=============================================================================
