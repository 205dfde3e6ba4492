----------------------------- MODULE MCWebClient -----------------------------
(***************************************************************************)
(* The page on small instances: two people who may log in, one of them     *)
(* with a folder.                                                          *)
(***************************************************************************)
EXTENDS WebClient

OneFolder == {[view |-> "files", dir |-> Root, owner |-> "ann", folder |-> TRUE, id |-> -1]}
=============================================================================
