------------------------------ MODULE MCHexCodec ------------------------------
(***************************************************************************)
(* HexCodec on bytes around the limits of a nibble and of a byte, and on   *)
(* texts of digits, letters of both cases and a character that is neither. *)
(***************************************************************************)
EXTENDS HexCodec, SequencesExt

MCSources == BoundedSeq({-128, -1, 0, 15, 16, 127}, 2)

MCTexts ==
    BoundedSeq({[digit |-> 0, plain |-> TRUE], [digit |-> 7, plain |-> TRUE],
                [digit |-> 8, plain |-> TRUE], [digit |-> 15, plain |-> TRUE],
                [digit |-> 15, plain |-> FALSE], [digit |-> -1, plain |-> FALSE]}, 4)
=============================================================================
