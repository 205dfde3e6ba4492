------------------------------- MODULE HexCodec -------------------------------
(***************************************************************************)
(* ByteUtils: the bytes of an encrypted session as hex digits, and back,   *)
(* loop step by loop step.  What is encoded is then decoded, as a client   *)
(* sends back the session it was given; it may also send any other text.   *)
(***************************************************************************)
EXTENDS Integers, Sequences

CONSTANTS
    Sources,  \* byte arrays to encode
    Texts     \* texts to decode that nobody encoded

Byte == -128 .. 127

\* A character is the value Character.digit(c, 16) has, -1 for none, and
\* whether it is the one Character.forDigit gives for it (lower case, ASCII).
Char == [digit : -1 .. 15, plain : BOOLEAN]

ASSUME CodecAssumption == Sources \subseteq Seq(Byte) /\ Texts \subseteq Seq(Char)

VARIABLES
    bytes,    \* the array to encode
    text,     \* the hex string
    decoded,  \* the array decoded
    i,        \* the index of the loop
    pc,       \* "encode", "check", "decode", "done", or "failed"
    origin    \* history: "bytes" or "text", what the run began with

vars == <<bytes, text, decoded, i, pc, origin>>

\* Mutant: the sign is shifted in, no & 0xF.
HighUnmasked(num) == [digit |-> IF num \div 16 >= 0 THEN num \div 16 ELSE -1, plain |-> TRUE]

\* byteToHex: (num >> 4) & 0xF and num & 0xF, of a signed byte.
High(num) == [digit |-> (num \div 16) % 16, plain |-> TRUE]

Low(num) == [digit |-> num % 16, plain |-> TRUE]

\* Mutant: without the cast to byte.
HexToInt(first, second) == first.digit * 16 + second.digit

\* hexToByte: (byte) ((first << 4) + second).
HexToByte(first, second) ==
    LET value == first.digit * 16 + second.digit IN
    IF value > 127 THEN value - 256 ELSE value

Init ==
    /\ i = 0 /\ decoded = <<>>
    /\ \/ bytes \in Sources /\ text = <<>> /\ pc = "encode" /\ origin = "bytes"
       \/ bytes = <<>> /\ text \in Texts /\ pc = "check" /\ origin = "text"

\* encodeHexString, one iteration, and its end.
EncodeByte ==
    /\ pc = "encode" /\ i < Len(bytes)
    /\ text' = text \o <<High(bytes[i + 1]), Low(bytes[i + 1])>>
    /\ i' = i + 1
    /\ UNCHANGED <<bytes, decoded, pc, origin>>

Encoded ==
    /\ pc = "encode" /\ i = Len(bytes)
    /\ i' = 0 /\ pc' = "check"
    /\ UNCHANGED <<bytes, text, decoded, origin>>

\* hexStringToByte: an odd length is an IllegalArgumentException.
CheckLength ==
    /\ pc = "check"
    /\ IF Len(text) % 2 = 1
       THEN pc' = "failed" /\ UNCHANGED decoded
       ELSE pc' = "decode" /\ decoded' = [k \in 1 .. Len(text) \div 2 |-> 0]
    /\ UNCHANGED <<bytes, text, i, origin>>

\* Mutant: the two digits of a byte change places.
DecodeSwapped ==
    /\ pc = "decode" /\ i < Len(text)
    /\ IF -1 \in {text[i + 1].digit, text[i + 2].digit}
       THEN pc' = "failed" /\ UNCHANGED <<decoded, i>>
       ELSE /\ decoded' = [decoded EXCEPT ![i \div 2 + 1] = HexToByte(text[i + 2], text[i + 1])]
            /\ i' = i + 2
            /\ UNCHANGED pc
    /\ UNCHANGED <<bytes, text, origin>>

\* One iteration: toDigit throws for a character that is no hex digit.
DecodeByte ==
    /\ pc = "decode" /\ i < Len(text)
    /\ IF -1 \in {text[i + 1].digit, text[i + 2].digit}
       THEN pc' = "failed" /\ UNCHANGED <<decoded, i>>
       ELSE /\ decoded' = [decoded EXCEPT ![i \div 2 + 1] = HexToByte(text[i + 1], text[i + 2])]
            /\ i' = i + 2
            /\ UNCHANGED pc
    /\ UNCHANGED <<bytes, text, origin>>

Decoded ==
    /\ pc = "decode" /\ i = Len(text)
    /\ pc' = "done"
    /\ UNCHANGED <<bytes, text, decoded, i, origin>>

Next == EncodeByte \/ Encoded \/ CheckLength \/ DecodeByte \/ Decoded

Spec == Init /\ [][Next]_vars

----------------------------------------------------------------------------
\* Every variable has its type: signed bytes, characters, an index.
TypeOK ==
    /\ bytes \in Seq(Byte) /\ text \in Seq(Char) /\ decoded \in Seq(Byte)
    /\ i \in Nat
    /\ pc \in {"encode", "check", "decode", "done", "failed"}
    /\ origin \in {"bytes", "text"}

\* A session comes back as the bytes that went out: what encodeHexString made
\* of any bytes, negative ones too, is decoded without an exception to them.
RoundTrip ==
    origin = "bytes" => pc # "failed" /\ (pc = "done" => decoded = bytes)

\* Every text is decoded to the bytes whose digits it spells, in either case of
\* letters; an exception means that it has an odd length or another character.
Spells ==
    /\ pc = "done" =>
          /\ Len(text) = 2 * Len(decoded)
          /\ \A k \in 1 .. Len(decoded) :
                /\ High(decoded[k]).digit = text[2 * k - 1].digit
                /\ Low(decoded[k]).digit = text[2 * k].digit
    /\ pc = "failed" => Len(text) % 2 = 1 \/ \E k \in 1 .. Len(text) : text[k].digit = -1

----------------------------------------------------------------------------
\* Inductive invariants.

\* The first n bytes of b are spelled in the first 2 * n characters.
Spelled(b, n) ==
    \A k \in 1 .. n : /\ High(b[k]).digit = text[2 * k - 1].digit
                      /\ Low(b[k]).digit = text[2 * k].digit

\* Why Spells and RoundTrip hold: each loop has its prefix right, and what
\* encodeHexString made has digits everywhere and an even length.
CodecInv ==
    /\ pc = "encode" => /\ origin = "bytes" /\ i <= Len(bytes)
                        /\ Len(text) = 2 * i /\ Spelled(bytes, i)
    /\ pc # "encode" /\ origin = "bytes" =>
          Len(text) = 2 * Len(bytes) /\ Spelled(bytes, Len(bytes))
    /\ pc = "check" => i = 0
    /\ pc \in {"decode", "done"} =>
          /\ i % 2 = 0 /\ i <= Len(text)
          /\ Len(text) = 2 * Len(decoded) /\ Spelled(decoded, i \div 2)
    /\ pc = "done" => i = Len(text)
    /\ origin = "bytes" => pc # "failed"
    /\ Spells
=============================================================================
