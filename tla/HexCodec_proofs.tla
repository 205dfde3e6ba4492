--------------------------- MODULE HexCodec_proofs ---------------------------
(***************************************************************************)
(* Hex digits for every array of bytes and every text, of any length.      *)
(***************************************************************************)
EXTENDS HexCodec, SequenceTheorems, TLAPS

\* A byte has two digits,
LEMMA Digits ==
  ASSUME NEW b \in Byte
  PROVE  /\ High(b) \in Char /\ Low(b) \in Char
         /\ High(b).digit \in 0..15 /\ Low(b).digit \in 0..15
  BY DEF Byte, Char, High, Low

\* which no other byte has,
LEMMA DigitsDetermine ==
  ASSUME NEW b \in Byte, NEW c \in Byte,
         High(b).digit = High(c).digit, Low(b).digit = Low(c).digit
  PROVE  b = c
  <1>. DEFINE p == b \div 16
              q == c \div 16
              r == b % 16
              s == c % 16
  <1>1. /\ p \in -8 .. 7 /\ r \in 0 .. 15 /\ b = 16 * p + r
        /\ q \in -8 .. 7 /\ s \in 0 .. 15 /\ c = 16 * q + s
    BY DEF Byte
  <1>2. p % 16 = q % 16 /\ r = s
    BY DEF High, Low
  <1>. HIDE DEF p, q, r, s
  <1>3. /\ p % 16 = IF p < 0 THEN p + 16 ELSE p
        /\ q % 16 = IF q < 0 THEN q + 16 ELSE q
    BY <1>1
  <1>4. p = q
    BY <1>1, <1>2, <1>3
  <1>. QED BY <1>1, <1>2, <1>4

\* and hexToByte finds the byte two digits belong to.
LEMMA DigitsToByte ==
  ASSUME NEW x \in Char, NEW y \in Char, x.digit # -1, y.digit # -1
  PROVE  /\ HexToByte(x, y) \in Byte
         /\ High(HexToByte(x, y)).digit = x.digit
         /\ Low(HexToByte(x, y)).digit = y.digit
  <1>. DEFINE v == x.digit * 16 + y.digit
  <1>1. x.digit \in 0..15 /\ y.digit \in 0..15
    BY DEF Char
  <1>2. HexToByte(x, y) = IF v > 127 THEN v - 256 ELSE v
    BY DEF HexToByte
  <1>. HIDE DEF v
  <1>3. v \in 0 .. 255 /\ v \div 16 = x.digit /\ v % 16 = y.digit
    BY <1>1 DEF v
  <1>4. CASE v > 127
    <2>1. (v - 256) \div 16 = x.digit - 16 /\ (v - 256) % 16 = y.digit
      BY <1>1, <1>3, <1>4
    <2>2. (x.digit - 16) % 16 = x.digit
      BY <1>1
    <2>. QED BY <1>2, <1>3, <1>4, <2>1, <2>2 DEF Byte, High, Low
  <1>5. CASE ~(v > 127)
    <2>1. x.digit % 16 = x.digit
      BY <1>1
    <2>. QED BY <1>2, <1>3, <1>5, <2>1 DEF Byte, High, Low
  <1>. QED BY <1>4, <1>5

\* One more byte encoded.
LEMMA EncodeStep == TypeOK /\ CodecInv /\ EncodeByte => TypeOK' /\ CodecInv'
  <1> SUFFICES ASSUME TypeOK, CodecInv, EncodeByte PROVE TypeOK' /\ CodecInv'
    OBVIOUS
  <1>. DEFINE h == High(bytes[i + 1])
              l == Low(bytes[i + 1])
  <1>1. /\ bytes \in Seq(Byte) /\ text \in Seq(Char) /\ i \in Nat /\ i < Len(bytes)
        /\ Len(bytes) \in Nat
        /\ text' = text \o <<h, l>> /\ i' = i + 1
        /\ pc = "encode" /\ UNCHANGED <<bytes, decoded, pc, origin>>
    BY LenProperties DEF EncodeByte, TypeOK
  <1>2. /\ origin = "bytes" /\ Len(text) = 2 * i /\ Spelled(bytes, i)
    BY <1>1 DEF CodecInv
  <1>3. bytes[i + 1] \in Byte
    BY <1>1, ElementOfSeq
  <1>4. h \in Char /\ l \in Char
    BY <1>3, Digits
  <1>. HIDE DEF h, l
  <1>5. /\ <<h, l>> \in Seq(Char) /\ Len(<<h, l>>) = 2
        /\ <<h, l>>[1] = h /\ <<h, l>>[2] = l
    BY <1>4
  <1>6. /\ text' \in Seq(Char) /\ Len(text') = 2 * i + 2
        /\ \A k \in 1 .. 2 * i : text'[k] = text[k]
        /\ text'[2 * i + 1] = h /\ text'[2 * i + 2] = l
    <2>. DEFINE t == <<h, l>>
    <2>1. t \in Seq(Char) /\ Len(t) = 2 /\ t[1] = h /\ t[2] = l
      BY <1>5
    <2>. HIDE DEF t
    <2>2. text' = text \o t
      BY <1>1 DEF t
    <2>3. /\ text' \in Seq(Char) /\ Len(text') = Len(text) + Len(t)
          /\ \A k \in 1 .. Len(text) + Len(t) :
                text'[k] = IF k <= Len(text) THEN text[k] ELSE t[k - Len(text)]
      BY <1>1, <2>1, <2>2, ConcatProperties
    <2>4. Len(text') = 2 * i + 2 /\ \A k \in 1 .. 2 * i : text'[k] = text[k]
      BY <1>1, <1>2, <2>1, <2>3
    <2>5. ASSUME NEW d \in 1 .. 2 PROVE text'[2 * i + d] = t[d]
      <3>. DEFINE n == 2 * i + d
      <3>1. n \in 1 .. Len(text) + Len(t) /\ ~(n <= Len(text)) /\ n - Len(text) = d
        BY <1>1, <1>2, <2>1
      <3>. HIDE DEF n
      <3>2. text'[n] = t[n - Len(text)]
        BY <2>3, <3>1
      <3>. QED BY <3>1, <3>2 DEF n
    <2>6. text'[2 * i + 1] = t[1] /\ text'[2 * i + 2] = t[2]
      BY <2>5
    <2>. QED BY <2>1, <2>3, <2>4, <2>6
  <1>7. TypeOK'
    BY <1>1, <1>6 DEF TypeOK
  <1>8. Spelled(bytes, i)'
    <2>. SUFFICES ASSUME NEW k \in 1 .. i'
                  PROVE  /\ High(bytes'[k]).digit = text'[2 * k - 1].digit
                         /\ Low(bytes'[k]).digit = text'[2 * k].digit
      BY DEF Spelled, High, Low
    <2>1. CASE k \in 1 .. i
      <3>1. 2 * k - 1 \in 1 .. 2 * i /\ 2 * k \in 1 .. 2 * i
        BY <1>1, <2>1
      <3>2. text'[2 * k - 1] = text[2 * k - 1] /\ text'[2 * k] = text[2 * k]
        BY <1>6, <3>1
      <3>. QED BY <1>1, <1>2, <2>1, <3>2 DEF Spelled
    <2>2. CASE k = i + 1
      <3>1. 2 * k - 1 = 2 * i + 1 /\ 2 * k = 2 * i + 2
        BY <1>1, <2>2
      <3>. QED BY <1>1, <1>6, <2>2, <3>1 DEF h, l
    <2>3. k \in 1 .. i \/ k = i + 1
      BY <1>1
    <2>. QED BY <2>1, <2>2, <2>3
  <1>. QED BY <1>1, <1>2, <1>6, <1>7, <1>8 DEF CodecInv, Spells

\* The end of the first loop, and the array made ready for the second.
LEMMA PrepareStep == TypeOK /\ CodecInv /\ (Encoded \/ CheckLength) => TypeOK' /\ CodecInv'
  <1> SUFFICES ASSUME TypeOK, CodecInv, Encoded \/ CheckLength PROVE TypeOK' /\ CodecInv'
    OBVIOUS
  <1>0. text \in Seq(Char) /\ Len(text) \in Nat /\ bytes \in Seq(Byte) /\ Len(bytes) \in Nat
    BY LenProperties DEF TypeOK
  <1>1. CASE Encoded
    <2>1. Spelled(bytes, Len(bytes))'
      BY <1>0, <1>1 DEF Encoded, CodecInv, Spelled
    <2>. QED BY <1>0, <1>1, <2>1 DEF Encoded, TypeOK, CodecInv, Spells
  <1>2. CASE CheckLength /\ Len(text) % 2 = 1
    <2>1. origin # "bytes"
      BY <1>0, <1>2 DEF CheckLength, CodecInv
    <2>. QED BY <1>2, <2>1 DEF CheckLength, TypeOK, CodecInv, Spells, Spelled
  <1>3. CASE CheckLength /\ Len(text) % 2 # 1
    <2>1. Len(text) = 2 * (Len(text) \div 2) /\ Len(text) \div 2 \in Nat
      BY <1>0, <1>3
    <2>2. decoded' = [k \in 1 .. Len(text) \div 2 |-> 0] /\ pc' = "decode" /\ pc = "check"
          /\ UNCHANGED <<bytes, text, i, origin>>
      BY <1>3 DEF CheckLength
    <2>3. decoded' \in Seq(Byte) /\ Len(decoded') = Len(text) \div 2
      BY <2>1, <2>2, IsASeq, LenProperties DEF Byte
    <2>4. i = 0 /\ origin = "bytes" => Len(text) = 2 * Len(bytes) /\ Spelled(bytes, Len(bytes))
      BY <2>2 DEF CodecInv
    <2>5. i' = 0
      BY <2>2 DEF CodecInv
    <2>6. Spelled(bytes, Len(bytes)) => Spelled(bytes, Len(bytes))'
      BY <2>2 DEF Spelled
    <2>7. Spelled(decoded, i \div 2)'
      BY <2>5 DEF Spelled
    <2>8. TypeOK'
      BY <2>2, <2>3, <2>5 DEF TypeOK
    <2>. QED BY <1>0, <2>1, <2>2, <2>3, <2>4, <2>5, <2>6, <2>7, <2>8 DEF CodecInv, Spells
  <1>. QED BY <1>1, <1>2, <1>3 DEF CheckLength

\* One more byte decoded, or a character that is no digit.
LEMMA DecodeStep == TypeOK /\ CodecInv /\ DecodeByte => TypeOK' /\ CodecInv'
  <1> SUFFICES ASSUME TypeOK, CodecInv, DecodeByte PROVE TypeOK' /\ CodecInv'
    OBVIOUS
  <1>. DEFINE x == text[i + 1]
              y == text[i + 2]
              j == i \div 2
  <1>1. /\ text \in Seq(Char) /\ decoded \in Seq(Byte) /\ bytes \in Seq(Byte)
        /\ i \in Nat /\ Len(text) \in Nat /\ Len(decoded) \in Nat /\ Len(bytes) \in Nat
    BY LenProperties DEF TypeOK
  <1>2. /\ pc = "decode" /\ i < Len(text) /\ UNCHANGED <<bytes, text, origin>>
        /\ i % 2 = 0 /\ Len(text) = 2 * Len(decoded) /\ Spelled(decoded, j)
        /\ origin = "bytes" => Len(text) = 2 * Len(bytes) /\ Spelled(bytes, Len(bytes))
    BY DEF DecodeByte, CodecInv
  <1>3. /\ j \in Nat /\ i = 2 * j /\ j + 1 \in 1 .. Len(decoded)
        /\ i + 1 \in 1 .. Len(text) /\ i + 2 \in 1 .. Len(text)
    BY <1>1, <1>2
  <1>4. x \in Char /\ y \in Char
    BY <1>1, <1>3, ElementOfSeq
  <1>5. CASE x.digit = -1 \/ y.digit = -1
    <2>1. pc' = "failed" /\ UNCHANGED <<decoded, i>>
      BY <1>5 DEF DecodeByte
    <2>2. origin # "bytes"
      <3>. SUFFICES ASSUME origin = "bytes" PROVE FALSE
        OBVIOUS
      <3>1. j + 1 \in 1 .. Len(bytes) /\ 2 * (j + 1) - 1 = i + 1 /\ 2 * (j + 1) = i + 2
        BY <1>1, <1>2, <1>3
      <3>2. /\ High(bytes[j + 1]).digit = text[2 * (j + 1) - 1].digit
            /\ Low(bytes[j + 1]).digit = text[2 * (j + 1)].digit
        BY <1>2, <3>1 DEF Spelled
      <3>3. High(bytes[j + 1]).digit = x.digit /\ Low(bytes[j + 1]).digit = y.digit
        BY <3>1, <3>2
      <3>4. bytes[j + 1] \in Byte
        BY <1>1, <3>1, ElementOfSeq
      <3>5. High(bytes[j + 1]).digit \in 0..15 /\ Low(bytes[j + 1]).digit \in 0..15
        BY <3>4, Digits
      <3>. QED BY <1>5, <3>3, <3>5
    <2>3. \E k \in 1 .. Len(text) : text[k].digit = -1
      BY <1>3, <1>5
    <2>4. TypeOK'
      BY <1>2, <2>1 DEF TypeOK
    <2>. QED BY <1>2, <2>1, <2>2, <2>3, <2>4 DEF CodecInv, Spells
  <1>6. CASE x.digit # -1 /\ y.digit # -1
    <2>. DEFINE b == HexToByte(x, y)
    <2>1. /\ b \in Byte /\ High(b).digit = x.digit /\ Low(b).digit = y.digit
      BY <1>4, <1>6, DigitsToByte
    <2>2. /\ decoded' = [decoded EXCEPT ![j + 1] = b] /\ i' = i + 2 /\ pc' = "decode"
      BY <1>2, <1>6 DEF DecodeByte
    <2>. HIDE DEF b
    <2>3. /\ decoded' \in Seq(Byte) /\ Len(decoded') = Len(decoded)
          /\ \A k \in 1 .. Len(decoded) : decoded'[k] = IF k = j + 1 THEN b ELSE decoded[k]
      BY <1>1, <1>3, <2>1, <2>2, ExceptSeq, LenProperties
    <2>4. i' \div 2 = j + 1 /\ i' % 2 = 0 /\ i' <= Len(text') /\ i' \in Nat
      BY <1>1, <1>2, <1>3, <2>2
    <2>5. Spelled(decoded, i \div 2)'
      <3>. HIDE DEF j, x, y
      <3>. SUFFICES ASSUME NEW k \in 1 .. j + 1
                    PROVE  /\ High(decoded'[k]).digit = text[2 * k - 1].digit
                           /\ Low(decoded'[k]).digit = text[2 * k].digit
        BY <1>2, <2>4 DEF Spelled, High, Low
      <3>1. CASE k = j + 1
        <4>1. 2 * k - 1 = i + 1 /\ 2 * k = i + 2 /\ decoded'[k] = b
          BY <1>3, <2>3, <3>1
        <4>. QED BY <2>1, <4>1 DEF x, y
      <3>2. CASE k \in 1 .. j
        <4>1. k \in 1 .. Len(decoded) /\ k # j + 1
          BY <1>1, <1>3, <3>2
        <4>2. decoded'[k] = decoded[k]
          BY <2>3, <4>1
        <4>. QED BY <1>2, <3>2, <4>2 DEF Spelled
      <3>3. k = j + 1 \/ k \in 1 .. j
        BY <1>3
      <3>. QED BY <3>1, <3>2, <3>3
    <2>6. Spelled(bytes, Len(bytes)) => Spelled(bytes, Len(bytes))'
      BY <1>2 DEF Spelled
    <2>7. TypeOK'
      BY <1>2, <2>2, <2>3, <2>4 DEF TypeOK
    <2>. QED BY <1>2, <2>2, <2>3, <2>4, <2>5, <2>6, <2>7 DEF CodecInv, Spells
  <1>. QED BY <1>5, <1>6

\* The end: all of the array is spelled.
LEMMA DoneStep == TypeOK /\ CodecInv /\ Decoded => TypeOK' /\ CodecInv'
  <1> SUFFICES ASSUME TypeOK, CodecInv, Decoded PROVE TypeOK' /\ CodecInv'
    OBVIOUS
  <1>1. /\ pc = "decode" /\ pc' = "done" /\ i = Len(text)
        /\ UNCHANGED <<bytes, text, decoded, i, origin>>
        /\ Len(decoded) \in Nat /\ Len(text) \in Nat
    BY LenProperties DEF Decoded, TypeOK
  <1>2. Len(text) = 2 * Len(decoded) /\ Spelled(decoded, i \div 2) /\ i % 2 = 0
    BY <1>1 DEF CodecInv
  <1>3. i \div 2 = Len(decoded)
    BY <1>1, <1>2
  <1>4. Spells'
    BY <1>1, <1>2, <1>3 DEF Spells, Spelled
  <1>5. /\ Spelled(decoded, i \div 2) => Spelled(decoded, i \div 2)'
        /\ Spelled(bytes, Len(bytes)) => Spelled(bytes, Len(bytes))'
    BY <1>1 DEF Spelled
  <1>6. TypeOK'
    BY <1>1 DEF TypeOK
  <1>. QED BY <1>1, <1>2, <1>4, <1>5, <1>6 DEF CodecInv

\* The inductive invariant of the loops: where encodeHexString has come, the
\* text spells the bytes; where hexStringToByte has come, the array is what
\* the text spells.
THEOREM CodecInvariant == Spec => [](TypeOK /\ CodecInv)
  <1>1. Init => TypeOK /\ CodecInv
    <2> SUFFICES ASSUME Init PROVE TypeOK /\ CodecInv
      OBVIOUS
    <2>1. bytes \in Seq(Byte) /\ text \in Seq(Char) /\ decoded \in Seq(Byte)
      BY CodecAssumption, EmptySeq DEF Init, CodecAssumption
    <2>2. TypeOK
      BY <2>1 DEF Init, TypeOK
    <2>3. pc = "encode" => Len(text) = 0 /\ Len(bytes) \in Nat
      BY <2>1, LenProperties, EmptySeq DEF Init
    <2>4. CodecInv
      BY <2>3 DEF Init, CodecInv, Spelled, Spells
    <2>. QED BY <2>2, <2>4
  <1>2. TypeOK /\ CodecInv /\ [Next]_vars => (TypeOK /\ CodecInv)'
    <2>1. UNCHANGED vars /\ TypeOK /\ CodecInv => TypeOK' /\ CodecInv'
      BY DEF vars, TypeOK, CodecInv, Spells, Spelled
    <2>. QED BY <2>1, EncodeStep, PrepareStep, DecodeStep, DoneStep DEF Next
  <1>. QED BY <1>1, <1>2, PTL DEF Spec

\* The loops keep their types: bytes stay signed, whatever the digits.
THEOREM CodecTypes == Spec => []TypeOK
  BY CodecInvariant, PTL

\* A text of any length is decoded to the bytes it spells, or refused for a
\* reason.
THEOREM TextsAreSpelled == Spec => []Spells
  <1>1. CodecInv => Spells
    BY DEF CodecInv
  <1>. QED BY <1>1, CodecInvariant, PTL

\* Any bytes come back from their hex digits as they went out.
THEOREM SessionsComeBack == Spec => []RoundTrip
  <1>1. TypeOK /\ CodecInv => RoundTrip
    <2>. SUFFICES ASSUME TypeOK, CodecInv, origin = "bytes", pc = "done"
                  PROVE  decoded = bytes
      BY DEF RoundTrip, CodecInv
    <2>1. /\ bytes \in Seq(Byte) /\ decoded \in Seq(Byte)
          /\ Len(bytes) \in Nat /\ Len(decoded) \in Nat
      BY LenProperties DEF TypeOK
    <2>2. Len(text) = 2 * Len(bytes) /\ Spelled(bytes, Len(bytes))
      BY DEF CodecInv
    <2>3. Len(text) = 2 * Len(decoded) /\ Spells
      BY DEF CodecInv
    <2>4. Len(decoded) = Len(bytes)
      BY <2>1, <2>2, <2>3
    <2>5. ASSUME NEW k \in 1 .. Len(bytes) PROVE decoded[k] = bytes[k]
      <3>1. bytes[k] \in Byte /\ decoded[k] \in Byte
        BY <2>1, <2>4, ElementOfSeq
      <3>2. /\ High(bytes[k]).digit = High(decoded[k]).digit
            /\ Low(bytes[k]).digit = Low(decoded[k]).digit
        BY <2>2, <2>3, <2>4 DEF Spelled, Spells
      <3>. QED BY <3>1, <3>2, DigitsDetermine
    <2>. QED BY <2>1, <2>4, <2>5, SeqEqual
  <1>. QED BY <1>1, CodecInvariant, PTL
=============================================================================
