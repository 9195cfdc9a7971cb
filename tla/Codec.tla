------------------------------- MODULE Codec -------------------------------
(***************************************************************************)
(* The encodings an event goes through: detail/base64/base64.cpp, and      *)
(* url_encode and map_to_query_string of detail/utils/utils.cpp.  A text   *)
(* is a sequence of bytes; a key, made of letters and underscores only,    *)
(* stands in it as one number above the bytes.                             *)
(***************************************************************************)
EXTENDS Integers, Sequences, SequencesExt

CONSTANT HighAlnum   \* the bytes over 127 that isalnum() holds of, where char
                     \* is signed and it is given a negative number

Byte == 0..255
LastKey == 281
Digit == 48..57
Alnum == Digit \cup 65..90 \cup 97..122

ASSUME CodecAssumption == HighAlnum \subseteq 128..255

(***************************************************************************)
(* Base64                                                                  *)
(***************************************************************************)
base64_chars == [i \in 0..63 |-> CASE i < 26 -> 65 + i
                                   [] i \in 26..51 -> 71 + i
                                   [] i \in 52..61 -> i - 4
                                   [] i = 62 -> 43
                                   [] OTHER -> 47]
Pad == 61

\* char_array_4 from char_array_3.
Sextets(c) == << c[1] \div 4,
                 (c[1] % 4) * 16 + c[2] \div 16,
                 (c[2] % 16) * 4 + c[3] \div 64,
                 c[3] % 64 >>

\* The n numbers of a text behind the first i; a missing one is 0.
Taken(text, i, n) == [k \in 1..n |-> IF i + k <= Len(text) THEN text[i + k] ELSE 0]

\* Character j belongs to the group that begins behind byte i, and pads it if
\* the group is short.
base64_encode(bytes) ==
  [j \in 1..4 * ((Len(bytes) + 2) \div 3) |->
    LET i == 3 * ((j - 1) \div 4)
        k == ((j - 1) % 4) + 1
    IN  IF i + k > Len(bytes) + 1 THEN Pad
        ELSE base64_chars[Sextets(Taken(bytes, i, 3))[k]]]

\* char_array_3 from char_array_4.
Octets(c) == << (c[1] * 4 + (c[2] % 64) \div 16) % 256,
                (c[2] % 16) * 16 + (c[3] % 64) \div 4,
                ((c[3] % 4) * 64 + c[4]) % 256 >>

\* base64_chars.find(), as a byte; npos is 255.
Find == [char \in Byte |->
  IF \E i \in 0..63 : base64_chars[i] = char
  THEN CHOOSE i \in 0..63 : base64_chars[i] = char ELSE 255]

\* What stands before the first character that is not base64 is decoded; of a
\* group with i characters there are i - 1 bytes.
base64_decode(chars) ==
  LET end == SelectInSeq(chars, LAMBDA c : Find[c] = 255)
      encoded == IF end = 0 THEN chars ELSE SubSeq(chars, 1, end - 1)
  IN  [j \in 1..(3 * Len(encoded)) \div 4 |->
        LET group == Taken(encoded, 4 * ((j - 1) \div 3), 4)
        IN  Octets([k \in 1..4 |-> Find[group[k]]])[((j - 1) % 3) + 1]]

(***************************************************************************)
(* Query strings                                                           *)
(***************************************************************************)
HexChar(d) == IF d < 10 THEN 48 + d ELSE 55 + d
Percent == 37
Escaped(c) == << Percent, HexChar(c \div 16), HexChar(c % 16) >>

\* Characters that stay as they are: letters, digits, '-', '_' and '.'.
Unreserved(c) == c \in Alnum \cup HighAlnum \cup {45, 95, 46}

EncodedByte(c) == IF Unreserved(c) THEN << c >> ELSE Escaped(c)

url_encode(text) == FlattenSeq([i \in DOMAIN text |-> EncodedByte(text[i])])

Equals    == 61
Ampersand == 38

\* A pair, with an ampersand unless it is the last of m, whose pairs are in the
\* order of their keys, which is that of their numbers here.
QueryPair(m, k) ==
  << k, Equals >> \o url_encode(m[k])
    \o IF \A l \in DOMAIN m : l <= k THEN << >> ELSE << Ampersand >>

map_to_query_string(m) ==
  FlattenSeq([i \in 1..LastKey - 255 |->
    IF 255 + i \in DOMAIN m THEN QueryPair(m, 255 + i) ELSE << >>])

(***************************************************************************)
(* What a collector makes of a query string (RFC 3986): the reference the  *)
(* encodings are compared with.                                            *)
(***************************************************************************)
HexValue(char) == IF char \in Digit THEN char - 48 ELSE char - 55
Decoded(text) ==
  FlattenSeq([i \in DOMAIN text |->
    IF \E j \in {i - 1, i - 2} : j \in DOMAIN text /\ text[j] = Percent THEN << >>
    ELSE IF text[i] = Percent
         THEN << 16 * HexValue(text[i + 1]) + HexValue(text[i + 2]) >>
         ELSE << text[i] >>])

\* The pairs between the ampersands: a key, an equals sign and a value.
FieldEnd(text, i) ==
  LET end == SelectInSubSeq(text, i, Len(text), LAMBDA c : c = Ampersand)
  IN  IF end = 0 THEN Len(text) ELSE end - 1
FieldsBegin(text) == {i \in DOMAIN text : i = 1 \/ text[i - 1] = Ampersand}

Received(text) ==
  LET begins == FieldsBegin(text)
  IN  [k \in {text[i] : i \in begins} |->
        LET begin == CHOOSE i \in begins : text[i] = k
        IN  Decoded(SubSeq(text, begin + 2, FieldEnd(text, begin)))]
=============================================================================
